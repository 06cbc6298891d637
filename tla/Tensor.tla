------------------------------- MODULE Tensor -------------------------------
(***************************************************************************)
(* The Java class Tensor and its native half, tensor_jni.cpp.              *)
(*                                                                         *)
(* A Java Tensor holds the address of a native tensorflow::Tensor in its   *)
(* field `handle'.  A native tensor shares a reference-counted data buffer *)
(* with its copies.  setBytes() allocates the native tensor on first use   *)
(* and copies into its buffer; getBytes() returns a ByteBuffer that is a   *)
(* view of that buffer, not a copy; close() deletes the native tensor and  *)
(* leaves `handle' and `isBacked' as they are.                             *)
(*                                                                         *)
(* The library takes no lock and checks no handle, so that any thread may  *)
(* make any call at any time.  What a client does against the rules of the *)
(* API is recorded in `blame', and a native access that C++ leaves         *)
(* undefined stops the process in a state that names it, so that           *)
(* properties can say which of the client's mistakes lead to which         *)
(* failures.  Breakable is the set of rules that the clients under         *)
(* consideration do not care about: with {} they keep to all of them.      *)
(***************************************************************************)
EXTENDS Naturals, FiniteSets

CONSTANTS
    Threads,  \* threads of the application that call the library
    Tensors,  \* Java Tensor objects
    Addrs,    \* addresses of native tensors: the bound on live ones
    Bufs,     \* data buffers of native tensors: the bound on live ones
    Values,   \* contents a client or a model can put in a buffer
    NULL,     \* the handle 0, an address without a tensor, no view
    Uninit,   \* content of a buffer nobody has written
    Debug,    \* TRUE for a debug build (assertions on), FALSE for release
    Breakable \* the rules of the API that the clients considered may break

ASSUME TensorAssumption ==
    /\ NULL \notin Addrs \cup Bufs \cup Tensors
    /\ Uninit \notin Values
    /\ Debug \in BOOLEAN
    /\ Breakable \subseteq {"overlap", "afterClose", "noData"}

VARIABLES
    handle,    \* Tensor.handle: the address of the native tensor, or NULL
    isBacked,  \* Tensor.isBacked
    native,    \* the native heap: the buffer of the tensor at an address
    content,   \* the contents of the buffers
    call,      \* the native call each thread is executing
    status,    \* "running", or how the process ended
    \* What the client and the properties remember:
    view,      \* the ByteBuffer last taken from each tensor, if it is kept
    owner,     \* the Java tensor each native tensor was allocated for
    written,   \* what was last put in each tensor's current native tensor
    closed,    \* the tensors on which close() has been called
    blame      \* the rules of the API the client has broken so far

tensorVars == << handle, isBacked, native, content, call, status,
                 view, owner, written, closed, blame >>

-----------------------------------------------------------------------------
(***************************************************************************)
(* The process and its calls.                                              *)
(***************************************************************************)

(***************************************************************************)
(* Each call in flight names the tensors it reads and writes and the       *)
(* buffers its native copies of tensors keep alive.                        *)
(***************************************************************************)
Idle == [op |-> "idle", reads |-> {}, writes |-> {}, bufs |-> {}]

Ready(th) == status = "running" /\ call[th] = Idle

MemoryFaults == {"null_deref", "use_after_free", "double_free", "data_race"}

Rules == {"overlap", "afterClose", "noData"}

(***************************************************************************)
(* Two calls overlap when they are in flight together and one of them      *)
(* writes a tensor that the other one uses.                                *)
(***************************************************************************)
Overlaps(th, R, W) ==
    \E u \in Threads \ {th} : \/ call[u].writes \cap (R \cup W) # {}
                              \/ call[u].reads \cap W # {}

(***************************************************************************)
(* The rules a client breaks when thread th starts a call that reads the   *)
(* tensors R and writes the tensors W.                                     *)
(***************************************************************************)
Charge(th, R, W) ==
    { r \in Rules :
        \/ r = "overlap" /\ Overlaps(th, R, W)
        \/ r = "afterClose" /\ (R \cup W) \cap closed # {}
        \/ r = "noData" /\ \E t \in R : written[t] = Uninit }

(* The client makes a call by which it breaks the given rules. *)
Accept(broken) ==
    /\ broken \subseteq Breakable
    /\ blame' = blame \cup broken

-----------------------------------------------------------------------------
(***************************************************************************)
(* The native heap, as `new', `delete' and reference counting leave it.    *)
(***************************************************************************)

FreeAddrs == { a \in Addrs : native[a] = NULL }

LiveBufs == ({ native[a] : a \in Addrs } \ {NULL})
                \cup UNION { call[th].bufs : th \in Threads }

FreeBufs == Bufs \ LiveBufs

(***************************************************************************)
(* What following getHandle<Tensor>(t) comes to.  After delete the address *)
(* may have been reused: then the access goes to another tensor.           *)
(***************************************************************************)
Deref(t) == IF handle[t] = NULL THEN "null_deref"
            ELSE IF native[handle[t]] = NULL THEN "use_after_free"
            ELSE "running"

BufferOf(t) == native[handle[t]]

(* Mutant: the address of the data is stored instead of the tensor's. *)
setHandleOfData(t, a, b) ==
    /\ native' = [native EXCEPT ![a] = b]
    /\ owner' = [owner EXCEPT ![a] = t]
    /\ handle' = [handle EXCEPT ![t] = b]

(***************************************************************************)
(* setHandle: t now points to a new native tensor at address a with buffer *)
(* b.  Whatever t pointed to before is neither deleted nor remembered.     *)
(***************************************************************************)
setHandle(t, a, b) ==
    /\ native' = [native EXCEPT ![a] = b]
    /\ owner' = [owner EXCEPT ![a] = t]
    /\ handle' = [handle EXCEPT ![t] = a]

-----------------------------------------------------------------------------
(***************************************************************************)
(* setBytes: createBackingTensor, then writeBytes.  A debug build rejects  *)
(* a bad ByteBuffer before it does anything, so such a call is no step.    *)
(***************************************************************************)

ByteBuffers == {"good", "wrongOrder", "heap"}

(* Mutant: the address of the new tensor is not stored. *)
createNoHandle(t) ==
    UNCHANGED << handle, native, owner, content, written, status >>

(* Mutant: native tensors are pooled, and one may be in use already. *)
createPooled(t) ==
    /\ \E a \in Addrs, b \in FreeBufs :
         setHandle(t, a, IF native[a] = NULL THEN b ELSE native[a])
    /\ UNCHANGED << content, written, status >>

create(t) ==
    \/ /\ \E a \in FreeAddrs, b \in FreeBufs :
            /\ setHandle(t, a, b)
            /\ content' = [content EXCEPT ![b] = Uninit]
       /\ written' = [written EXCEPT ![t] = Uninit]
       /\ UNCHANGED status
    \/ /\ FreeAddrs = {} \/ FreeBufs = {}
       /\ status' = "out_of_memory"
       /\ UNCHANGED << handle, native, owner, content, written >>

(* Mutant: the flag is not set once the tensor is created. *)
createBackingTensorNoFlag(t) == create(t) /\ UNCHANGED isBacked

(* Mutant: each call deletes the tensor of the previous one. *)
createBackingTensorAnew(t) ==
    IF isBacked[t] /\ Deref(t) = "running"
    THEN /\ \E b \in FreeBufs : native' = [native EXCEPT ![handle[t]] = b]
         /\ UNCHANGED << handle, isBacked, owner, content, written, status >>
    ELSE create(t) /\ isBacked' = [isBacked EXCEPT ![t] = TRUE]

createBackingTensor(t) ==
    \/ /\ isBacked[t]
       /\ UNCHANGED << handle, isBacked, native, owner, content, written,
                       status >>
    \/ /\ ~isBacked[t]
       /\ create(t)
       /\ isBacked' = [isBacked EXCEPT ![t] = (status' = "running")]

(* Mutant: no build checks the ByteBuffer. *)
AdmittedAlways(buffer) == buffer \in ByteBuffers

Admitted(buffer) == Debug => buffer = "good"

SetBytes(th, t, v, buffer) ==
    /\ Ready(th)
    /\ Admitted(buffer)
    /\ Accept(Charge(th, {}, {t}))
    /\ createBackingTensor(t)
    /\ call' = [call EXCEPT ![th] =
                  [op |-> "writeBytes", reads |-> {}, writes |-> {t},
                   bufs |-> {}, tensor |-> t, data |-> v,
                   direct |-> buffer # "heap"]]
    /\ UNCHANGED << view, closed >>

(***************************************************************************)
(* writeBytes throws on a buffer that is not direct, after the backing     *)
(* tensor has been created.  Otherwise it copies into whatever the handle  *)
(* leads to.                                                               *)
(***************************************************************************)
WriteBytes(th) ==
    /\ status = "running"
    /\ call[th].op = "writeBytes"
    /\ LET t == call[th].tensor
           racing == \E u \in Threads \ {th} : BufferOf(t) \in call[u].bufs
       IN  \/ /\ ~call[th].direct
              /\ UNCHANGED << status, content, written >>
           \/ /\ call[th].direct
              /\ Deref(t) # "running"
              /\ status' = Deref(t)
              /\ UNCHANGED << content, written >>
           \/ /\ call[th].direct
              /\ Deref(t) = "running"
              /\ status' = IF racing THEN "data_race" ELSE status
              /\ content' = [content EXCEPT ![BufferOf(t)] = call[th].data]
              /\ written' = [written EXCEPT ![t] = call[th].data]
    /\ call' = [call EXCEPT ![th] = Idle]
    /\ UNCHANGED << handle, isBacked, native, view, owner, closed, blame >>

(***************************************************************************)
(* getBytes wraps the buffer of the native tensor in a new ByteBuffer.     *)
(* The client may keep it; `backed' says whether the tensor was one that   *)
(* setBytes writes in place when it was taken.                             *)
(***************************************************************************)
GetBytes(th, t) ==
    /\ Ready(th)
    /\ Accept(Charge(th, {t}, {}))
    /\ \/ /\ Deref(t) # "running"
          /\ status' = Deref(t)
          /\ UNCHANGED view
       \/ /\ Deref(t) = "running"
          /\ view' = [view EXCEPT ![t] = [buf |-> BufferOf(t),
                                          bytes |-> content[BufferOf(t)],
                                          backed |-> isBacked[t]]]
          /\ UNCHANGED status
    /\ UNCHANGED << handle, isBacked, native, content, call, owner, written,
                    closed >>

(***************************************************************************)
(* close: `delete getHandle(t)'.  Deleting a null pointer does nothing.    *)
(* The client has no more use for a view it took of t.                     *)
(***************************************************************************)
Close(th, t) ==
    /\ Ready(th)
    /\ Accept(Charge(th, {}, {t}))
    /\ closed' = closed \cup {t}
    /\ \/ /\ handle[t] = NULL
          /\ UNCHANGED << native, owner, status >>
       \/ /\ Deref(t) = "use_after_free"
          /\ status' = "double_free"
          /\ UNCHANGED << native, owner >>
       \/ /\ Deref(t) = "running"
          /\ native' = [native EXCEPT ![handle[t]] = NULL]
          /\ owner' = [owner EXCEPT ![handle[t]] = NULL]
          /\ UNCHANGED status
    /\ view' = [view EXCEPT ![t] = NULL]
    /\ written' = [written EXCEPT ![t] = Uninit]
    /\ UNCHANGED << handle, isBacked, content, call >>

-----------------------------------------------------------------------------
TensorInit ==
    /\ handle = [t \in Tensors |-> NULL]
    /\ isBacked = [t \in Tensors |-> FALSE]
    /\ native = [a \in Addrs |-> NULL]
    /\ content = [b \in Bufs |-> Uninit]
    /\ call = [th \in Threads |-> Idle]
    /\ status = "running"
    /\ view = [t \in Tensors |-> NULL]
    /\ owner = [a \in Addrs |-> NULL]
    /\ written = [t \in Tensors |-> Uninit]
    /\ closed = {}
    /\ blame = {}

TensorNext ==
    \E th \in Threads :
        \/ WriteBytes(th)
        \/ \E t \in Tensors :
              \/ \E v \in Values, buffer \in ByteBuffers :
                    SetBytes(th, t, v, buffer)
              \/ GetBytes(th, t)
              \/ Close(th, t)

TensorSpec == TensorInit /\ [][TensorNext]_tensorVars

-----------------------------------------------------------------------------
(***************************************************************************)
(* Properties.                                                             *)
(***************************************************************************)

Views == [buf : Bufs, bytes : Values \cup {Uninit}, backed : BOOLEAN]

IdleCalls == [op : {"idle"}, reads : {{}}, writes : {{}}, bufs : {{}}]

WriteCalls == [op : {"writeBytes"}, reads : {{}}, writes : SUBSET Tensors,
               bufs : {{}}, tensor : Tensors, data : Values, direct : BOOLEAN]

(* Everything but the calls in flight, which modules above this one extend. *)
HeapTypeOK ==
    /\ handle \in [Tensors -> Addrs \cup {NULL}]
    /\ isBacked \in [Tensors -> BOOLEAN]
    /\ native \in [Addrs -> Bufs \cup {NULL}]
    /\ content \in [Bufs -> Values \cup {Uninit}]
    /\ view \in [Tensors -> Views \cup {NULL}]
    /\ owner \in [Addrs -> Tensors \cup {NULL}]
    /\ written \in [Tensors -> Values \cup {Uninit}]
    /\ closed \subseteq Tensors
    /\ blame \subseteq Rules

(* The types of the state of Tensor.java and of the native heap behind it. *)
TensorTypeOK ==
    /\ HeapTypeOK
    /\ call \in [Threads -> IdleCalls \cup WriteCalls]
    /\ status \in {"running", "out_of_memory"} \cup MemoryFaults

(***************************************************************************)
(* No memory error without a client's mistake: a null handle is followed   *)
(* only if the client used a tensor it never gave data, and freed or       *)
(* raced-on memory is touched only if it used a tensor after close() or    *)
(* let calls on one tensor overlap.  (writeBytes, readBytes and delete in  *)
(* tensor_jni.cpp follow the handle without a check.)                      *)
(***************************************************************************)
FaultsAreClientFaults ==
    /\ status = "null_deref" => "noData" \in blame
    /\ status \in MemoryFaults \ {"null_deref"} =>
           blame \cap {"overlap", "afterClose"} # {}

(* The client has broken no rule about lifetimes or overlapping calls. *)
Lawful == blame \cap {"overlap", "afterClose"} = {}

Open == Tensors \ closed

(***************************************************************************)
(* What getBytes documents: a tensor that has been given bytes leads to a  *)
(* live buffer that holds exactly the bytes last given to it, whatever     *)
(* happened to the other tensors since.                                    *)
(***************************************************************************)
HoldsLastWritten ==
    Lawful /\ status = "running" =>
        \A t \in Open : written[t] # Uninit =>
            /\ Deref(t) = "running"
            /\ content[BufferOf(t)] = written[t]

(***************************************************************************)
(* A ByteBuffer that getBytes returned keeps pointing to live memory for   *)
(* as long as its tensor is not closed, although readBytes takes no        *)
(* reference on the buffer it wraps.                                       *)
(***************************************************************************)
ViewsAlive ==
    Lawful => \A t \in Open : view[t] # NULL => view[t].buf \in LiveBufs

(***************************************************************************)
(* close() frees everything that setBytes allocated for its tensor: every  *)
(* live native tensor is the one an open Java tensor points to.            *)
(***************************************************************************)
NoLeak ==
    Lawful => \A a \in Addrs : native[a] # NULL =>
        \E t \in Open : handle[t] = a
=============================================================================
