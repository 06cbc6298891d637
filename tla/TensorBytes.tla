---------------------------- MODULE TensorBytes ----------------------------
(***************************************************************************)
(* How many bytes a Tensor has: in Java (count, size, DataType) and in the *)
(* native tensor (the dimensions that create passes on), and what follows  *)
(* where the two meet: writeBytes copies size() bytes, readBytes returns a *)
(* ByteBuffer of size() bytes, and neither looks at how much the native    *)
(* tensor or the ByteBuffer of the caller really holds.                    *)
(*                                                                         *)
(* One tensor and one thread that calls it; module Tensor has the rest.    *)
(* The array of the shape belongs to the client, who may write to it at    *)
(* any time: create() reads it once, count() on every call.                *)
(***************************************************************************)
EXTENDS Integers, Sequences

CONSTANTS
    Half,       \* Java's int goes from -Half to Half-1 (there, 2^31)
    Dims,       \* dimensions a client puts in a shape
    MaxRank,    \* bound on the length of a shape
    MaxBytes,   \* the largest native tensor there is memory for
    Capacities, \* capacities of the ByteBuffers of a client
    OutputSizes \* element counts of the outputs of models

ASSUME BytesAssumption ==
    /\ Half \in Nat /\ Half > 1
    /\ Dims \subseteq -Half..(Half - 1)
    /\ MaxRank \in Nat
    /\ MaxBytes \in Nat
    /\ Capacities \subseteq Nat
    /\ OutputSizes \subseteq Nat

VARIABLES
    dtype, scalar, \* final fields of Tensor
    shape,     \* the array that the field shape refers to
    isBacked,  \* Tensor.isBacked
    native,    \* the native tensor: who made it, its type and its bytes
    status,    \* "running", "threw", or how the process ended
    \* The call in flight:
    op,        \* "idle", or the loop it is in: that of create, of count for
               \* writeBytes ("write"), or of count for readBytes ("read")
    visited,   \* how many dimensions that loop has multiplied
    product,   \* their product
    count,     \* what count() has made of it
    given,     \* capacity of the ByteBuffer passed to setBytes
    \* What the properties remember:
    steps,     \* the products create went through, if the array is the same
    stale      \* whether the client has written to the array since create
               \* or, if it never was called, since the call in flight began

fields == << dtype, scalar >>
call == << op, visited, product, count, given >>
vars == << dtype, scalar, shape, isBacked, native, status, op, visited,
           product, count, given, steps, stale >>

-----------------------------------------------------------------------------
(***************************************************************************)
(* Data types and sizes.                                                   *)
(***************************************************************************)
DataTypes == {"FLOAT32", "INT32", "UINT8", "INT64", "STRING"}

(* Mutant: INT64 is taken for four bytes. *)
byteSizeNarrow(type) == [FLOAT32 |-> 4, INT32 |-> 4, UINT8 |-> 1, INT64 |-> 4,
                         STRING |-> -1][type]

byteSize(type) == [FLOAT32 |-> 4, INT32 |-> 4, UINT8 |-> 1, INT64 |-> 8,
                   STRING |-> -1][type]

(* Mutant: the value of DT_INT32 is used for INT64 as well. *)
cNarrow(type) == [FLOAT32 |-> 1, INT32 |-> 3, UINT8 |-> 4, INT64 |-> 3,
                  STRING |-> 7][type]

(* The value of tensorflow::DataType that stands for a Java DataType. *)
c(type) == [FLOAT32 |-> 1, INT32 |-> 3, UINT8 |-> 4, INT64 |-> 9,
            STRING |-> 7][type]

(* The size in TensorFlow of an element of DT_FLOAT, DT_INT32, DT_UINT8 or *)
(* DT_INT64; a DT_STRING tensor has no bytes that could be copied.         *)
sizeof(value) == IF value \in {1, 3} THEN 4
                 ELSE IF value = 4 THEN 1
                 ELSE IF value = 9 THEN 8
                 ELSE 0

(* The values that writeBytes and readBytes have a case for. *)
Legal == {1, 3, 4, 9}

(* What is left of x in a Java int. *)
toInt(x) == ((x + Half) % (2 * Half)) - Half

(* size(), in a Java long; it has room for any int times 8. *)
size == count * byteSize(dtype)

Crashes == {"overflow", "overread", "overview", "segv", "jni_abort",
            "check_failed"}

-----------------------------------------------------------------------------
(***************************************************************************)
(* The client makes a call, and the call goes from loop to loop and back.  *)
(***************************************************************************)

Alive == status \in {"running", "threw"}

Ready == op = "idle" /\ Alive

Loop(name) == op' = name /\ visited' = 0 /\ product' = 1 /\ count' = 1

(* A call returns, or the process ends inside it. *)
Leave(outcome) ==
    /\ status' = outcome
    /\ \/ outcome \in Crashes /\ UNCHANGED call
       \/ outcome \notin Crashes /\ Loop("idle") /\ given' = 0

(* A call begins: what create read matters only if it has been called. *)
Enter(name) ==
    /\ Ready
    /\ Loop(name)
    /\ stale' = (isBacked /\ stale)
    /\ UNCHANGED << fields, shape, isBacked, native, status, steps >>

(***************************************************************************)
(* A client has the array of the shape from before the constructor, which  *)
(* keeps the reference, and gets it again from getShape().                 *)
(***************************************************************************)
Reshape(i, d) ==
    /\ Alive
    /\ i \in 1..Len(shape)
    /\ shape' = [shape EXCEPT ![i] = d]
    /\ stale' = (stale \/ isBacked \/ op # "idle")
    /\ steps' = << >>
    /\ UNCHANGED << fields, isBacked, native, status, call >>

(* One round of the loop of count(). *)
countDim ==
    /\ op \in {"write", "read"}
    /\ visited < Len(shape)
    /\ Alive
    /\ visited' = visited + 1
    /\ count' = toInt(count * shape[visited + 1])
    /\ product' = product * shape[visited + 1]
    /\ UNCHANGED << fields, shape, isBacked, native, status, op, given, steps,
                    stale >>

(* The loop of count() is over. *)
Counted(name) ==
    op = name /\ visited = Len(shape) /\ Alive

-----------------------------------------------------------------------------
(***************************************************************************)
(* setBytes: createBackingTensor, size and writeBytes.                     *)
(***************************************************************************)
NoTensor == [by |-> "nobody", type |-> 0, bytes |-> 0]

setBytes(capacity) ==
    /\ Enter(IF isBacked THEN "write" ELSE "create")
    /\ given' = capacity

(* The number of dimensions create passes on. *)
shapeCount == IF scalar THEN 1 ELSE Len(shape)

(* Mutant: nobody looks at the dimension. *)
createDimUnchecked ==
    /\ op = "create" /\ visited < Len(shape) /\ visited < shapeCount
    /\ Alive
    /\ visited' = visited + 1
    /\ product' = product * shape[visited + 1]
    /\ steps' = Append(steps, product')
    /\ UNCHANGED << fields, shape, isBacked, native, status, op, count, given,
                    stale >>

(***************************************************************************)
(* create takes a dimension.  Of a scalar with an empty shape it reads one *)
(* that is not there.  TensorShape, to which they go, ends the process     *)
(* over a negative one.                                                    *)
(***************************************************************************)
createDim ==
    /\ op = "create" /\ visited < shapeCount
    /\ Alive
    /\ \E d \in Dims :
         /\ visited < Len(shape) => d = shape[visited + 1]
         /\ \/ /\ d < 0
               /\ status' = "check_failed"
               /\ UNCHANGED << visited, product, steps >>
            \/ /\ d >= 0
               /\ visited' = visited + 1
               /\ product' = product * d
               /\ steps' = Append(steps, product * d)
               /\ UNCHANGED status
    /\ UNCHANGED << fields, shape, isBacked, native, op, count, given, stale >>

(* The native tensor that create() makes.  If there is no memory for it, *)
(* TensorFlow makes it all the same, with no data behind it.             *)
created ==
    LET wanted == product * sizeof(c(dtype))
    IN  [by |-> "create", type |-> c(dtype),
         bytes |-> IF wanted <= MaxBytes THEN wanted ELSE 0]

create ==
    /\ op = "create" /\ visited = shapeCount
    /\ Alive
    /\ native' = created
    /\ isBacked' = TRUE
    /\ Loop("write")
    /\ UNCHANGED << fields, shape, status, given, steps, stale >>

(***************************************************************************)
(* What memcpy of size() bytes comes to, from a ByteBuffer of the given    *)
(* capacity to the tensor t.  A negative size is a huge size_t.  For an    *)
(* illegal type writeBytes throws, but then copies to a null pointer;      *)
(* flat<T> checks the type.                                                *)
(***************************************************************************)
Copied(t, capacity) ==
    IF c(dtype) \notin Legal
    THEN IF size = 0 THEN "threw" ELSE "segv"
    ELSE IF t.type # c(dtype) THEN "check_failed"
    ELSE IF size < 0 \/ size > t.bytes THEN "overflow"
    ELSE IF size > capacity THEN "overread"
    ELSE "running"

writeBytes ==
    /\ Counted("write")
    /\ Leave(Copied(native, given))
    /\ UNCHANGED << fields, shape, isBacked, native, steps, stale >>

-----------------------------------------------------------------------------
(***************************************************************************)
(* getBytes: NewDirectByteBuffer wants a capacity that is an int and not   *)
(* negative, and with a null pointer, which an empty tensor and an illegal *)
(* type have, a capacity of zero; otherwise the view has size() bytes,     *)
(* whatever is behind it.                                                  *)
(***************************************************************************)
getBytes ==
    /\ native # NoTensor
    /\ Enter("read")
    /\ UNCHANGED given

Viewed ==
    IF c(dtype) \in Legal /\ native.type # c(dtype) THEN "check_failed"
    ELSE IF \/ size < 0 \/ size >= Half
            \/ size # 0 /\ (c(dtype) \notin Legal \/ native.bytes = 0)
         THEN "jni_abort"
    ELSE IF c(dtype) \notin Legal THEN "threw"
    ELSE IF size > native.bytes THEN "overview"
    ELSE "running"

readBytes ==
    /\ Counted("read")
    /\ Leave(Viewed)
    /\ UNCHANGED << fields, shape, isBacked, native, steps, stale >>

(* run or train makes the tensor an output: it now has the model's type *)
(* and size, whatever the client declared.                              *)
Output(type, n) ==
    /\ Ready
    /\ native' = [by |-> "model", type |-> c(type),
                  bytes |-> n * sizeof(c(type))]
    /\ UNCHANGED << fields, shape, isBacked, status, call, steps, stale >>

-----------------------------------------------------------------------------
Shapes == UNION { [1..n -> Dims] : n \in 0..MaxRank }

Init ==
    /\ dtype \in DataTypes
    /\ scalar \in BOOLEAN
    /\ shape \in Shapes
    /\ isBacked = FALSE
    /\ native = NoTensor
    /\ status = "running"
    /\ op = "idle" /\ visited = 0 /\ product = 1 /\ count = 1 /\ given = 0
    /\ steps = << >>
    /\ stale = FALSE

Next ==
    \/ \E i \in 1..MaxRank, d \in Dims : Reshape(i, d)
    \/ \E capacity \in Capacities : setBytes(capacity)
    \/ createDim
    \/ create
    \/ countDim
    \/ writeBytes
    \/ getBytes
    \/ readBytes
    \/ \E type \in DataTypes, n \in OutputSizes : Output(type, n)

Spec == Init /\ [][Next]_vars

-----------------------------------------------------------------------------
(***************************************************************************)
(* Properties.                                                             *)
(***************************************************************************)

(* The types of a tensor's fields, of its native half and of a call on it. *)
TypeOK ==
    /\ dtype \in DataTypes
    /\ scalar \in BOOLEAN
    /\ shape \in Seq(Dims)
    /\ isBacked \in BOOLEAN
    /\ native \in [by : {"nobody", "create", "model"},
                   type : {0, 1, 3, 4, 7, 9}, bytes : Nat]
    /\ status \in {"running", "threw"} \cup Crashes
    /\ op \in {"idle", "create", "write", "read"}
    /\ visited \in 0..IF op = "create" THEN shapeCount ELSE Len(shape)
    /\ product \in Int
    /\ count \in -Half..(Half - 1)
    /\ given \in Nat
    /\ steps \in Seq(Nat)
    /\ stale \in BOOLEAN

(* The bytes that the shape asks for. *)
Declared == product * byteSize(dtype)

(***************************************************************************)
(* What the client can do wrong: a negative dimension other than the -1    *)
(* that a comment of create allows as the first one of a scalar; a scalar  *)
(* with no dimension, or with others than 1 after the first; writing to    *)
(* the array of a shape which create has read; a ByteBuffer with too few   *)
(* bytes; a shape or a type that the output of the model does not have.    *)
(***************************************************************************)
BadShape ==
    \/ \E i \in 1..Len(shape) : shape[i] < IF scalar /\ i = 1 THEN -1 ELSE 0
    \/ scalar /\ (shape = << >> \/ \E i \in 2..Len(shape) : shape[i] # 1)

ShortBuffer == status = "overread" /\ given < size

Misdeclared ==
    native.by = "model" /\ (native.type # c(dtype) \/ native.bytes < size)

(* What there is no room for, in memory or in a ByteBuffer. *)
NoRoom ==
    \/ native.by = "create" /\ Declared > MaxBytes
    \/ op = "read" /\ size >= Half

(***************************************************************************)
(* What the library does wrong: it has no case for a type that is in the   *)
(* enumeration; it passes on the -1 of a scalar, and counts with it; and   *)
(* it counts in an int, which overflows to a negative size.                *)
(***************************************************************************)
IllegalType == dtype = "STRING" /\ status \in {"segv", "jni_abort"}

OpenBatch ==
    /\ scalar /\ shape # << >> /\ shape[1] = -1
    /\ op = "create" \/ size < 0

Wrapped == product >= Half /\ size < 0

(***************************************************************************)
(* What a copy, a view or a check that ends the process takes: one of the  *)
(* mistakes of a client, a lack of room, or one of the three defects of    *)
(* the library.  Otherwise size(), the native tensor and the ByteBuffer    *)
(* agree wherever writeBytes and readBytes rely on it.                     *)
(***************************************************************************)
CrashesHaveCauses ==
    status \in Crashes =>
        \/ BadShape \/ stale \/ ShortBuffer \/ Misdeclared
        \/ NoRoom
        \/ IllegalType \/ OpenBatch \/ Wrapped

(***************************************************************************)
(* setBytes on a tensor that create made from the shape as it still is: as *)
(* long as the elements can be counted in an int, the copy has exactly the *)
(* bytes of the native tensor; from then on it either runs out of it,      *)
(* since size() is negative, or falls short of it without anyone noticing. *)
(***************************************************************************)
CopiesFollowCount ==
    /\ Counted("write")
    /\ native.by = "create" /\ ~stale /\ ~BadShape
    /\ dtype # "STRING" /\ Declared <= MaxBytes
    => IF product < Half THEN size = native.bytes
       ELSE size < native.bytes

(***************************************************************************)
(* What the comment of create says of scalars: their first dimension `may  *)
(* be -1 or fixed batch size', with all others 1.  create accepts them.    *)
(***************************************************************************)
ScalarsAccepted ==
    status = "check_failed" /\ op = "create" => ~scalar \/ BadShape \/ stale
=============================================================================
