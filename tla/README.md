# A TLA+ model of tensorio-tensorflow-android

The repository wraps the TensorFlow C++ runtime for Android: a few Java classes
whose objects hold the address of a native object in a `long handle`, and the JNI
functions behind them. It takes no lock, counts no reference and checks no handle,
so its correctness is about lifetimes: which native object a handle leads to, who
shares its memory, who frees it, and what concurrent callers and error paths do to
all that. Around this core are the arithmetic that decides how many bytes are copied,
a copy of assets to files, and an example application. This directory models all of
them, model-checks them with TLC on small instances, and proves the main results with
TLAPS for instances of any size.

## 1. Inventory

Paths are below `src/tensorflow/src/main/`: `java/ai/doc/tensorflow/` and `cpp/`.

| Part | State | Operations | Interacts with |
|---|---|---|---|
| `Tensor.java`, `tensor_jni.cpp` | `handle`, `isBacked`; the native `tensorflow::Tensor` and its reference-counted buffer | constructors, `setBytes`, `getBytes`, `close` | client threads; the session, through copies that share the buffer |
| `SavedModelBundle.java`, `saved_model_bundle_jni.cpp` | `handle`; the native bundle and its session | constructor, `run`, `train`, `export`, `close` | reads handles of inputs, replaces handles of outputs |
| `jni_utils.h/.cpp` | none | `getHandle`, `setHandle`, `jstring2string`, `ThrowException` | all of the above |
| `DataType.java`, `Tensor.count/size` | none | sizes of elements and of tensors | `memcpy` in `writeBytes` |
| `AndroidAssets.java` | the file system | `readTextFile`, `copyAsset` | the example, the tests |
| `NativeLibrary.java` | none | loads the shared library | class initialisers |
| `javaexample/.../MainActivity.java` | a bundle, the models directory | activity life cycle, load, run, unload | the library |
| `distribution/` | headers of TensorFlow | external | |

What is hard here, and hardly reached by the instrumented tests, which are
single-threaded and only take the success paths:

* two threads inside the library at once: `setBytes` or `close` of a tensor that a
  `run` has as an input; `close` of a bundle that is running;
* calls after `close`, and handles that are still 0;
* a `ByteBuffer` from `getBytes` that outlives the native tensor it points into;
* handles replaced by outputs: leaks, and the flag `isBacked`, which says nothing
  about whether there is a native tensor;
* calls that fail half way: `setBytes` after it has created the tensor, `train` after
  a failed step;
* buffers shared between tensors when a graph forwards its input;
* sizes that Java and C++ compute separately, one in an `int`, and that `memcpy` and
  `NewDirectByteBuffer` take on faith, from an array of dimensions that the client may
  write to in between;
* a copy of a directory that fails, is killed, or runs twice at once;
* activities that overlap and share one directory.

`PROJECT.json` lists the hazards one by one, with the properties that cover each.

What makes each part correct. A tensor holds the bytes last given to it, and close
frees what was allocated for it. A bundle hands the i-th result to the i-th output
tensor, disturbs no other, and its calls return. A view is usable while its tensor is
open. No native access goes wrong unless the client broke a rule that one can name.
Copies and views stay within the native tensor and the caller's buffer. A copy of an
asset that returns is complete, and every copy ends. An activity keeps the directory it
has set up and says truly whether it has a model.

## 2. Modules

| Module | Content |
|---|---|
| `Tensor` | Java tensors, the native heap, the client's rules; `setBytes`, `getBytes`, `close` |
| `SavedModelBundle` | extends `Tensor` with bundles: create, `run`, `train`, `export`, `close`; the composed system |
| `TensorCells` | the abstract specification: tensors as independent cells |
| `CellRefinement` | the refinement mapping from `SavedModelBundle` to `TensorCells` |
| `TensorBytes` | sizes, shapes and data types; how much `setBytes` copies and `getBytes` exposes |
| `AndroidAssets` | `copyAsset` over a file system, by several threads, with failures |
| `MainActivity` | the example: instances of an activity over one directory |
| `MC...` | definitions of constants and symmetry sets for TLC |
| `TypeProofs` | theorems on types, and on `Tensor` alone |
| `AddressProofs`, `BufferProofs`, `CellProofs` | theorems on the composed system, each extending the one before, the first `TypeProofs` |
| `OutputProofs` | theorems on the tensors that models fill; extends `BufferProofs` |
| `TensorBytesProofs`, `AssetProofs`, `ActivityProofs` | theorems on the other three modules |

The sections up to "External behaviour" are about `Tensor` and `SavedModelBundle`.

### State

| Variable | Code |
|---|---|
| `handle`, `isBacked` | the fields of `Tensor.java` |
| `native` | which addresses hold a live `tensorflow::Tensor`, and its buffer |
| `content` | the bytes in each buffer, as one abstract value; `Uninit` if nobody wrote them |
| `call` | the native call each thread is inside: its step, its tensors, the buffers its local copies keep alive, the session's results, the loop index, whether a Java exception is pending |
| `bundle` | the native bundle of each Java object: none, loaded, deleted, leaked |
| `status` | running, or how the process ended |
| `view`, `written`, `owner`, `closed`, `outputs`, `blame` | history, for the properties |

A buffer is live while a native tensor or a call in flight refers to it: that is the
reference count of `tensorflow::TensorBuffer`. An address freed by `delete` may be
used again by a later `new`, so a dangling handle may lead to a stranger's tensor.

### Steps

`setBytes` is two steps, because a second thread can get between them:
`SetBytes` (the debug check of `Tensor.java:109` and `createBackingTensor`) and
`WriteBytes` (the native `memcpy`, or the exception for a buffer that is not direct).
`getBytes`, `close` of a tensor, and the constructor of a bundle are one step each.
`run` and `train` copy their inputs (`Run`, `Train`), wait for the session
(`FinishRun`; `TrainStep` then `FetchStep`), hand over one output per step
(`PublishOutput`), and return (`ReturnOutputs`). `export` is `Export` and
`FinishExport`. Whatever the session does takes its own step, so calls of other
threads fall between copying the inputs, the session's work and each output.

Error paths follow the code. `run` throws and returns. `train` throws and goes on:
the failed training step is followed by the output step, whose failure is followed by
the assertion and the loop. `session.h` leaves the vector of outputs undefined on an
error, so the model lets it have any number of tensors up to the number asked for.
`Debug` turns on what a debug build adds: the check in `setBytes`, `assert`, and the
checking VM, which aborts on a JNI call with an exception pending.

### Clients, rules and blame

The documentation names no threading or lifetime rules; the code relies on three:
do not let calls overlap when one of them writes a tensor that the other uses, or
close a bundle that is in use (`overlap`); do not use an object after `close`
(`afterClose`); do not read a tensor that has no data (`noData`). Clients are not
prevented from breaking them: `Breakable` says which ones the clients of a run may
break, and `blame` records which they have broken. A native access that C++ leaves
undefined ends the process in a `status` that names it. So a property can say
"this fault happens only to clients who did that". After an `overlap` charge nothing
but `FaultsAreClientFaults` and the types is claimed, which is why the grain of the
steps inside overlapping calls does not matter.

### External behaviour

TensorFlow appears as it is used: `LoadSavedModel` succeeds or fails, `Session::Run`
fails or returns one tensor per requested name in their order, each in a fresh buffer,
or, if `PassThrough`, possibly in the buffer of an input (TensorFlow forwards buffers
through Identity and Reshape, and a feed may be fetched directly). Running out of
addresses or buffers ends the process as `out_of_memory`: this is the bound of the
model, and no property is claimed to detect it.

### Tensors as cells

`TensorCells` says what the library means to its clients, without handles, native
tensors, buffers or sessions: a tensor is a cell; a call claims the cells it reads and
those it writes; a step fills or empties at most one cell, which its own call has claimed
for writing. The mapping of `CellRefinement` takes for the value of a cell what `readBytes`
would find behind the tensor, and for the claims the tensors of the calls in flight.
`SavedModelBundle` implements it for clients that keep to the rules (`Breakable = {}`) and
graphs that forward no input.

### TensorBytes

One tensor, one thread that calls it, and a client that holds the array of the shape: the
constructor keeps the caller's reference and `getShape()` returns it, so `Reshape` writes to
it between any two steps. `create` reads the array once, when the first `setBytes` makes the
native tensor, and `count()` in every `setBytes` and `getBytes`; the two loops are therefore
actions of their own (`createDim`, `countDim`), one round each, on the array as it is then.
`product` is the exact product, `count` the Java one, cut to an `int` of `2 * Half` values
in every round. `create` takes only the first dimension of a scalar; if the shape is empty
it reads past the array, and the dimension is then any. A negative dimension ends the
process in `TensorShape`. `Output` gives the tensor a native tensor of the model's own type
and size.

`Copied` and `Viewed` follow `writeBytes` and `readBytes` to what the process comes to:
an overflow of the native tensor, a read past the `ByteBuffer`, a view past the buffer, a
null pointer, a failed check of TensorFlow, or an abort of the VM. `steps` and `stale` are
history: the products that `create` went through while the array has not changed since, and
whether it has changed since `create`, or during the call.

### AndroidAssets

A path is a sequence of names, relative to the asset and to the destination alike.
`todo` holds the paths a copy has found and not visited; it stands for the stack of
`copyFileOrDir`, and allows more orders than the code's. Each `mkdir`, each `open` (which
empties the file), each round of the loop and the end of the stream are steps, so that
copies by other threads, an exception (`Throw`) and the death of the process (`Kill`) fall
between any two. At first the destination holds anything consistent, older versions of the
files included. `trusted` is history: the copies in flight started with none of their
number failing. `mkdir` is allowed to fail silently, as the code ignores its result.

### MainActivity

The callbacks are atomic, as they all run on the main thread; what overlaps is the life of
instances, since Android may destroy an old one after it has created the next. `setUp`,
`tearDown` and the copy may fail half way, and leave the directory absent, empty, partial
or complete; the process may be killed anywhere, and an exception that no callback catches
kills it, too. `torn` is history: the instances after whose creation another one was
created or destroyed. `sessions` counts native sessions up to `MaxSessions`.

## 3. Runs

| Run | Instance | Shows |
|---|---|---|
| `tensor_calls` | 2 threads, 2 tensors, 3 addresses and buffers, 2 values, all rules breakable | each fault is traced to its rule; bytes, views and memory are right until a lifetime rule is broken |
| `bundle_safety` | the same and a bundle, 1 output, lawful clients | no fault; `HoldsLastWritten`, `ViewsAlive`, `OutputViewsStable`, `OnlyOutputsLeak`; `SavedModelBundle` implements `TensorCells` |
| `bundle_rules` | 2 threads, 1 tensor, a bundle, overlapping calls and calls after `close` | faults of bundle operations are traced to their rules; every call returns (liveness) |
| `forwarded_buffers` | 2 threads, 2 tensors, 2 outputs, 3 addresses, 2 buffers, 1 value, debug build, graphs that forward, use of tensors without data | races on shared buffers are the only fault that is not the client's (`RacesNeedForwarding`); outputs by position, repeated tensors and calls between two hand-overs included; views and leaks with shared buffers; outputs stay readable |
| `tensor_bytes` | dimensions -1, 0, 1, 6, up to 3 of them, written to at any time; an `int` of 5 bits; 220 bytes of memory | each end of the process has one of the causes of `CrashesHaveCauses`; `setBytes` copies the whole tensor until `count()` overflows (`CopiesFollowCount`) |
| `asset_copy` | 2 threads, a model of 3 files in 2 directories, 2 chunks per file | copies that returned are complete, whatever went before; every copy ends (liveness) |
| `activities` | 2 instances, 3 sessions | the directory is lost to other instances only; texts are true |
| `output_leak` | violated | a run into a tensor that `setBytes` has backed leaks the native tensor it had |
| `train_assert` | violated | `train` runs into its assertion after an error |
| `rejected_bytes` | violated | a rejected `setBytes` destroys an output |
| `scalar_batch` | violated | a scalar with first dimension -1, which a comment allows, ends the process |
| `forwarded_input` | violated | with a graph that forwards, `setBytes` on an input changes an output |

Bounds. Two threads suffice for every conflict between two calls, and the rules are
about pairs. Two tensors let one be input and the other output, let both be outputs,
and let one reuse the other's address. Three addresses and buffers leave one free
beside two live tensors, so a third allocation, a leak and a reuse all happen; with
two values one can tell whose bytes a buffer holds. In `forwarded_buffers` calls have two
outputs, which may be the same tensor, so that other calls fall between two hand-overs;
its properties compare buffers and not bytes, for which one value is enough, and two
buffers let both results be fresh, both be forwarded, or one of each. `MaxOutputs`, `Addrs`
and `Bufs` are the only bounds of these runs; nothing else in the model counts.

In `tensor_bytes` an `int` goes from -16 to 15: 6 * 6 wraps to the positive 4 and 6 * 6 * 6
to -8, so that both kinds of overflow occur, and a factor of 0 brings a product back; memory
holds 36 elements of any type, and 216 of one byte only. Capacities and outputs are below,
at and above the sizes of small shapes. In `asset_copy`, two chunks let a copy be cut short within a file,
and a directory within a directory lets one be there without its contents; three threads
add no kind of overlap to two. In `activities`, two instances are an old and a new one.

Deadlock is not checked in the runs of the library and of `TensorBytes`, because a client
may stop calling and a dead process takes no step; in the other two modules something can
always happen.

`bundle_rules` assumes weak fairness of each thread's steps inside the library: the
operating system schedules every thread, and a session call returns. Nothing is
assumed of clients. `asset_copy` assumes the same of a thread inside `copyAsset`: reads
and writes of files return, with or without an exception, and nothing is assumed of who
calls it or how often; a copy in flight cannot be kept from ending by others that empty
its files, since its position only moves on. Neither uses symmetry, which TLC does not
support for liveness.

### Findings

1. `run` and `train` set the handle of an output tensor without deleting the native
   tensor it pointed to (`saved_model_bundle_jni.cpp:143` and `:222`), be it one that
   `setBytes` made, as in the trace of `output_leak`, or the output of an earlier run, so
   that a loop of runs into the same tensors leaks one native tensor per output and run;
   `close`, documented to free the memory, frees the last one only. The same omission is
   what keeps older views valid: deleting the old tensor there would break `ViewsAlive`,
   as the mutant `HandOverDeletingOld` shows. A repair has to decide what a view is.
2. `train` does not return after an error (`:203`, `:212`), and reaches an assertion
   that cannot hold then (`:216`).
3. `setBytes` replaces an output's native tensor before it has checked the buffer
   (`Tensor.java:113`); in a release build the call fails and the output is gone.
4. A scalar's first dimension may be -1 according to a comment (`tensor_jni.cpp:46`);
   `create` passes it on, and `TensorShape` ends the process (`:57`).
5. Output tensors share the buffer the session returned (`saved_model_bundle_jni.cpp:142`).
   For a graph that forwards its input that is the buffer of the input, and a later
   `setBytes` on the input changes the output.

Cases the passing properties except, and that a reader of the code should know of:

* With such a graph and two threads, `setBytes` on the input while a `run` reads the output
  is a data race, although the two calls have no tensor in common: `FaultsAreClientFaults`
  fails, and `RacesNeedForwarding` says that nothing else does.
* `writeBytes` throws for an illegal type and then copies `size()` bytes to a null pointer
  (`tensor_jni.cpp:118`, `:122`); `readBytes` wraps one (`:167`). `STRING`, of the
  enumeration, is such a type. `CrashesHaveCauses` lists it (`IllegalType`).
* `count()` multiplies in an `int` although it returns a `long` (`Tensor.java:78`). Shapes
  with 2^31 elements or more have a negative size, and the process ends (`Wrapped`), or one
  that is too small, and `setBytes` silently leaves a part unwritten (`CopiesFollowCount`).
* A client that writes to the array of a shape changes what `setBytes` copies and what
  `getBytes` shows, but not the native tensor (`stale`).
* `onDestroy` of an old activity deletes the directory of one created since
  (`MainActivity.java:132`). `DirUntilTorn` excepts it (`torn`).
* `onUnloadModel` drops the bundle without closing it (`MainActivity.java:109`), and the
  session stays in memory: `sessions` does not go down.

## 4. Proofs

### The library

These theorems are about `Spec` of `SavedModelBundle`, for any sets of threads,
tensors, bundles, addresses, buffers and contents, finite or not, any `MaxOutputs`,
both builds and clients that may break any of the rules. The assumptions are
`TensorAssumption` and `BundleAssumption`: `NULL` is no address, buffer or tensor,
`Uninit` is no content, and the parameters have their types.

* `TypeCorrect`: `TypeOK`, and `ResultsMatch`: the loop over the results stays within
  the outputs array. It goes with the types since `PublishOutput` indexes that array.
* `ViewsStayAlive` and `DanglingAccessIsClientFault`, from `AddressInv`. `ViewsAlive`
  is not inductive: that no step frees the memory behind a view needs
  `ViewsOwned`, by which some native tensor holds the buffer and no *other* open
  tensor can delete it. That in turn needs that handles of open tensors are live and
  distinct (`LiveHandles`, `DistinctHandles`), and, for calls in flight, that
  their tensors and bundles are not closed under them (`CallsApart`, `CallsOpen`).
  All of this holds while the client is lawful; the faults that are the client's own
  doing are what `AddressFaults` lists.
* `FaultsOnlyByClients` and `TensorsHoldTheirBytes`, from `BufferInv`, which adds that
  no two native tensors share a buffer, that a call holds the buffers of those
  open tensors only that it names (so a lawful `writeBytes` never writes what a
  session reads), and that results not handed over yet belong to their call alone.
  They assume `PassThrough = FALSE`, and the assumption is needed, as said under
  Findings.
* `LibraryImplementsCells`: `Spec` implements `TensorCells`, if `Breakable = {}` and
  `PassThrough = FALSE`. `CellInv` adds to `BufferInv` that the client broke no rule and
  that results which a session has returned stay filled until they are handed over. Each
  action is then shown to be a step of `TensorCells` or to leave its variables alone; what
  has to be shown each time is that the cells of the *other* tensors do not change, which
  is where `BufferInv` (no shared buffers, no freed address under an open tensor) is used.

### Outputs

`OutputProofs` is about the same `Spec`, and about the tensors that `run` and `train` fill.

* `LeaksAreOutputs`, from `LeakInv`, for every graph. `OnlyOutputsLeak` speaks of native
  tensors nobody points to, so one has to know who would have: `OwnersKnown` says that an
  open tensor points to the native tensor made for it, and `UnbackedAreOutputs` that a
  native tensor which `setBytes` did not make came from a model. Together they say that
  the handle that `setBytes` or `setHandle` overwrites is null or an output's.
* `ResultsGoByPosition`, from `PositionInv`, for every graph. `NextInRange` bounds the loop
  index by the number of results, which is less than the number of outputs after a failed
  `train`. The work is in `OutputsUndisturbed`: no step of another thread moves, frees or
  refills an output of a call in flight, since that thread would have to overlap with it.
* `OutputViewsNeverChange`, from `ViewInv`, if `PassThrough = FALSE`. `ViewsNotWritten` says
  that a tensor which has a view of a model's result and a backing tensor has them in
  different buffers; with `BufferInv`, by which no other tensor shares the buffer, nobody
  can write under the view. With a graph that forwards its input this fails, as
  `HoldsLastWritten` does.
* `ForwardingOnlyRaces`, from `RaceInv`, for every graph. When `writeBytes` finds the buffer
  of its tensor in a call of another thread, that call does not name the tensor, so it must
  have the buffer from elsewhere. `BufsKept` says from where: a buffer that a call holds is
  a result that nobody else refers to yet (`FreshFor`), or some native tensor has it which
  no open tensor outside the call leads to (`KeptFor`). The second is what survives another
  thread closing, filling or replacing its own tensors, and it gives the second native
  tensor that `RacesNeedForwarding` claims. `ResultsHeld` is needed for a call that hands
  over a result: it is not one which another call took for its own.
* `DebugOutputsReadable`, from `ReadInv`, if `Debug = TRUE`, for every graph. A tensor without
  bytes is one that a `writeBytes` is about to fill (`LiveFilled`), with a buffer that the
  check of `setBytes` has let pass (`WritesDirect`); so sessions are fed, and return, written
  memory only (`HeldFilled`). The assumption is needed: the run `rejected_bytes` shows a
  release build violating it.

### Tensors alone

`TypeProofs` ends with `TensorSpec`, the specification of `Tensor`, for any instance and
clients that may break any rule. `TensorTypeCorrect` and `TensorsNeverLeak` follow from
`TensorInv`, whose `HandlesBacked` says that without bundles every native tensor comes from
`setBytes`; this is what makes the test of `isBacked` enough to keep `create` from
overwriting a handle, and it is what fails once models hand over outputs (finding 1).
`TensorsAreLibrary` says that `TensorSpec`, in a process that loads no bundle, implements
`Spec`: `FaultsOnlyByClients`, `TensorsHoldTheirBytes` and `ViewsStayAlive` thereby hold of
tensors alone, as the run `tensor_calls` checks.

### Sizes, assets, activities

* `BytesTypeCorrect`, `CrashCauses` and `CopiesAreWholeOrShort`, about `TensorBytes` for an
  `int` of any width, any dimensions, ranks, memory, buffers and outputs
  (`BytesAssumption`). They follow from `BytesInv`. The native tensor comes from the loop of
  `create` and `size()` from that of `count()`, perhaps many calls later, so the invariant
  has to relate two loops that never run together: `StepsFollow` says that the products
  which `create` went through are those of the array, as long as nobody has written to it;
  `NativeAsMade` that the native tensor has the last of them; `CountAgrees` that `count()`
  comes by the same ones, and equals the product as long as that fits in an `int`. A product
  may leave the `int` and come back by a factor of 0 only, after which the Java product is 0
  as well.
* `AssetsTypeCorrect` and `CopyIsComplete`, about `AndroidAssets` for any asset and any
  number of threads (`AssetsAssumption`: paths are closed under prefixes). The invariant
  says that whatever is missing is ahead of some copy in flight: for a directory, of one
  that will still visit something below it, so that a failed `mkdir` ends in an exception
  and not in a silent gap; for a file, of one that has it to open or is writing it at a
  position from which the missing chunks follow.
* `DirectoryKept` and `TextsAreTrue`, about `MainActivity` for any number of instances.
  That an instance which is ready is alive is what makes `DirUntilTorn` inductive.

Each proof has one lemma per action and a last step by temporal logic. The inductive
invariants were checked with TLC on the instances above before they were proved.

Only model-checked: `CallsReturn` and `CopiesEnd`, since liveness is out of the prover's
reach, as are `ENABLED` and induction over data. Every invariant that a passing run checks,
and the refinement, is also a theorem. What the theorems assume beyond the types of the
constants is `PassThrough = FALSE` where outputs must not share the buffer of an input,
`Debug = TRUE` for readable outputs, and lawful clients for the refinement.

## 5. Not modelled

* The contents of checkpoints. What `export` saves while another thread trains is decided
  by TensorFlow's variables; the library passes both calls on without a lock and has no
  state of its own there.
* `readTextFile`, which changes no state. It ignores how much its single `read` returned;
  Android's asset streams fill the buffer.
* Strings, names and logging; JNI local references and the array elements that `create`
  never releases (`PROJECT.json` lists them as hazards): each is a missing call, and a
  property could only restate that.
* Garbage collection of Java objects, which frees nothing native since there are no
  finalizers. Reads and writes a client makes through a `ByteBuffer` after `close` are the
  client's.
* That the example calls a `Tensor` constructor with three arguments, which does not
  exist: `onRunModel` is modelled as it is meant.
* `NativeLibrary`, one call from a class initialiser; TensorFlow, of which the repository
  has the headers only (`distribution/`), beyond the steps described above; the tests and
  the build.

## 6. Plan

No component of the repository's own remains to be modelled, and every safety property of
the passing runs is proved. What could still be proved: for graphs that do forward their
inputs, a weaker form of `HoldsLastWritten` that says whose bytes an output may show; and,
as action properties, what the refinement says step by step without its assumption on
clients.
