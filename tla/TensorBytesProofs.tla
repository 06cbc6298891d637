------------------------- MODULE TensorBytesProofs -------------------------
(***************************************************************************)
(* Bounds of the copies and views of a tensor, for ints of any width,      *)
(* shapes of any length that change at any time, and any model's outputs.  *)
(***************************************************************************)
EXTENDS TensorBytes, TLAPS

-----------------------------------------------------------------------------
(***************************************************************************)
(* Java's int.                                                             *)
(***************************************************************************)

LEMMA DimsAreInts == \A x \in Dims : x \in Int
BY BytesAssumption

LEMMA ToIntRange ==
    ASSUME NEW x \in Int
    PROVE  toInt(x) \in -Half..(Half - 1)
<1>1. Half \in Nat /\ Half > 1
  BY BytesAssumption
<1>2. (x + Half) % (2 * Half) \in 0..(2 * Half - 1)
  BY <1>1
<1>3. QED
  BY <1>1, <1>2 DEF toInt

LEMMA ToIntFits ==
    ASSUME NEW x \in -Half..(Half - 1)
    PROVE  toInt(x) = x
<1>1. Half \in Nat /\ Half > 1
  BY BytesAssumption
<1>2. (x + Half) % (2 * Half) = x + Half
  BY <1>1
<1>3. QED
  BY <1>1, <1>2 DEF toInt

(* A product with a factor of at least one is at least the other factor. *)
LEMMA ProductGrows ==
    ASSUME NEW m \in Nat, NEW n \in Nat, n >= 1
    PROVE  m * n \in Nat /\ m <= m * n
<1>1. m * (n - 1) \in Nat
  OBVIOUS
<1>2. m * n = m * (n - 1) + m
  OBVIOUS
<1>3. QED
  BY <1>1, <1>2

LEMMA SizesAgree ==
    ASSUME NEW t \in DataTypes
    PROVE  /\ byteSize(t) \in Int
           /\ c(t) \in {1, 3, 4, 7, 9}
           /\ sizeof(c(t)) \in Nat
           /\ t # "STRING" => /\ byteSize(t) = sizeof(c(t))
                              /\ byteSize(t) \in {1, 4, 8}
                              /\ c(t) \in Legal
           /\ t = "STRING" => c(t) \notin Legal
BY DEF DataTypes, byteSize, c, sizeof, Legal

-----------------------------------------------------------------------------
(***************************************************************************)
(* The inductive invariant.  create and count() multiply the dimensions at *)
(* different times; steps, the products that create went through, is what  *)
(* connects the two loops as long as nobody writes to the array.           *)
(***************************************************************************)
NonNeg == \A i \in 1..Len(shape) : shape[i] >= 0

(* The product that create had after i dimensions, and after the last. *)
At(i) == IF i = 0 THEN 1 ELSE steps[i]

Elements == At(shapeCount)

Bookkeeping ==
    /\ op = "create" => ~isBacked /\ product \in Nat
    /\ op = "write" => isBacked
    /\ op = "read" => native # NoTensor
    /\ isBacked => native.by # "nobody"
    /\ native.by = "create" => isBacked
    /\ native.by = "nobody" => native = NoTensor
    /\ ~isBacked /\ op # "create" => steps = << >>

StepsFollow ==
    ~stale /\ (isBacked \/ op = "create") =>
        /\ Len(steps) = IF isBacked THEN shapeCount ELSE visited
        /\ op = "create" => product = At(visited)
        /\ \A i \in 1..Len(steps) :
              i <= Len(shape) => steps[i] = At(i - 1) * shape[i]

NativeAsMade ==
    native.by = "create" =>
        /\ native.type = c(dtype)
        /\ ~stale => native.bytes = IF Elements * sizeof(c(dtype)) <= MaxBytes
                                    THEN Elements * sizeof(c(dtype)) ELSE 0

(* count() is right as long as an int is wide enough; and it goes through  *)
(* the products that create went through, which ones after the first       *)
(* dimension of a scalar do not change.                                    *)
CountAgrees ==
    op \in {"write", "read"} =>
        /\ visited = 0 => product = 1 /\ count = 1
        /\ ~stale /\ ~BadShape =>
             /\ NonNeg => product \in Nat /\ (product < Half => count = product)
             /\ ~NonNeg /\ visited > 0 => count = -1
             /\ isBacked =>
                   product = At(IF visited <= shapeCount THEN visited
                                ELSE shapeCount)

BytesInv == /\ TypeOK /\ Bookkeeping /\ StepsFollow /\ NativeAsMade
            /\ CountAgrees /\ CrashesHaveCauses

(* What the types say of the loops. *)
LEMMA LoopTypes ==
    ASSUME TypeOK
    PROVE  /\ Half \in Nat /\ Half > 1 /\ MaxBytes \in Nat
           /\ Len(shape) \in Nat /\ shapeCount \in Nat /\ visited \in Nat
           /\ \A i \in 1..Len(shape) : shape[i] \in Dims /\ shape[i] \in Int
           /\ count \in Int /\ product \in Int
           /\ Len(steps) \in Nat /\ \A i \in 1..Len(steps) : steps[i] \in Nat
           /\ dtype \in DataTypes /\ byteSize(dtype) \in Int
<1>1. Half \in Nat /\ Half > 1 /\ MaxBytes \in Nat
  BY BytesAssumption
<1>2. Len(shape) \in Nat /\ \A i \in 1..Len(shape) : shape[i] \in Dims
  BY DEF TypeOK
<1>3. \A i \in 1..Len(shape) : shape[i] \in Int
  BY <1>2, DimsAreInts
<1>4. shapeCount \in Nat
  BY <1>2 DEF shapeCount
<1>5. visited \in Nat
  BY <1>2, <1>4 DEF TypeOK
<1>6. Len(steps) \in Nat /\ \A i \in 1..Len(steps) : steps[i] \in Nat
  BY DEF TypeOK
<1>7. dtype \in DataTypes /\ count \in -Half..(Half - 1) /\ product \in Int
  BY DEF TypeOK
<1>8. count \in Int
  BY <1>1, <1>7
<1>9. byteSize(dtype) \in Int
  BY <1>7, SizesAgree
<1>10. QED
  BY <1>1, <1>2, <1>3, <1>4, <1>5, <1>6, <1>7, <1>8, <1>9

LEMMA InitBytes == Init => BytesInv
<1> SUFFICES ASSUME Init PROVE BytesInv
  OBVIOUS
<1>1. Half \in Nat /\ Half > 1
  BY BytesAssumption
<1>2. PICK n \in 0..MaxRank : shape \in [1..n -> Dims]
  BY DEF Init, Shapes
<1>3. shape \in Seq(Dims) /\ Len(shape) \in Nat
  BY <1>2, BytesAssumption
<1>4. TypeOK
  <2>1. 0 \in 0..Len(shape) /\ 1 \in -Half..(Half - 1)
    BY <1>1, <1>3
  <2>2. NoTensor \in [by : {"nobody", "create", "model"},
                      type : {0, 1, 3, 4, 7, 9}, bytes : Nat]
    BY DEF NoTensor
  <2>3. << >> \in Seq(Nat) /\ 0 \in Nat /\ 1 \in Int
    OBVIOUS
  <2>4. visited \in 0..IF op = "create" THEN shapeCount ELSE Len(shape)
    BY <2>1 DEF Init
  <2>5. QED
    BY <1>3, <2>1, <2>2, <2>3, <2>4 DEF TypeOK, Init
<1>5. Bookkeeping /\ StepsFollow /\ NativeAsMade /\ CountAgrees
  BY DEF Bookkeeping, StepsFollow, NativeAsMade, CountAgrees, Init, NoTensor
<1>6. CrashesHaveCauses
  BY DEF CrashesHaveCauses, Crashes, Init
<1>7. QED
  BY <1>4, <1>5, <1>6 DEF BytesInv

LEMMA ReshapeBytes ==
    ASSUME BytesInv, NEW i \in 1..MaxRank, NEW d \in Dims, Reshape(i, d)
    PROVE  BytesInv'
<1>1. /\ shape' \in Seq(Dims) /\ Len(shape') = Len(shape)
      /\ UNCHANGED << dtype, scalar, isBacked, native, status, op, visited,
                      product, count, given >>
      /\ steps' = << >> /\ stale' \in BOOLEAN
      /\ Alive
  BY DEF BytesInv, TypeOK, Reshape, fields, call
<1>2. shapeCount' = shapeCount
  BY <1>1 DEF shapeCount
<1>3. TypeOK'
  BY <1>1, <1>2 DEF BytesInv, TypeOK
<1>4. Bookkeeping'
  BY <1>1 DEF BytesInv, Bookkeeping
<1>5. ~stale' => ~isBacked /\ op = "idle"
  BY DEF Reshape, BytesInv, TypeOK
<1>6. StepsFollow' /\ NativeAsMade' /\ CountAgrees'
  BY <1>1, <1>5 DEF BytesInv, StepsFollow, NativeAsMade, CountAgrees, Bookkeeping
<1>7. CrashesHaveCauses'
  BY <1>1 DEF CrashesHaveCauses, Alive, Crashes
<1>8. QED
  BY <1>3, <1>4, <1>6, <1>7 DEF BytesInv

(* A call begins: nothing has been multiplied. *)
LEMMA EnterBytes ==
    ASSUME BytesInv, NEW name \in {"create", "write", "read"}, Enter(name),
           given' \in Nat,
           name = "create" => ~isBacked,
           name = "write" => isBacked,
           name = "read" => native # NoTensor
    PROVE  BytesInv'
<1>1. /\ UNCHANGED << dtype, scalar, shape, isBacked, native, status, steps >>
      /\ op' = name /\ visited' = 0 /\ product' = 1 /\ count' = 1
      /\ stale' = (isBacked /\ stale)
      /\ Alive /\ op = "idle"
  BY DEF Enter, Loop, Ready, fields
<1>2. /\ Half \in Nat /\ Half > 1 /\ Len(shape) \in Nat
      /\ shapeCount \in Nat /\ shapeCount' = shapeCount
  BY <1>1, LoopTypes DEF BytesInv, shapeCount
<1>3. TypeOK'
  <2>1. 0 \in 0..Len(shape) /\ 0 \in 0..shapeCount /\ 1 \in -Half..(Half - 1)
    BY <1>2
  <2>2. stale' \in BOOLEAN
    BY <1>1 DEF BytesInv, TypeOK
  <2>3. QED
    BY <1>1, <1>2, <2>1, <2>2 DEF BytesInv, TypeOK
<1>4. Bookkeeping'
  BY <1>1 DEF BytesInv, Bookkeeping
<1>5. StepsFollow'
  <2>1. CASE isBacked
    BY <1>1, <1>2, <2>1 DEF BytesInv, StepsFollow, At, TypeOK
  <2>2. CASE ~isBacked
    <3>1. steps = << >> /\ steps' = << >>
      BY <1>1, <2>2 DEF BytesInv, Bookkeeping
    <3>2. QED
      BY <1>1, <2>2, <3>1 DEF StepsFollow, At
  <2>3. QED
    BY <2>1, <2>2
<1>6. NativeAsMade'
  <2>1. native.by = "create" => stale' = stale
    BY <1>1 DEF BytesInv, Bookkeeping, TypeOK
  <2>2. Elements' = Elements
    BY <1>1, <1>2 DEF Elements, At
  <2>3. QED
    BY <1>1, <2>1, <2>2 DEF BytesInv, NativeAsMade
<1>7. CountAgrees'
  BY <1>1, <1>2 DEF CountAgrees, At
<1>8. CrashesHaveCauses'
  BY <1>1 DEF CrashesHaveCauses, Alive, Crashes
<1>9. QED
  BY <1>3, <1>4, <1>5, <1>6, <1>7, <1>8 DEF BytesInv

LEMMA CreateDimBytes == ASSUME BytesInv, createDim PROVE BytesInv'
<1>1. PICK d \in Dims :
        /\ visited < Len(shape) => d = shape[visited + 1]
        /\ \/ /\ d < 0
              /\ status' = "check_failed"
              /\ UNCHANGED << visited, product, steps >>
           \/ /\ d >= 0
              /\ visited' = visited + 1
              /\ product' = product * d
              /\ steps' = Append(steps, product * d)
              /\ UNCHANGED status
  BY DEF createDim
<1>2. /\ UNCHANGED << dtype, scalar, shape, isBacked, native, op, count, given,
                      stale >>
      /\ op = "create" /\ visited < shapeCount /\ Alive /\ ~isBacked
      /\ shapeCount' = shapeCount /\ BadShape' = BadShape
  BY DEF createDim, fields, BytesInv, Bookkeeping, shapeCount, BadShape
<1>3. /\ d \in Int /\ visited \in Nat /\ shapeCount \in Nat
      /\ Len(shape) \in Nat /\ product \in Int
      /\ Len(steps) \in Nat /\ \A i \in 1..Len(steps) : steps[i] \in Nat
  BY DimsAreInts, LoopTypes DEF BytesInv
<1>4. NativeAsMade' /\ CountAgrees'
  BY <1>2 DEF BytesInv, NativeAsMade, CountAgrees, Bookkeeping
<1>5. CASE d < 0
  <2>1. status' = "check_failed" /\ UNCHANGED << visited, product, steps >>
    BY <1>1, <1>3, <1>5
  <2>2. TypeOK'
    BY <1>2, <2>1 DEF BytesInv, TypeOK, Crashes
  <2>3. Bookkeeping' /\ StepsFollow'
    BY <1>2, <2>1 DEF BytesInv, Bookkeeping, StepsFollow, At
  <2>4. BadShape \/ (scalar /\ shape # << >> /\ shape[1] = -1)
    <3>1. CASE visited < Len(shape)
      <4>1. visited + 1 \in 1..Len(shape) /\ shape[visited + 1] = d
        BY <1>1, <1>3, <3>1
      <4>2. CASE scalar /\ visited = 0 /\ d = -1
        <5>1. shape[1] = -1 /\ Len(shape) # 0
          BY <4>1, <4>2, <3>1
        <5>2. QED
          BY <4>2, <5>1
      <4>3. CASE ~(scalar /\ visited = 0 /\ d = -1)
        <5>1. d < IF scalar /\ visited + 1 = 1 THEN -1 ELSE 0
          BY <1>3, <1>5, <4>3
        <5>2. QED
          BY <4>1, <5>1 DEF BadShape
      <4>4. QED
        BY <4>2, <4>3
    <3>2. CASE ~(visited < Len(shape))
      <4>1. scalar /\ Len(shape) = 0
        BY <1>2, <1>3, <3>2 DEF shapeCount
      <4>2. shape = << >>
        BY <4>1 DEF BytesInv, TypeOK
      <4>3. QED
        BY <4>1, <4>2 DEF BadShape
    <3>3. QED
      BY <3>1, <3>2
  <2>5. CrashesHaveCauses'
    BY <1>2, <2>4 DEF CrashesHaveCauses, OpenBatch
  <2>6. QED
    BY <1>4, <2>2, <2>3, <2>5 DEF BytesInv
<1>6. CASE d >= 0
  <2>1. /\ visited' = visited + 1 /\ product' = product * d
        /\ steps' = Append(steps, product * d)
        /\ UNCHANGED status
    BY <1>1, <1>3, <1>6
  <2>2. product' \in Int
    BY <1>3, <2>1
  <2>3. product \in Nat /\ d \in Nat
    BY <1>2, <1>3, <1>6 DEF BytesInv, Bookkeeping
  <2>4. product * d \in Nat
    BY <2>3
  <2>5. steps \in Seq(Nat) /\ steps' \in Seq(Nat)
    BY <2>1, <2>4 DEF BytesInv, TypeOK
  <2>6. TypeOK'
    <3>1. visited + 1 \in 0..shapeCount
      BY <1>2, <1>3
    <3>2. QED
      BY <1>2, <2>1, <2>2, <2>5, <3>1 DEF BytesInv, TypeOK
  <2>7. Bookkeeping'
    BY <1>2, <2>1, <2>4 DEF BytesInv, Bookkeeping
  <2>8. StepsFollow'
    <3>1. SUFFICES ASSUME ~stale
                   PROVE  /\ Len(steps') = visited'
                          /\ product' = At(visited)'
                          /\ \A i \in 1..Len(steps') :
                                i <= Len(shape) =>
                                   steps'[i] = At(i - 1)' * shape[i]
      BY <1>2 DEF StepsFollow
    <3>2. /\ Len(steps) = visited /\ product = At(visited)
          /\ \A i \in 1..Len(steps) :
                i <= Len(shape) => steps[i] = At(i - 1) * shape[i]
      BY <1>2, <3>1 DEF BytesInv, StepsFollow
    <3>3. /\ Len(steps') = visited + 1 /\ steps'[visited + 1] = product * d
          /\ \A i \in 1..visited : steps'[i] = steps[i]
      BY <2>1, <2>4, <2>5, <3>2
    <3>4. product' = At(visited)'
      BY <1>3, <2>1, <3>3 DEF At
    <3>5. ASSUME NEW i \in 1..(visited + 1), i <= Len(shape)
          PROVE  steps'[i] = At(i - 1)' * shape[i]
      <4>1. At(i - 1)' = At(i - 1)
        BY <1>3, <3>3 DEF At
      <4>2. CASE i = visited + 1
        <5>1. shape[i] = d /\ i - 1 = visited
          BY <1>1, <1>3, <3>5, <4>2
        <5>2. QED
          BY <3>2, <3>3, <4>1, <4>2, <5>1
      <4>3. CASE i # visited + 1
        <5>1. i \in 1..visited
          BY <1>3, <4>3
        <5>2. QED
          BY <3>2, <3>3, <3>5, <4>1, <5>1
      <4>4. QED
        BY <4>2, <4>3
    <3>6. QED
      BY <2>1, <3>3, <3>4, <3>5
  <2>9. CrashesHaveCauses'
    BY <1>2, <2>1 DEF CrashesHaveCauses, Alive, Crashes
  <2>10. QED
    BY <1>4, <2>6, <2>7, <2>8, <2>9 DEF BytesInv
<1>7. QED
  BY <1>3, <1>5, <1>6

LEMMA CreateBytes == ASSUME BytesInv, create PROVE BytesInv'
<1>1. /\ UNCHANGED << dtype, scalar, shape, status, given, steps, stale >>
      /\ native' = created /\ isBacked' = TRUE
      /\ op' = "write" /\ visited' = 0 /\ product' = 1 /\ count' = 1
      /\ op = "create" /\ visited = shapeCount /\ Alive /\ ~isBacked
      /\ product \in Nat
  BY DEF create, Loop, fields, BytesInv, Bookkeeping
<1>2. /\ Half \in Nat /\ Half > 1 /\ Len(shape) \in Nat
      /\ shapeCount \in Nat /\ shapeCount' = shapeCount
      /\ dtype \in DataTypes /\ MaxBytes \in Nat
  BY <1>1, LoopTypes DEF BytesInv, shapeCount
<1>3. sizeof(c(dtype)) \in Nat /\ c(dtype) \in {0, 1, 3, 4, 7, 9}
  BY <1>2, SizesAgree
<1>4. product * sizeof(c(dtype)) \in Nat
  BY <1>1, <1>3
<1>5. created \in [by : {"nobody", "create", "model"},
                   type : {0, 1, 3, 4, 7, 9}, bytes : Nat]
  BY <1>3, <1>4 DEF created
<1>6. TypeOK'
  <2>1. 0 \in 0..Len(shape) /\ 1 \in -Half..(Half - 1)
    BY <1>2
  <2>2. QED
    BY <1>1, <1>2, <1>5, <2>1 DEF BytesInv, TypeOK
<1>7. Bookkeeping'
  BY <1>1 DEF Bookkeeping, created
<1>8. StepsFollow'
  BY <1>1, <1>2 DEF BytesInv, StepsFollow, At
<1>9. NativeAsMade'
  <2>1. ~stale => product = Elements /\ Elements' = Elements
    BY <1>1, <1>2 DEF BytesInv, StepsFollow, Elements, At
  <2>2. QED
    BY <1>1, <2>1 DEF NativeAsMade, created
<1>10. CountAgrees'
  BY <1>1, <1>2 DEF CountAgrees, At
<1>11. CrashesHaveCauses'
  BY <1>1 DEF CrashesHaveCauses, Alive, Crashes
<1>12. QED
  BY <1>6, <1>7, <1>8, <1>9, <1>10, <1>11 DEF BytesInv

LEMMA CountDimBytes == ASSUME BytesInv, countDim PROVE BytesInv'
<1> DEFINE d == shape[visited + 1]
<1>1. /\ UNCHANGED << dtype, scalar, shape, isBacked, native, status, op, given,
                      steps, stale >>
      /\ op \in {"write", "read"} /\ visited < Len(shape) /\ Alive
      /\ visited' = visited + 1
      /\ count' = toInt(count * d) /\ product' = product * d
      /\ shapeCount' = shapeCount /\ BadShape' = BadShape /\ NonNeg' = NonNeg
  BY DEF countDim, fields, shapeCount, BadShape, NonNeg
<1>2. /\ Half \in Nat /\ Half > 1 /\ Len(shape) \in Nat
      /\ shapeCount \in Nat /\ visited \in Nat
      /\ visited + 1 \in 1..Len(shape) /\ d \in Int
      /\ count \in Int /\ product \in Int
  BY <1>1, LoopTypes DEF BytesInv
<1>3. count * d \in Int /\ product * d \in Int
  BY <1>2
<1>4. count' \in -Half..(Half - 1)
  BY <1>1, <1>3, ToIntRange
<1>5. TypeOK'
  <2>1. visited + 1 \in 0..Len(shape)
    BY <1>2
  <2>2. QED
    BY <1>1, <1>3, <1>4, <2>1 DEF BytesInv, TypeOK
<1>6. Bookkeeping' /\ StepsFollow' /\ NativeAsMade'
  BY <1>1 DEF BytesInv, Bookkeeping, StepsFollow, NativeAsMade, Elements, At
<1>7. CountAgrees'
  <2>1. SUFFICES ASSUME ~stale, ~BadShape
                 PROVE  /\ NonNeg => /\ product' \in Nat
                                     /\ product' < Half => count' = product'
                        /\ ~NonNeg => count' = -1
                        /\ isBacked =>
                              product' = At(IF visited + 1 <= shapeCount
                                            THEN visited + 1 ELSE shapeCount)
    BY <1>1, <1>2 DEF CountAgrees, At
  <2>2. /\ visited = 0 => product = 1 /\ count = 1
        /\ NonNeg => product \in Nat /\ (product < Half => count = product)
        /\ ~NonNeg /\ visited > 0 => count = -1
        /\ isBacked => product = At(IF visited <= shapeCount THEN visited
                                    ELSE shapeCount)
    BY <1>1, <2>1 DEF BytesInv, CountAgrees
  <2>3. ASSUME NonNeg
        PROVE  product' \in Nat /\ (product' < Half => count' = product')
    <3>1. d \in Nat
      BY <1>2, <2>3 DEF NonNeg
    <3>2. CASE d = 0
      <4>1. count * d = 0 /\ product * d = 0
        BY <1>2, <3>2
      <4>2. toInt(0) = 0
        BY <1>2, ToIntFits
      <4>3. QED
        BY <1>1, <4>1, <4>2
    <3>3. CASE d >= 1
      <4>1. product * d \in Nat /\ product <= product * d
        BY <2>2, <2>3, <3>1, <3>3, ProductGrows
      <4>2. ASSUME product' < Half PROVE count' = product'
        <5>1. count = product
          BY <1>1, <1>2, <2>2, <2>3, <4>1, <4>2
        <5>2. product * d \in -Half..(Half - 1)
          BY <1>1, <1>2, <4>1, <4>2
        <5>3. QED
          BY <1>1, <5>1, <5>2, ToIntFits
      <4>3. QED
        BY <1>1, <4>1, <4>2
    <3>4. QED
      BY <3>1, <3>2, <3>3
  <2>4. ASSUME ~NonNeg PROVE count' = -1
    <3>1. scalar /\ shape[1] = -1 /\ \A i \in 2..Len(shape) : shape[i] = 1
      BY <2>1, <2>4, <1>2, LoopTypes DEF NonNeg, BadShape, BytesInv
    <3>2. count * d = -1
      <4>1. CASE visited = 0
        BY <2>2, <3>1, <4>1
      <4>2. CASE visited > 0
        BY <1>2, <2>2, <2>4, <3>1, <4>2
      <4>3. QED
        BY <1>2, <4>1, <4>2
    <3>3. -1 \in -Half..(Half - 1)
      BY <1>2
    <3>4. QED
      BY <1>1, <3>2, <3>3, ToIntFits
  <2>5. ASSUME isBacked
        PROVE  product' = At(IF visited + 1 <= shapeCount THEN visited + 1
                             ELSE shapeCount)
    <3>1. /\ Len(steps) = shapeCount
          /\ \A i \in 1..Len(steps) :
                i <= Len(shape) => steps[i] = At(i - 1) * shape[i]
      BY <2>1, <2>5 DEF BytesInv, StepsFollow
    <3>2. CASE visited + 1 <= shapeCount
      <4>1. product = At(visited)
        BY <1>2, <2>2, <2>5, <3>2
      <4>2. steps[visited + 1] = At(visited) * d
        <5>1. visited + 1 \in 1..Len(steps) /\ (visited + 1) - 1 = visited
          BY <1>2, <3>1, <3>2
        <5>2. QED
          BY <1>2, <3>1, <5>1
      <4>3. At(visited + 1) = steps[visited + 1]
        BY <1>2 DEF At
      <4>4. QED
        BY <1>1, <3>2, <4>1, <4>2, <4>3
    <3>3. CASE ~(visited + 1 <= shapeCount)
      <4>1. scalar /\ shapeCount = 1 /\ visited >= 1
        BY <1>2, <3>3 DEF shapeCount
      <4>2. d = 1
        BY <1>2, <2>1, <4>1 DEF BadShape
      <4>3. product = At(shapeCount)
        <5>1. CASE visited = 1
          BY <2>2, <2>5, <4>1, <5>1
        <5>2. CASE visited > 1
          BY <1>2, <2>2, <2>5, <4>1, <5>2
        <5>3. QED
          BY <1>2, <4>1, <5>1, <5>2
      <4>4. QED
        BY <1>1, <1>2, <3>3, <4>2, <4>3
    <3>4. QED
      BY <3>2, <3>3
  <2>6. QED
    BY <2>3, <2>4, <2>5
<1>8. CrashesHaveCauses'
  BY <1>1 DEF CrashesHaveCauses, Alive, Crashes
<1>9. QED
  BY <1>5, <1>6, <1>7, <1>8 DEF BytesInv

-----------------------------------------------------------------------------
(***************************************************************************)
(* What size() is when the loop of count() is over, for a shape without    *)
(* mistakes in an array that nobody has written to.                        *)
(***************************************************************************)
LEMMA SizeWhenCounted ==
    ASSUME BytesInv, op \in {"write", "read"}, visited = Len(shape),
           ~stale, ~BadShape, dtype # "STRING"
    PROVE  /\ size \in Int /\ Declared \in Int
           /\ NonNeg => product \in Nat
           /\ NonNeg /\ product < Half => size = Declared /\ size >= 0
           /\ NonNeg /\ product >= Half => size < Declared
           /\ ~NonNeg => /\ size < 0
                         /\ scalar /\ shape # << >> /\ shape[1] = -1
<1>1. /\ Half \in Nat /\ Half > 1 /\ Len(shape) \in Nat /\ visited \in Nat
      /\ count \in Int /\ product \in Int /\ dtype \in DataTypes
      /\ count \in -Half..(Half - 1)
      /\ \A i \in 1..Len(shape) : shape[i] \in Int
  BY LoopTypes DEF BytesInv, TypeOK
<1>2. byteSize(dtype) \in {1, 4, 8}
  BY <1>1, SizesAgree
<1>3. count < Half
  BY <1>1
<1>4. /\ NonNeg => product \in Nat /\ (product < Half => count = product)
      /\ ~NonNeg /\ visited > 0 => count = -1
  BY DEF BytesInv, CountAgrees
<1>5. size \in Int /\ Declared \in Int
  BY <1>1, <1>2 DEF size, Declared
<1>6. NonNeg /\ product < Half => size = Declared /\ size >= 0
  BY <1>1, <1>2, <1>4 DEF size, Declared
<1>7. NonNeg /\ product >= Half => size < Declared
  BY <1>1, <1>2, <1>3 DEF size, Declared
<1>8. ASSUME ~NonNeg
      PROVE  size < 0 /\ scalar /\ shape # << >> /\ shape[1] = -1
  <2>1. PICK i \in 1..Len(shape) : shape[i] < 0
    BY <1>1, <1>8 DEF NonNeg
  <2>2. scalar /\ shape[1] = -1 /\ Len(shape) # 0
    BY <1>1, <2>1 DEF BadShape
  <2>3. shape # << >>
    BY <2>2
  <2>4. count = -1
    BY <1>1, <1>4, <1>8, <2>2
  <2>5. QED
    BY <1>2, <2>2, <2>3, <2>4 DEF size
<1>9. QED
  BY <1>4, <1>5, <1>6, <1>7, <1>8

(* The native tensor that create made for such a shape. *)
LEMMA BytesWhenCounted ==
    ASSUME BytesInv, op \in {"write", "read"}, visited = Len(shape),
           ~stale, ~BadShape, dtype # "STRING", native.by = "create"
    PROVE  /\ NonNeg /\ native.type = c(dtype)
           /\ Declared <= MaxBytes => native.bytes = Declared
<1>1. isBacked /\ native.type = c(dtype)
  BY DEF BytesInv, Bookkeeping, NativeAsMade
<1>2. /\ Len(shape) \in Nat /\ shapeCount \in Nat /\ dtype \in DataTypes
      /\ \A i \in 1..Len(shape) : shape[i] \in Int
      /\ \A i \in 1..Len(steps) : steps[i] \in Nat
      /\ MaxBytes \in Nat
  BY LoopTypes DEF BytesInv
<1>3. /\ Len(steps) = shapeCount
      /\ \A i \in 1..Len(steps) :
            i <= Len(shape) => steps[i] = At(i - 1) * shape[i]
  BY <1>1 DEF BytesInv, StepsFollow
<1>4. product = Elements
  <2>1. product = At(IF visited <= shapeCount THEN visited ELSE shapeCount)
    BY <1>1 DEF BytesInv, CountAgrees
  <2>2. shapeCount <= visited
    <3>1. scalar => Len(shape) # 0
      BY DEF BadShape, BytesInv, TypeOK
    <3>2. QED
      BY <1>2, <3>1 DEF shapeCount, BytesInv, TypeOK
  <2>3. QED
    BY <1>2, <2>1, <2>2 DEF Elements
<1>5. NonNeg
  <2>1. SUFFICES ASSUME ~NonNeg PROVE FALSE
    OBVIOUS
  <2>2. scalar /\ shape # << >> /\ shape[1] = -1
    BY <2>1, SizeWhenCounted
  <2>3. Len(shape) # 0
    BY <2>2 DEF BytesInv, TypeOK
  <2>4. 1 \in 1..Len(steps) /\ 1 <= Len(shape)
    BY <1>2, <1>3, <2>2, <2>3 DEF shapeCount
  <2>5. steps[1] = At(0) * shape[1]
    BY <1>3, <2>4
  <2>6. steps[1] = -1
    BY <2>2, <2>5 DEF At
  <2>7. QED
    BY <1>2, <2>4, <2>6
<1>6. Declared = Elements * sizeof(c(dtype))
  BY <1>2, <1>4, SizesAgree DEF Declared
<1>7. QED
  BY <1>1, <1>5, <1>6 DEF BytesInv, NativeAsMade

(* Whoever made the tensor: a size that it does not have has a cause. *)
LEMMA WrongSizeHasCause ==
    ASSUME BytesInv, op \in {"write", "read"}, visited = Len(shape),
           ~stale, ~BadShape, dtype # "STRING", isBacked \/ native # NoTensor,
           \/ native.type # c(dtype) \/ size < 0 \/ size > native.bytes
    PROVE  Misdeclared \/ NoRoom \/ OpenBatch \/ Wrapped
<1>1. /\ size \in Int /\ Declared \in Int
      /\ NonNeg => product \in Nat
      /\ NonNeg /\ product < Half => size = Declared /\ size >= 0
      /\ NonNeg /\ product >= Half => size < Declared
      /\ ~NonNeg => /\ size < 0
                    /\ scalar /\ shape # << >> /\ shape[1] = -1
  BY SizeWhenCounted
<1>2. Half \in Nat /\ MaxBytes \in Nat
  BY BytesAssumption
<1>3. native.by \in {"create", "model"} /\ native.bytes \in Nat
  BY DEF BytesInv, TypeOK, Bookkeeping
<1>4. CASE ~NonNeg
  BY <1>1, <1>4 DEF OpenBatch
<1>5. CASE NonNeg /\ size < 0
  <2>1. product >= Half
    BY <1>1, <1>2, <1>5
  <2>2. QED
    BY <1>5, <2>1 DEF Wrapped
<1>6. CASE NonNeg /\ ~(size < 0) /\ native.by = "model"
  BY <1>1, <1>3, <1>6 DEF Misdeclared
<1>7. CASE NonNeg /\ ~(size < 0) /\ native.by = "create"
  <2>1. native.type = c(dtype) /\ (Declared <= MaxBytes => native.bytes = Declared)
    BY <1>7, BytesWhenCounted
  <2>2. size <= Declared /\ size > native.bytes
    BY <1>1, <1>2, <1>7, <2>1
  <2>3. Declared > MaxBytes
    BY <1>1, <1>2, <1>3, <2>1, <2>2
  <2>4. QED
    BY <1>7, <2>3 DEF NoRoom
<1>8. QED
  BY <1>3, <1>4, <1>5, <1>6, <1>7

(* The call returns, or the process ends inside it for one of the causes. *)
LEMMA LeaveBytes ==
    ASSUME BytesInv, NEW outcome \in {"running", "threw"} \cup Crashes,
           Leave(outcome),
           UNCHANGED << fields, shape, isBacked, native, steps, stale >>,
           op \in {"write", "read"},
           outcome \in Crashes =>
               \/ BadShape \/ stale \/ Misdeclared \/ NoRoom
               \/ OpenBatch \/ Wrapped
               \/ outcome = "overread" /\ given < size
               \/ dtype = "STRING" /\ outcome \in {"segv", "jni_abort"}
    PROVE  BytesInv'
<1>1. UNCHANGED << dtype, scalar, shape, isBacked, native, steps, stale >>
  BY DEF fields
<1>2. /\ Half \in Nat /\ Half > 1 /\ Len(shape) \in Nat
      /\ shapeCount' = shapeCount
  BY <1>1, LoopTypes DEF BytesInv, shapeCount
<1>3. CASE outcome \in Crashes
  <2>1. UNCHANGED << op, visited, product, count, given >> /\ status' = outcome
    BY <1>3 DEF Leave, call
  <2>2. TypeOK' /\ Bookkeeping' /\ StepsFollow' /\ NativeAsMade' /\ CountAgrees'
    BY <1>1, <1>2, <2>1 DEF BytesInv, TypeOK, Bookkeeping, StepsFollow,
          NativeAsMade, CountAgrees, Elements, At, BadShape, NonNeg
  <2>3. /\ BadShape' = BadShape /\ Misdeclared' = Misdeclared
        /\ NoRoom' = NoRoom /\ OpenBatch' = OpenBatch /\ Wrapped' = Wrapped
        /\ size' = size
    BY <1>1, <2>1 DEF BadShape, Misdeclared, NoRoom, OpenBatch, Wrapped, size,
                      Declared
  <2>4. CrashesHaveCauses'
    BY <1>1, <1>3, <2>1, <2>3 DEF CrashesHaveCauses, ShortBuffer, IllegalType
  <2>5. QED
    BY <2>2, <2>4 DEF BytesInv
<1>4. CASE outcome \notin Crashes
  <2>1. /\ op' = "idle" /\ visited' = 0 /\ product' = 1 /\ count' = 1
        /\ given' = 0 /\ status' = outcome
    BY <1>4 DEF Leave, Loop
  <2>2. TypeOK'
    <3>1. 0 \in 0..Len(shape) /\ 1 \in -Half..(Half - 1) /\ 0 \in Nat
      BY <1>2
    <3>2. QED
      BY <1>1, <1>2, <2>1, <3>1 DEF BytesInv, TypeOK
  <2>3. Bookkeeping' /\ StepsFollow' /\ NativeAsMade' /\ CountAgrees'
    BY <1>1, <1>2, <2>1 DEF BytesInv, Bookkeeping, StepsFollow, NativeAsMade,
          CountAgrees, Elements, At
  <2>4. CrashesHaveCauses'
    BY <1>4, <2>1 DEF CrashesHaveCauses
  <2>5. QED
    BY <2>2, <2>3, <2>4 DEF BytesInv
<1>5. QED
  BY <1>3, <1>4

LEMMA WriteBytesBytes == ASSUME BytesInv, writeBytes PROVE BytesInv'
<1> DEFINE outcome == Copied(native, given)
<1>1. /\ Leave(outcome)
      /\ UNCHANGED << fields, shape, isBacked, native, steps, stale >>
      /\ op = "write" /\ visited = Len(shape) /\ isBacked
  BY DEF writeBytes, Counted, BytesInv, Bookkeeping
<1>2. outcome \in {"running", "threw"} \cup Crashes
  BY DEF Copied, Crashes
<1>3. dtype \in DataTypes /\ given \in Nat
  BY DEF BytesInv, TypeOK
<1>4. ASSUME outcome \in Crashes, ~BadShape, ~stale
      PROVE  \/ Misdeclared \/ NoRoom \/ OpenBatch \/ Wrapped
             \/ outcome = "overread" /\ given < size
             \/ dtype = "STRING" /\ outcome \in {"segv", "jni_abort"}
  <2>1. CASE dtype = "STRING"
    BY <1>3, <1>4, <2>1, SizesAgree DEF Copied, Crashes
  <2>2. CASE dtype # "STRING"
    <3>1. size \in Int /\ c(dtype) \in Legal
      BY <1>1, <1>3, <1>4, <2>2, SizeWhenCounted, SizesAgree
    <3>2. \/ native.type # c(dtype) \/ size < 0 \/ size > native.bytes
          \/ outcome = "overread" /\ size > given
      BY <1>4, <3>1 DEF Copied, Crashes
    <3>3. QED
      BY <1>1, <1>3, <1>4, <2>2, <3>1, <3>2, WrongSizeHasCause
  <2>3. QED
    BY <2>1, <2>2
<1>5. QED
  <2> HIDE DEF outcome
  <2> QED
    BY <1>1, <1>2, <1>4, LeaveBytes

LEMMA ReadBytesBytes == ASSUME BytesInv, readBytes PROVE BytesInv'
<1>1. /\ Leave(Viewed)
      /\ UNCHANGED << fields, shape, isBacked, native, steps, stale >>
      /\ op = "read" /\ visited = Len(shape) /\ native # NoTensor
  BY DEF readBytes, Counted, BytesInv, Bookkeeping
<1>2. Viewed \in {"running", "threw"} \cup Crashes
  BY DEF Viewed, Crashes
<1>3. dtype \in DataTypes /\ native.bytes \in Nat /\ Half \in Nat
  BY BytesAssumption DEF BytesInv, TypeOK
<1>4. ASSUME Viewed \in Crashes, ~BadShape, ~stale
      PROVE  \/ Misdeclared \/ NoRoom \/ OpenBatch \/ Wrapped
             \/ dtype = "STRING" /\ Viewed \in {"segv", "jni_abort"}
  <2>1. CASE dtype = "STRING"
    BY <1>3, <1>4, <2>1, SizesAgree DEF Viewed, Crashes
  <2>2. CASE dtype # "STRING"
    <3>1. size \in Int /\ c(dtype) \in Legal
      BY <1>1, <1>3, <1>4, <2>2, SizeWhenCounted, SizesAgree
    <3>2. CASE size >= Half
      BY <1>1, <3>2 DEF NoRoom
    <3>3. CASE ~(size >= Half)
      <4>1. native.type # c(dtype) \/ size < 0 \/ size > native.bytes
        BY <1>3, <1>4, <3>1, <3>3 DEF Viewed, Crashes
      <4>2. QED
        BY <1>1, <1>4, <2>2, <4>1, WrongSizeHasCause
    <3>4. QED
      BY <3>2, <3>3
  <2>3. QED
    BY <2>1, <2>2
<1>5. QED
  BY <1>1, <1>2, <1>4, LeaveBytes

LEMMA OutputBytes ==
    ASSUME BytesInv, NEW type \in DataTypes, NEW n \in OutputSizes,
           Output(type, n)
    PROVE  BytesInv'
<1>1. /\ UNCHANGED << dtype, scalar, shape, isBacked, status, op, visited,
                      product, count, given, steps, stale >>
      /\ native' = [by |-> "model", type |-> c(type),
                    bytes |-> n * sizeof(c(type))]
      /\ Alive /\ op = "idle"
  BY DEF Output, Ready, fields, call
<1>2. n \in Nat /\ sizeof(c(type)) \in Nat /\ c(type) \in {0, 1, 3, 4, 7, 9}
  BY BytesAssumption, SizesAgree
<1>3. n * sizeof(c(type)) \in Nat
  BY <1>2
<1>4. TypeOK'
  BY <1>1, <1>2, <1>3 DEF BytesInv, TypeOK, shapeCount
<1>5. Bookkeeping' /\ StepsFollow' /\ NativeAsMade' /\ CountAgrees'
  BY <1>1 DEF BytesInv, Bookkeeping, StepsFollow, NativeAsMade, CountAgrees,
              shapeCount, At
<1>6. CrashesHaveCauses'
  BY <1>1 DEF CrashesHaveCauses, Alive, Crashes
<1>7. QED
  BY <1>4, <1>5, <1>6 DEF BytesInv

LEMMA BytesInvariant == Spec => []BytesInv
<1>1. Init => BytesInv
  BY InitBytes
<1>2. BytesInv /\ [Next]_vars => BytesInv'
  <2> SUFFICES ASSUME BytesInv, [Next]_vars PROVE BytesInv'
    OBVIOUS
  <2>1. ASSUME NEW capacity \in Capacities, setBytes(capacity)
        PROVE  BytesInv'
    <3>1. given' \in Nat /\ Enter(IF isBacked THEN "write" ELSE "create")
      BY <2>1, BytesAssumption DEF setBytes
    <3>2. CASE isBacked
      BY <3>1, <3>2, EnterBytes
    <3>3. CASE ~isBacked
      BY <3>1, <3>3, EnterBytes
    <3>4. QED
      BY <3>2, <3>3
  <2>2. CASE getBytes
    <3>1. native # NoTensor /\ Enter("read") /\ given' \in Nat
      BY <2>2 DEF getBytes, BytesInv, TypeOK
    <3>2. QED
      BY <3>1, EnterBytes
  <2>3. CASE UNCHANGED vars
    BY <2>3 DEF vars, BytesInv, TypeOK, Bookkeeping, StepsFollow, NativeAsMade,
        CountAgrees, CrashesHaveCauses, shapeCount, Elements, At, NonNeg,
        BadShape, ShortBuffer, Misdeclared, NoRoom, IllegalType, OpenBatch,
        Wrapped, Declared, size
  <2>4. CASE Next
    BY <2>1, <2>2, <2>4, ReshapeBytes, CreateDimBytes, CreateBytes,
       CountDimBytes, WriteBytesBytes, ReadBytesBytes, OutputBytes DEF Next
  <2>5. QED
    BY <2>3, <2>4
<1>3. QED
  BY <1>1, <1>2, PTL DEF Spec

(***************************************************************************)
(* The sizes of a tensor are well typed: count() stays an int whatever the *)
(* shape, and no native tensor has a negative number of bytes, since       *)
(* TensorShape rejects a negative dimension before create allocates.       *)
(***************************************************************************)
THEOREM BytesTypeCorrect == Spec => []TypeOK
<1>1. BytesInv => TypeOK
  BY DEF BytesInv
<1>2. QED
  BY <1>1, BytesInvariant, PTL

(***************************************************************************)
(* writeBytes and readBytes stay within the native tensor and the client's *)
(* ByteBuffer and pass the checks they meet, whatever the shape, the data  *)
(* type and the outputs of models are and whenever the client writes to    *)
(* the array of the shape, but for the causes CrashesHaveCauses lists.     *)
(***************************************************************************)
THEOREM CrashCauses == Spec => []CrashesHaveCauses
<1>1. BytesInv => CrashesHaveCauses
  BY DEF BytesInv
<1>2. QED
  BY <1>1, BytesInvariant, PTL

(***************************************************************************)
(* The two loops agree: what setBytes copies is exactly the native tensor  *)
(* that create made, for every shape whose elements an int can count, and  *)
(* less than it for every other.                                           *)
(***************************************************************************)
THEOREM CopiesAreWholeOrShort == Spec => []CopiesFollowCount
<1>1. BytesInv => CopiesFollowCount
  <2>1. SUFFICES ASSUME BytesInv, Counted("write"), native.by = "create",
                        ~stale, ~BadShape, dtype # "STRING",
                        Declared <= MaxBytes
                 PROVE  IF product < Half THEN size = native.bytes
                        ELSE size < native.bytes
    BY DEF CopiesFollowCount
  <2>2. op = "write" /\ visited = Len(shape)
    BY <2>1 DEF Counted
  <2>3. NonNeg /\ native.bytes = Declared
    BY <2>1, <2>2, BytesWhenCounted
  <2>4. /\ product \in Nat
        /\ product < Half => size = Declared
        /\ product >= Half => size < Declared
    BY <2>1, <2>2, <2>3, SizeWhenCounted
  <2>5. QED
    BY <2>3, <2>4, BytesAssumption
<1>2. QED
  BY <1>1, BytesInvariant, PTL
=============================================================================
