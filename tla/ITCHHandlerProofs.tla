-------------------------- MODULE ITCHHandlerProofs --------------------------
(***************************************************************************)
(* For every wire, every cut into buffers and every application: the types  *)
(* of ITCHHandler, that nothing is held back, that it implements            *)
(* MessageStream, and that every member comes from its place in a message.  *)
(***************************************************************************)
EXTENDS ITCHHandler, SequenceTheorems, TLAPS

\* Where the frame begins that the handler is in while it is in step.
Start == Offsets[position + 1]

\* The cache is what lies between that place and the index: bytes of the size as long as
\* the size is not known, then bytes of the message.
InPlace ==
    IF size = 0
    THEN /\ Start <= index
         /\ cache = SubSeq(Wire, Start + 1, index)
    ELSE /\ position + 1 \in Frames
         /\ size = FrameSize(position + 1)
         /\ Start + 2 <= index
         /\ cache = SubSeq(Wire, Start + 3, index)

\* Between calls the buffer is used up and no message is complete.
Idle == index = received /\ (inStep => ~CacheIsComplete)

IInv ==
    /\ TypeOK
    /\ inStep => InPlace
    /\ ~calling => Idle

-----------------------------------------------------------------------------

LEMMA NumberType == \A a, b \in Byte : 256 * a + b \in Nat
BY DEF Byte

LEMMA BigEndianType ==
    ASSUME NEW bytes \in Seq(Byte), Len(bytes) >= 2
    PROVE  BigEndian(bytes) \in Nat
<1>1. bytes[1] \in Byte /\ bytes[2] \in Byte
  BY ElementOfSeq
<1>2. 256 * bytes[1] + bytes[2] \in Nat
  BY <1>1, NumberType
<1>. QED
  BY <1>2 DEF BigEndian

LEMMA PairType ==
    ASSUME NEW i \in Nat, i + 2 <= Len(Wire)
    PROVE  /\ Wire[i + 1] \in Byte /\ Wire[i + 2] \in Byte
           /\ BigEndian(<<Wire[i + 1], Wire[i + 2]>>) \in Nat
<1>1. Wire[i + 1] \in Byte /\ Wire[i + 2] \in Byte
  BY WireAssumption, ElementOfSeq
<1>2. 256 * Wire[i + 1] + Wire[i + 2] \in Nat
  BY <1>1, NumberType
<1>. QED
  BY <1>1, <1>2 DEF BigEndian

\* Frames lie on the wire, one behind the other.
LEMMA FrameFacts ==
    ASSUME NEW i \in Frames
    PROVE  /\ i \in Nat /\ i + 1 \in 1 .. Len(Offsets)
           /\ Offsets[i] \in Nat /\ Offsets[i + 1] \in Nat
           /\ FrameSize(i) \in Nat
           /\ Offsets[i + 1] = Offsets[i] + 2 + FrameSize(i)
           /\ Offsets[i + 1] <= Len(Wire)
<1>0. Len(Offsets) \in Nat /\ Len(Wire) \in Nat
  BY OffsetsAssumption, WireAssumption
<1>1. /\ i \in Nat /\ i \in 1 .. Len(Offsets) /\ i + 1 \in 1 .. Len(Offsets)
      /\ Len(Offsets) - 1 \in Frames
  BY <1>0 DEF Frames
<1>2. Offsets[i] \in Nat /\ Offsets[i + 1] \in Nat
  BY <1>1, OffsetsAssumption, ElementOfSeq
<1>3. FrameSize(i) \in Nat
  <2>1. Offsets[i] + 2 <= Len(Wire)
    BY OffsetsAssumption
  <2>. QED
    BY <2>1, <1>2, PairType DEF FrameSize
<1>4. Offsets[i + 1] <= Len(Wire)
  <2>1. CASE i = Len(Offsets) - 1
    BY <2>1, <1>0, OffsetsAssumption
  <2>2. CASE i < Len(Offsets) - 1
    <3>1. Offsets[i + 1] <= Offsets[Len(Offsets) - 1]
      BY <2>2, <1>1, OffsetsAssumption
    <3>2. Offsets[Len(Offsets) - 1] + 2 <= Len(Wire)
      BY <1>1, OffsetsAssumption
    <3>3. Offsets[Len(Offsets) - 1] \in Nat
      BY <1>0, <1>1, OffsetsAssumption, ElementOfSeq, SMTT(30) DEF Frames
    <3>. QED
      BY <3>1, <3>2, <3>3, <1>0, <1>2
  <2>. QED
    BY <2>1, <2>2, <1>0 DEF Frames
<1>. QED
  BY <1>1, <1>2, <1>3, <1>4, OffsetsAssumption

LEMMA StartFacts ==
    ASSUME TypeOK
    PROVE  /\ Start \in 0 .. Len(Wire)
           /\ Start < Len(Wire) => position + 1 \in Frames
<1>0. Len(Offsets) \in Nat /\ Len(Wire) \in Nat /\ position \in 0 .. Len(Offsets) - 1
  BY OffsetsAssumption, WireAssumption DEF TypeOK
<1>1. CASE position + 1 \in Frames
  BY <1>1, FrameFacts DEF Start
<1>2. CASE position = Len(Offsets) - 1
  BY <1>2, <1>0, OffsetsAssumption DEF Start
<1>. QED
  BY <1>0, <1>1, <1>2 DEF Frames

LEMMA PieceFacts ==
    ASSUME NEW m \in 1 .. Len(Wire) + 1, NEW n \in (m - 1) .. Len(Wire)
    PROVE  /\ SubSeq(Wire, m, n) \in Seq(Byte)
           /\ Len(SubSeq(Wire, m, n)) = n - m + 1
           /\ \A i \in 1 .. n - m + 1 : SubSeq(Wire, m, n)[i] = Wire[m + i - 1]
<1>1. \A i \in m .. n : Wire[i] \in Byte
  BY WireAssumption, ElementOfSeq
<1>2. m \in Int /\ n \in Int
  BY WireAssumption
<1>3. /\ SubSeq(Wire, m, n) \in Seq(Byte)
      /\ Len(SubSeq(Wire, m, n)) = IF m <= n THEN n - m + 1 ELSE 0
      /\ \A i \in 1 .. n - m + 1 : SubSeq(Wire, m, n)[i] = Wire[m + i - 1]
  BY <1>1, <1>2, SubSeqProperties
<1>. QED
  BY <1>2, <1>3

LEMMA PiecesJoin ==
    ASSUME NEW m \in 1 .. Len(Wire) + 1, NEW k \in (m - 1) .. Len(Wire), NEW n \in k .. Len(Wire)
    PROVE  SubSeq(Wire, m, k) \o SubSeq(Wire, k + 1, n) = SubSeq(Wire, m, n)
BY WireAssumption, ConcatAdjacentSubSeq

\* What the invariant says of the length of the cache.
LEMMA CacheFacts ==
    ASSUME IInv, inStep
    PROVE  /\ Start \in 0 .. Len(Wire) /\ index \in 0 .. Len(Wire) /\ Len(Wire) \in Nat
           /\ Start < Len(Wire) => position + 1 \in Frames
           /\ size = 0 => Start <= index /\ Len(cache) = index - Start
           /\ size # 0 => /\ position + 1 \in Frames
                          /\ size = FrameSize(position + 1)
                          /\ Start + 2 <= index
                          /\ Len(cache) = index - (Start + 2)
                          /\ Offsets[position + 2] = Start + 2 + size
<1>1. /\ Start \in 0 .. Len(Wire) /\ index \in 0 .. Len(Wire) /\ Len(Wire) \in Nat
      /\ Start < Len(Wire) => position + 1 \in Frames
  BY StartFacts, WireAssumption DEF IInv, TypeOK
<1>2. ASSUME size = 0 PROVE Start <= index /\ Len(cache) = index - Start
  <2>1. Start <= index /\ cache = SubSeq(Wire, Start + 1, index)
    BY <1>2 DEF IInv, InPlace
  <2>. QED
    BY <2>1, <1>1, PieceFacts
<1>3. ASSUME size # 0
      PROVE  /\ position + 1 \in Frames
             /\ size = FrameSize(position + 1)
             /\ Start + 2 <= index
             /\ Len(cache) = index - (Start + 2)
             /\ Offsets[position + 2] = Start + 2 + size
  <2>1. /\ position + 1 \in Frames /\ size = FrameSize(position + 1)
        /\ Start + 2 <= index /\ cache = SubSeq(Wire, Start + 3, index)
    BY <1>3 DEF IInv, InPlace
  <2>2. Len(cache) = index - (Start + 3) + 1
    BY <2>1, <1>1, PieceFacts
  <2>3. Offsets[position + 2] = Start + 2 + size
    <3>1. Offsets[(position + 1) + 1] = Offsets[position + 1] + 2 + FrameSize(position + 1)
      BY <2>1, FrameFacts
    <3>2. (position + 1) + 1 = position + 2
      BY DEF IInv, TypeOK
    <3>. QED
      BY <2>1, <3>1, <3>2 DEF Start
  <2>. QED
    BY <2>1, <2>2, <2>3, <1>1
<1>. QED
  BY <1>1, <1>2, <1>3

LEMMA EmptyPiece ==
    ASSUME NEW i \in Nat
    PROVE  << >> = SubSeq(Wire, i + 1, i)
<1>1. i + 1 \in Int /\ i \in Int /\ i < i + 1
  OBVIOUS
<1>. QED
  BY <1>1, SubSeqEmpty

-----------------------------------------------------------------------------
(* Every step keeps the invariant. *)

LEMMA InitKeeps == Init => IInv
<1>. SUFFICES ASSUME Init PROVE IInv
  OBVIOUS
<1>1. Len(Offsets) \in Nat \ {0} /\ Len(Wire) \in Nat /\ Offsets[1] = 0
  BY OffsetsAssumption, WireAssumption
<1>2. Start = 0
  BY <1>1 DEF Init, Start
<1>3. TypeOK
  <2>1. cache \in Seq(Byte) /\ Len(cache) = 0
    BY EmptySeq DEF Init
  <2>2. calling \in BOOLEAN /\ inStep \in BOOLEAN
    BY DEF Init
  <2>3. /\ size = 0 /\ index \in 0 .. received /\ received \in 0 .. Len(Wire)
        /\ position \in 0 .. Len(Offsets) - 1
    BY <1>1 DEF Init
  <2>. QED
    BY <2>1, <2>2, <2>3 DEF TypeOK
<1>4. << >> = SubSeq(Wire, 0 + 1, 0)
  BY EmptyPiece
<1>. QED
  BY <1>2, <1>3, <1>4 DEF Init, IInv, InPlace, Idle, CacheIsComplete

LEMMA ProcessKeeps ==
    ASSUME IInv, NEW n \in BufferSizes, Process(n)
    PROVE  IInv'
<1>1. n \in Nat /\ Len(Wire) \in Nat
  BY BufferAssumption, WireAssumption
<1>2. index = received
  BY DEF IInv, Idle, Process
<1>3. TypeOK'
  BY <1>1, <1>2 DEF IInv, TypeOK, Process, handler, history
<1>4. InPlace => InPlace'
  BY <1>2 DEF InPlace, Start, Process, handler, history
<1>. QED
  BY <1>3, <1>4 DEF IInv, Process, handler, history

LEMMA ResetKeeps ==
    ASSUME IInv, Reset
    PROVE  IInv'
<1>1. TypeOK'
  BY EmptySeq DEF IInv, TypeOK, Reset, history
<1>. QED
  BY <1>1 DEF IInv, Idle, Reset, history

LEMMA CollectSizeKeeps ==
    ASSUME IInv, CollectSize
    PROVE  IInv'
<1>1. /\ index \in Nat /\ index + 1 \in 1 .. Len(Wire) /\ received \in 0 .. Len(Wire)
      /\ Len(Wire) \in Nat
  BY WireAssumption DEF IInv, TypeOK, CollectSize
<1>2. Wire[index + 1] \in Byte
  BY <1>1, WireAssumption, ElementOfSeq
<1>3. cache \in Seq(Byte) /\ Len(cache) <= 1
  BY EmptySeq DEF IInv, TypeOK, CollectSize, CollectsSize
<1>4. cache' \in Seq(Byte) /\ Len(cache') = Len(cache) + 1
  BY <1>2, <1>3, AppendProperties DEF CollectSize
<1>5. TypeOK'
  BY <1>1, <1>3, <1>4 DEF IInv, TypeOK, CollectSize, history
<1>6. ASSUME inStep PROVE InPlace'
  <2>1. /\ Start \in 0 .. Len(Wire) /\ Start <= index
        /\ cache = SubSeq(Wire, Start + 1, index)
    BY <1>6, CacheFacts DEF IInv, InPlace, CollectSize
  <2>2. SubSeq(Wire, Start + 1, index + 1) =
           SubSeq(Wire, Start + 1, (index + 1) - 1) \o <<Wire[index + 1]>>
    BY <2>1, <1>1, WireAssumption, SubSeqRecursiveSecond
  <2>3. cache' = cache \o <<Wire[index + 1]>>
    BY <1>2, <1>3, AppendIsConcat DEF CollectSize
  <2>4. (index + 1) - 1 = index
    BY <1>1
  <2>5. cache' = SubSeq(Wire, Start + 1, index')
    BY <2>1, <2>2, <2>3, <2>4 DEF CollectSize
  <2>6. Start' = Start /\ Start <= index'
    BY <2>1, <1>1 DEF Start, CollectSize, history
  <2>. QED
    BY <2>5, <2>6 DEF InPlace, CollectSize
<1>. QED
  BY <1>5, <1>6 DEF IInv, CollectSize, history

\* With the size known the handler is in the message behind it, or behind the frame if
\* that is empty.
LEMMA ReadSizeInPlace ==
    ASSUME IInv, ReadSize, inStep, position + 1 \in Frames, Start \in Nat,
           size' = FrameSize(position + 1), index' = Start + 2
    PROVE  InPlace' /\ position' \in 0 .. Len(Offsets) - 1
<1>1. /\ Offsets[(position + 1) + 1] = Start + 2 + FrameSize(position + 1)
      /\ position + 1 \in 0 .. Len(Offsets) - 1 /\ position \in 0 .. Len(Offsets) - 1
  BY FrameFacts DEF Start, IInv, TypeOK, Frames
<1>2. CASE size' = 0
  <2>1. position' = position + 1
    BY <1>2 DEF ReadSize, PassOver, Empty
  <2>2. Start' = index'
    BY <1>1, <1>2, <2>1 DEF Start
  <2>3. << >> = SubSeq(Wire, index' + 1, index')
    BY EmptyPiece
  <2>. QED
    BY <1>1, <1>2, <2>1, <2>2, <2>3 DEF InPlace, ReadSize
<1>3. CASE size' # 0
  <2>1. position' = position
    BY <1>3 DEF ReadSize, PassOver
  <2>2. Start' = Start
    BY <2>1 DEF Start
  <2>3. << >> = SubSeq(Wire, (Start + 2) + 1, Start + 2)
    BY EmptyPiece
  <2>4. (Start + 2) + 1 = Start + 3
    OBVIOUS
  <2>. QED
    BY <1>1, <1>3, <2>1, <2>2, <2>3, <2>4 DEF InPlace, ReadSize
<1>. QED
  BY <1>2, <1>3

LEMMA ReadSizeKeeps ==
    ASSUME IInv, ReadSize
    PROVE  IInv'
<1>1. /\ index \in Nat /\ index < received /\ received \in 0 .. Len(Wire) /\ Len(Wire) \in Nat
      /\ cache \in Seq(Byte) /\ Len(cache) \in Nat /\ Len(cache) <= 2
  BY WireAssumption, LenProperties DEF IInv, TypeOK, ReadSize
<1>2. CASE cache = << >>
  <2>1. index + 2 < received
    BY <1>1, <1>2 DEF ReadSize, CollectsSize, remaining
  <2>2. size' \in Nat /\ index' = index + 2
    BY <1>1, <1>2, <2>1, PairType DEF ReadSize
  <2>. QED
    <3>1. ASSUME inStep PROVE InPlace' /\ position' \in 0 .. Len(Offsets) - 1
      <4>1. Start = index /\ position + 1 \in Frames /\ Start \in Nat
        BY <3>1, <1>1, <1>2, EmptySeq, CacheFacts DEF ReadSize
      <4>2. size' = FrameSize(position + 1)
        BY <4>1, <1>2 DEF ReadSize, FrameSize, Start
      <4>. QED
        BY <3>1, <4>1, <4>2, <2>2, ReadSizeInPlace
    <3>2. ~inStep => position' = position
      BY DEF ReadSize, PassOver
    <3>3. TypeOK'
      BY <1>1, <2>1, <2>2, <3>1, <3>2, EmptySeq DEF IInv, TypeOK, ReadSize
    <3>. QED
      BY <3>1, <3>3 DEF IInv, ReadSize
<1>3. CASE cache # << >>
  <2>1. Len(cache) = 2
    <3>1. Len(cache) # 0
      BY <1>1, <1>3, EmptySeq
    <3>2. Len(cache) # 1
      BY DEF ReadSize, CollectsSize
    <3>3. \A n \in Nat : n <= 2 /\ n # 0 /\ n # 1 => n = 2
      OBVIOUS
    <3>. QED
      BY <3>1, <3>2, <3>3, <1>1
  <2>2. size' \in Nat /\ index' = index
    <3>1. BigEndian(cache) \in Nat
      BY <1>1, <2>1, BigEndianType
    <3>. QED
      BY <1>3, <3>1 DEF ReadSize
  <2>. QED
    <3>1. ASSUME inStep PROVE InPlace' /\ position' \in 0 .. Len(Offsets) - 1
      <4>1. Start + 2 = index /\ position + 1 \in Frames /\ Start \in Nat
        BY <3>1, <1>1, <2>1, CacheFacts DEF ReadSize
      <4>2. cache = SubSeq(Wire, Start + 1, index)
        BY <3>1 DEF IInv, InPlace, ReadSize
      <4>3. cache[1] = Wire[Start + 1] /\ cache[2] = Wire[Start + 2]
        <5>1. \A i \in 1 .. index - (Start + 1) + 1 :
                 SubSeq(Wire, Start + 1, index)[i] = Wire[(Start + 1) + i - 1]
          BY <4>1, <1>1, PieceFacts
        <5>2. /\ 1 \in 1 .. index - (Start + 1) + 1 /\ 2 \in 1 .. index - (Start + 1) + 1
              /\ (Start + 1) + 1 - 1 = Start + 1 /\ (Start + 1) + 2 - 1 = Start + 2
          BY <4>1, <1>1
        <5>. QED
          BY <4>2, <5>1, <5>2
      <4>4. size' = FrameSize(position + 1)
        BY <4>3, <1>3 DEF ReadSize, FrameSize, Start, BigEndian
      <4>. QED
        BY <3>1, <4>1, <4>4, <2>2, ReadSizeInPlace
    <3>2. ~inStep => position' = position
      BY DEF ReadSize, PassOver
    <3>3. TypeOK'
      BY <1>1, <2>2, <3>1, <3>2, EmptySeq DEF IInv, TypeOK, ReadSize
    <3>. QED
      BY <3>1, <3>3 DEF IInv, ReadSize
<1>. QED
  BY <1>2, <1>3

LEMMA GatherFacts ==
    ASSUME IInv, Gather
    PROVE  \E tail \in Nat :
              /\ tail <= remaining /\ tail <= size - Len(cache)
              /\ index' = index + tail
              /\ cache' = cache \o SubSeq(Wire, index + 1, index + tail)
<1>1. remaining \in Nat /\ size - Len(cache) \in Nat
  BY LenProperties DEF IInv, TypeOK, Gather, remaining
<1>. DEFINE tail == Lesser(size - Len(cache), remaining)
<1>2. tail \in Nat /\ tail <= remaining /\ tail <= size - Len(cache)
  BY <1>1 DEF Lesser
<1>3. index' = index + tail /\ cache' = cache \o SubSeq(Wire, index + 1, index + tail)
  BY DEF Gather
<1>. QED
  BY <1>2, <1>3

LEMMA GatherKeeps ==
    ASSUME IInv, Gather
    PROVE  IInv'
<1>1. PICK tail \in Nat :
         /\ tail <= remaining /\ tail <= size - Len(cache)
         /\ index' = index + tail
         /\ cache' = cache \o SubSeq(Wire, index + 1, index + tail)
  BY GatherFacts
<1>2. /\ index \in Nat /\ index + tail <= received /\ received \in 0 .. Len(Wire)
      /\ Len(Wire) \in Nat /\ size \in Nat /\ size # 0
      /\ cache \in Seq(Byte) /\ Len(cache) \in Nat
  BY <1>1, WireAssumption, LenProperties DEF IInv, TypeOK, Gather, remaining
<1>3. /\ SubSeq(Wire, index + 1, index + tail) \in Seq(Byte)
      /\ Len(SubSeq(Wire, index + 1, index + tail)) = tail
  <2>1. /\ index + 1 \in 1 .. Len(Wire) + 1 /\ index + tail \in (index + 1) - 1 .. Len(Wire)
        /\ (index + tail) - (index + 1) + 1 = tail
    BY <1>2
  <2>. QED
    BY <2>1, PieceFacts
<1>4. cache' \in Seq(Byte) /\ Len(cache') = Len(cache) + tail
  BY <1>1, <1>2, <1>3, ConcatProperties
<1>5. TypeOK'
  BY <1>1, <1>2, <1>4, SMTT(30) DEF IInv, TypeOK, Gather, history
<1>6. ASSUME inStep PROVE InPlace'
  <2>1. /\ Start \in 0 .. Len(Wire) /\ Start + 2 <= index
        /\ position + 1 \in Frames /\ size = FrameSize(position + 1)
        /\ cache = SubSeq(Wire, Start + 3, index)
    BY <1>6, <1>2, CacheFacts DEF IInv, InPlace
  <2>2. /\ Start + 3 \in 1 .. Len(Wire) + 1 /\ index \in (Start + 3) - 1 .. Len(Wire)
        /\ index + tail \in index .. Len(Wire)
    BY <1>2, <2>1
  <2>3. cache' = SubSeq(Wire, Start + 3, index')
    BY <1>1, <2>1, <2>2, PiecesJoin
  <2>4. Start' = Start /\ Start + 2 <= index'
    BY <1>1, <1>2, <2>1, SMTT(30) DEF Start, Gather, history
  <2>. QED
    BY <2>1, <2>3, <2>4, <1>2 DEF InPlace, Gather, history
<1>. QED
  BY <1>5, <1>6 DEF IInv, Gather, history

\* An accepted message is followed by the next frame.
LEMMA DeliverInPlace ==
    ASSUME IInv, inStep, size # 0, position + 1 \in Frames,
           NEW bytes, NEW end \in Nat, end = Start + 2 + size,
           Deliver(bytes, end), inStep'
    PROVE  InPlace' /\ position' = position + 1 /\ message' = ProcessMessage(bytes)
<1>1. /\ size' = 0 /\ cache' = << >> /\ index' = end /\ position' = position + 1
      /\ message' = ProcessMessage(bytes)
  BY DEF Deliver, Refuse
<1>2. Start' = end
  <2>1. Offsets[position + 2] = Start + 2 + size
    BY CacheFacts
  <2>2. (position + 1) + 1 = position + 2
    BY DEF IInv, TypeOK
  <2>. QED
    BY <1>1, <2>1, <2>2 DEF Start
<1>3. << >> = SubSeq(Wire, end + 1, end)
  BY EmptyPiece
<1>. QED
  BY <1>1, <1>2, <1>3 DEF InPlace

LEMMA DeliverKeeps ==
    ASSUME IInv, calling, size # 0, NEW bytes, NEW end \in 0 .. received,
           inStep => position + 1 \in Frames /\ end = Start + 2 + size,
           Deliver(bytes, end)
    PROVE  IInv'
<1>1. Len(Wire) \in Nat /\ received \in 0 .. Len(Wire)
  BY WireAssumption DEF IInv, TypeOK
<1>2. CASE Refuse
  <2>1. /\ size' = size /\ cache' = cache /\ received' = received /\ position' = position
        /\ index' = received
    BY <1>2 DEF Refuse, handler
  <2>2. calling' \in BOOLEAN /\ inStep' \in BOOLEAN
    BY <1>2 DEF Refuse
  <2>3. TypeOK'
    BY <1>1, <2>1, <2>2 DEF IInv, TypeOK
  <2>. QED
    BY <1>2, <2>1, <2>3 DEF IInv, Idle, Refuse
<1>3. CASE ~Refuse
  <2>1. /\ size' = 0 /\ cache' = << >> /\ index' = end /\ received' = received
        /\ calling' = calling /\ inStep' = inStep
        /\ position' = IF inStep THEN position + 1 ELSE position
    BY <1>3 DEF Deliver
  <2>2. position' \in 0 .. Len(Offsets) - 1
    BY <2>1, FrameFacts DEF IInv, TypeOK, Frames
  <2>3. cache' \in Seq(Byte) /\ Len(cache') = 0
    BY <2>1, EmptySeq
  <2>4. TypeOK'
    <3>1. calling' \in BOOLEAN /\ inStep' \in BOOLEAN
      BY <2>1 DEF IInv, TypeOK
    <3>. QED
      BY <1>1, <2>1, <2>2, <2>3, <3>1 DEF TypeOK
  <2>5. ASSUME inStep PROVE InPlace'
    BY <2>1, <2>5, <1>1, DeliverInPlace
  <2>. QED
    BY <2>1, <2>4, <2>5 DEF IInv
<1>. QED
  BY <1>2, <1>3

LEMMA DeliverFromBufferKeeps ==
    ASSUME IInv, DeliverFromBuffer
    PROVE  IInv'
<1>1. /\ calling /\ size # 0 /\ size \in Nat /\ size <= remaining
      /\ index \in Nat /\ received \in Nat
  BY WireAssumption DEF IInv, TypeOK, DeliverFromBuffer
<1>2. index + size \in 0 .. received
  BY <1>1 DEF remaining
<1>3. ASSUME inStep PROVE position + 1 \in Frames /\ index + size = Start + 2 + size
  BY <1>1, <1>3, CacheFacts, EmptySeq DEF DeliverFromBuffer
<1>. QED
  BY <1>1, <1>2, <1>3, DeliverKeeps DEF DeliverFromBuffer

LEMMA DeliverFromCacheKeeps ==
    ASSUME IInv, DeliverFromCache
    PROVE  IInv'
<1>1. /\ calling /\ size # 0 /\ size \in Nat /\ Len(cache) = size
      /\ index \in 0 .. received
  BY DEF IInv, TypeOK, DeliverFromCache, CacheIsComplete
<1>2. ASSUME inStep PROVE position + 1 \in Frames /\ index = Start + 2 + size
  BY <1>1, <1>2, CacheFacts
<1>. QED
  BY <1>1, <1>2, DeliverKeeps DEF DeliverFromCache

LEMMA ReturnKeeps ==
    ASSUME IInv, Return
    PROVE  IInv'
<1>1. TypeOK'
  BY DEF IInv, TypeOK, Return, handler, history
<1>2. InPlace => InPlace'
  BY DEF InPlace, Start, Return, handler, history
<1>3. Idle'
  BY DEF Idle, CacheIsComplete, Return, handler, history
<1>. QED
  BY <1>1, <1>2, <1>3 DEF IInv, Return, history

LEMMA NextKeeps == IInv /\ [Next]_vars => IInv'
<1>. SUFFICES ASSUME IInv, [Next]_vars PROVE IInv'
  OBVIOUS
<1>1. ASSUME NEW n \in BufferSizes, Process(n) PROVE IInv'
  BY <1>1, ProcessKeeps
<1>2. CASE Reset
  BY <1>2, ResetKeeps
<1>3. CASE Loop
  BY <1>3, CollectSizeKeeps, ReadSizeKeeps, GatherKeeps, DeliverFromBufferKeeps,
     DeliverFromCacheKeeps, ReturnKeeps DEF Loop
<1>4. CASE UNCHANGED vars
  BY <1>4 DEF vars, handler, history, IInv, TypeOK, InPlace, Start, Idle, CacheIsComplete
<1>. QED
  BY <1>1, <1>2, <1>3, <1>4 DEF Next

-----------------------------------------------------------------------------
(* The theorems. *)

\* Types, no byte beyond the buffer, no more in the cache than a message needs, and the
\* handler always where the frames say (itch_handler.cpp:16-100).
THEOREM InvariantHolds == Spec => []IInv
<1>1. Init => IInv
  BY InitKeeps
<1>2. IInv /\ [Next]_vars => IInv'
  BY NextKeeps
<1>. QED
  BY <1>1, <1>2, PTL DEF Spec

\* The type invariant that ITCH checks (itch_handler.cpp:16-100).
THEOREM TypesHold == Spec => []TypeOK
<1>1. IInv => TypeOK
  BY DEF IInv
<1>. QED
  BY <1>1, InvariantHolds, PTL

\* In every state in which Process has returned, exactly the messages that are complete
\* have been handled (itch_handler.cpp:54-71).
LEMMA IdleHoldsNothingBack ==
    ASSUME IInv
    PROVE  NothingIsHeldBack
<1>. SUFFICES ASSUME inStep, ~calling, NEW i \in Frames, FrameSize(i) > 0
              PROVE  i <= position <=> Offsets[i + 1] <= received
  BY DEF NothingIsHeldBack
<1>1. index = received /\ ~CacheIsComplete
  BY DEF IInv, Idle
<1>2. /\ Start \in Nat /\ index \in Nat /\ Start <= index /\ position \in 0 .. Len(Offsets) - 1
      /\ size \in Nat /\ Len(Offsets) \in Nat /\ i \in Nat
  <2>1. Start \in Nat /\ index \in Nat /\ Start <= index
    BY CacheFacts
  <2>2. position \in 0 .. Len(Offsets) - 1 /\ size \in Nat
    BY DEF IInv, TypeOK
  <2>. QED
    BY <2>1, <2>2, FrameFacts, OffsetsAssumption
<1>3. ASSUME position + 1 \in Frames, FrameSize(position + 1) > 0 \/ i > position + 1
      PROVE  index < Offsets[i + 1] \/ i <= position
  <2>1. /\ Offsets[position + 2] = Start + 2 + FrameSize(position + 1)
        /\ FrameSize(position + 1) \in Nat
    <3>1. (position + 1) + 1 = position + 2
      BY <1>2
    <3>. QED
      BY <1>3, <3>1, FrameFacts DEF Start
  <2>2. index <= Offsets[position + 2]
        /\ (FrameSize(position + 1) > 0 => index < Offsets[position + 2])
    <3>1. CASE size = 0
      <4>1. Len(cache) = index - Start /\ Len(cache) <= 2
        BY <3>1, <1>2, CacheFacts DEF IInv, TypeOK
      <4>. QED
        BY <4>1, <2>1, <1>2
    <3>2. CASE size # 0
      <4>1. /\ Len(cache) = index - (Start + 2) /\ Len(cache) <= size
            /\ Offsets[position + 2] = Start + 2 + size
        BY <3>2, CacheFacts DEF IInv, TypeOK
      <4>2. Len(cache) # size
        BY <3>2, <1>1, <1>2 DEF CacheIsComplete
      <4>. QED
        BY <4>1, <4>2, <1>2
    <3>. QED
      BY <3>1, <3>2
  <2>3. CASE i = position + 1
    <3>1. i + 1 = position + 2
      BY <2>3, <1>2
    <3>. QED
      BY <2>2, <2>3, <3>1
  <2>4. CASE i > position + 1
    <3>1. Offsets[(position + 1) + 1] <= Offsets[i]
      BY <2>4, <1>3, OffsetsAssumption
    <3>2. /\ Offsets[i + 1] = Offsets[i] + 2 + FrameSize(i)
          /\ Offsets[i] \in Nat /\ FrameSize(i) \in Nat
      BY FrameFacts
    <3>3. (position + 1) + 1 = position + 2
      BY <1>2
    <3>. QED
      BY <2>1, <2>2, <3>1, <3>2, <3>3, <1>2, SMTT(30)
  <2>. QED
    BY <2>3, <2>4, <1>2
<1>4. ASSUME i <= position PROVE Offsets[i + 1] <= index
  <2>1. CASE i = position
    BY <2>1, <1>2 DEF Start
  <2>2. CASE i < position
    <3>1. position \in Frames
      BY <1>2, <2>2 DEF Frames
    <3>2. Offsets[i + 1] <= Offsets[position]
      BY <2>2, <3>1, OffsetsAssumption
    <3>3. /\ Offsets[position + 1] = Offsets[position] + 2 + FrameSize(position)
          /\ Offsets[position] \in Nat /\ FrameSize(position) \in Nat /\ Offsets[i + 1] \in Nat
      BY <3>1, FrameFacts
    <3>. QED
      BY <3>2, <3>3, <1>2, SMTT(30) DEF Start
  <2>. QED
    BY <1>4, <2>1, <2>2, <1>2
<1>5. ASSUME i > position PROVE index < Offsets[i + 1]
  <2>1. position + 1 \in Frames
    BY <1>5, <1>2 DEF Frames
  <2>2. FrameSize(position + 1) > 0 \/ i > position + 1
    BY <1>5, <1>2
  <2>. QED
    BY <2>1, <2>2, <1>3, <1>5, <1>2
<1>6. Offsets[i + 1] \in Nat
  BY FrameFacts
<1>. QED
  BY <1>1, <1>2, <1>4, <1>5, <1>6

\* Wherever the buffers were cut, when Process has returned the messages that have arrived
\* completely, and no others, were handed on (itch_handler.cpp:54-71).
THEOREM NothingHeldBack == Spec => []NothingIsHeldBack
<1>1. IInv => NothingIsHeldBack
  BY IdleHoldsNothingBack
<1>. QED
  BY <1>1, InvariantHolds, PTL

-----------------------------------------------------------------------------
(* ITCHHandler implements MessageStream. *)

LEMMA BodyDelivered ==
    ASSUME IInv, inStep, size # 0, CacheIsComplete
    PROVE  cache = Body(position + 1)
<1>1. /\ cache = SubSeq(Wire, Start + 3, index)
      /\ index = Offsets[position + 2]
  BY CacheFacts DEF IInv, InPlace, CacheIsComplete
<1>2. (position + 1) + 1 = position + 2
  BY DEF IInv, TypeOK
<1>. QED
  BY <1>1, <1>2 DEF Body, Start

LEMMA DeliverHandles ==
    ASSUME IInv, inStep, size # 0, NEW end, Deliver(Body(position + 1), end)
    PROVE  Stream!Handle \/ Stream!LoseStep
<1>1. CASE Refuse
  BY <1>1 DEF Refuse, Stream!LoseStep
<1>2. CASE ~Refuse
  <2>1. /\ position' = position + 1 /\ message' = ProcessMessage(Body(position + 1))
        /\ inStep' = inStep
    BY <1>2 DEF Deliver
  <2>2. position + 1 \in Frames /\ FrameSize(position + 1) # 0
    BY CacheFacts
  <2>3. position + 1 \in DOMAIN Messages \ Empty
    BY <2>2 DEF Messages, Empty
  <2>4. Messages[position + 1] = ProcessMessage(Body(position + 1))
    BY <2>2 DEF Messages
  <2>. QED
    BY <2>1, <2>3, <2>4 DEF Stream!Handle
<1>. QED
  BY <1>1, <1>2

LEMMA StepImplements ==
    ASSUME IInv, [Next]_vars
    PROVE  [Stream!Next]_<<position, message, inStep>>
<1>1. ASSUME NEW n \in BufferSizes, Process(n) PROVE UNCHANGED <<position, message, inStep>>
  BY <1>1 DEF Process, history
<1>2. CASE Reset \/ CollectSize \/ Gather \/ Return \/ UNCHANGED vars
  BY <1>2 DEF Reset, CollectSize, Gather, Return, vars, history
<1>3. CASE ReadSize
  <2>1. CASE inStep /\ position + 1 \in Empty
    BY <1>3, <2>1 DEF ReadSize, PassOver, Stream!Next, Stream!Skip
  <2>2. CASE ~(inStep /\ position + 1 \in Empty)
    BY <1>3, <2>2 DEF ReadSize, PassOver
  <2>. QED
    BY <2>1, <2>2
<1>4. CASE ~inStep /\ (DeliverFromBuffer \/ DeliverFromCache)
  <2>1. inStep = FALSE
    BY <1>4 DEF IInv, TypeOK
  <2>. QED
    BY <1>4, <2>1 DEF DeliverFromBuffer, DeliverFromCache, Deliver, Refuse
<1>5. CASE inStep /\ DeliverFromBuffer
  <2>1. size # 0 /\ index = Start + 2
    BY <1>5, CacheFacts, EmptySeq DEF DeliverFromBuffer, IInv, TypeOK
  <2>2. /\ index + size = Offsets[(position + 1) + 1]
        /\ index + 1 = Offsets[position + 1] + 3
    <3>1. (position + 1) + 1 = position + 2
      BY DEF IInv, TypeOK
    <3>. QED
      BY <1>5, <2>1, <3>1, CacheFacts DEF Start
  <2>3. Deliver(Body(position + 1), index + size)
    BY <1>5, <2>2 DEF DeliverFromBuffer, Body
  <2>. QED
    BY <1>5, <2>1, <2>3, DeliverHandles DEF Stream!Next
<1>6. CASE inStep /\ DeliverFromCache
  <2>1. size # 0 /\ CacheIsComplete
    BY <1>6 DEF DeliverFromCache, CacheIsComplete, IInv, TypeOK
  <2>2. Deliver(Body(position + 1), index)
    BY <1>6, <2>1, BodyDelivered DEF DeliverFromCache
  <2>. QED
    BY <1>6, <2>1, <2>2, DeliverHandles DEF Stream!Next
<1>. QED
  BY <1>1, <1>2, <1>3, <1>4, <1>5, <1>6 DEF Next, Loop

\* Wherever the buffers are cut, the application is given the messages of the stream, in
\* order and each once, until it refuses one (itch_handler.cpp:73-95).
THEOREM ImplementsStream == Spec => HandlesTheStream
<1>1. Init => Stream!Init
  BY DEF Init, Stream!Init
<1>2. IInv /\ [Next]_vars => [Stream!Next]_<<position, message, inStep>>
  BY StepImplements
<1>. QED
  BY <1>1, <1>2, InvariantHolds, PTL DEF Spec, HandlesTheStream, Stream!Spec

-----------------------------------------------------------------------------
(* What the decoders read. *)

IsTuple(s) == Len(s) \in Nat /\ s = [i \in 1 .. Len(s) |-> s[i]]

\* The members are read in the order in which the struct declares them, and no two of
\* them have the same name.
InOrder(struct, reads) ==
    /\ IsTuple(struct) /\ IsTuple(reads)
    /\ Len(reads) = Len(struct)
    /\ \A j \in 1 .. Len(struct) : reads[j] = struct[j][1]
    /\ \A i, j \in 1 .. Len(struct) : struct[i][1] = struct[j][1] => i = j

\* A message holds for every member of its struct the bytes at its place in a body.
AtItsPlace(m, bytes) ==
    \A j \in DOMAIN m.struct :
        m.fields[m.struct[j][1]] = Read(m.struct[j], Offset(m.struct, j), bytes)

LEMMA MemberAt ==
    ASSUME NEW struct, NEW reads, InOrder(struct, reads), NEW j \in 1 .. Len(struct)
    PROVE  Member(struct, reads[j]) = j
<1>1. {i \in 1 .. Len(struct) : struct[i][1] = reads[j]} = {j}
  BY DEF InOrder, IsTuple
<1>2. j \in Int
  BY DEF InOrder, IsTuple
<1>3. Min({j}) = j
  BY <1>2 DEF Min
<1>. QED
  BY <1>1, <1>3 DEF Member, SelectInSeq

LEMMA LastReadAt ==
    ASSUME NEW struct, NEW reads, InOrder(struct, reads), NEW j \in 1 .. Len(struct)
    PROVE  SelectLastInSeq(reads, LAMBDA r : r = struct[j][1]) = j
<1>1. {i \in 1 .. Len(reads) : reads[i] = struct[j][1]} = {j}
  BY DEF InOrder, IsTuple
<1>2. j \in Int
  BY DEF InOrder, IsTuple
<1>3. Max({j}) = j
  BY <1>2 DEF Max
<1>. QED
  BY <1>1, <1>3 DEF SelectLastInSeq

LEMMA DecodeReads ==
    ASSUME NEW length, NEW struct, NEW reads, NEW bytes, InOrder(struct, reads)
    PROVE  AtItsPlace(Decode(length, struct, reads, bytes), bytes)
<1>. DEFINE members == [i \in DOMAIN reads |-> struct[Member(struct, reads[i])]]
            fields == [name \in ToSet(reads) |->
                             LET i == SelectLastInSeq(reads, LAMBDA r : r = name)
                             IN  Read(members[i], Offset(members, i), bytes)]
<1>1. members = struct
  <2>1. DOMAIN reads = 1 .. Len(struct) /\ DOMAIN struct = 1 .. Len(struct)
    BY DEF InOrder, IsTuple
  <2>2. struct = [i \in 1 .. Len(struct) |-> struct[i]]
    BY DEF InOrder, IsTuple
  <2>. QED
    BY <2>1, <2>2, MemberAt
<1>2. ASSUME NEW j \in DOMAIN struct
      PROVE  fields[struct[j][1]] = Read(struct[j], Offset(struct, j), bytes)
  <2>1. j \in 1 .. Len(struct)
    BY DEF InOrder, IsTuple
  <2>2. struct[j][1] \in ToSet(reads)
    BY <2>1 DEF ToSet, InOrder, IsTuple
  <2>3. SelectLastInSeq(reads, LAMBDA r : r = struct[j][1]) = j
    BY <2>1, LastReadAt
  <2>. HIDE DEF members
  <2>. QED
    BY <1>1, <2>2, <2>3
<1>3. CASE Len(bytes) # length
  BY <1>3 DEF Decode, AtItsPlace, NoMessage
<1>4. CASE Len(bytes) = length
  <2>1. Decode(length, struct, reads, bytes) = [struct |-> struct, fields |-> fields]
    BY <1>4 DEF Decode
  <2>. HIDE DEF fields
  <2>. QED
    BY <2>1, <1>2 DEF AtItsPlace
<1>. QED
  BY <1>3, <1>4

LEMMA TuplesJoin ==
    ASSUME NEW s, IsTuple(s), NEW t, IsTuple(t)
    PROVE  /\ IsTuple(s \o t)
           /\ Len(s) \in Nat /\ Len(t) \in Nat
           /\ Len(s \o t) = Len(s) + Len(t)
           /\ \A i \in 1 .. Len(s) + Len(t) :
                 (s \o t)[i] = IF i <= Len(s) THEN s[i] ELSE t[i - Len(s)]
<1>. DEFINE E == {s[i] : i \in 1 .. Len(s)} \cup {t[i] : i \in 1 .. Len(t)}
<1>1. Len(s) \in Nat /\ s \in [1 .. Len(s) -> E]
  BY DEF IsTuple
<1>2. Len(t) \in Nat /\ t \in [1 .. Len(t) -> E]
  BY DEF IsTuple
<1>3. s \in Seq(E) /\ t \in Seq(E)
  BY <1>1, <1>2
<1>. HIDE DEF E
<1>4. s \o t \in Seq(E) /\ Len(s \o t) = Len(s) + Len(t)
  BY <1>3
<1>5. \A i \in 1 .. Len(s) + Len(t) : (s \o t)[i] = IF i <= Len(s) THEN s[i] ELSE t[i - Len(s)]
  BY <1>3
<1>6. s \o t = [i \in 1 .. Len(s \o t) |-> (s \o t)[i]]
  <2>1. s \o t \in [1 .. Len(s \o t) -> E]
    BY <1>4, LenProperties
  <2>. QED
    BY <2>1
<1>. QED
  BY <1>1, <1>2, <1>4, <1>5, <1>6 DEF IsTuple

LEMMA InOrderJoins ==
    ASSUME NEW s, NEW r, InOrder(s, r), NEW t, NEW q, InOrder(t, q),
           \A i \in 1 .. Len(s), j \in 1 .. Len(t) : s[i][1] # t[j][1]
    PROVE  InOrder(s \o t, r \o q)
<1>. DEFINE n == Len(s)
            m == Len(t)
<1>1. IsTuple(s) /\ IsTuple(t) /\ IsTuple(r) /\ IsTuple(q) /\ Len(r) = n /\ Len(q) = m
  BY DEF InOrder
<1>2. /\ n \in Nat /\ m \in Nat /\ Len(s \o t) = n + m
      /\ \A i \in 1 .. n + m : (s \o t)[i] = IF i <= n THEN s[i] ELSE t[i - n]
  BY <1>1, TuplesJoin
<1>3. /\ Len(r \o q) = Len(r) + Len(q)
      /\ \A i \in 1 .. Len(r) + Len(q) :
            (r \o q)[i] = IF i <= Len(r) THEN r[i] ELSE q[i - Len(r)]
  BY <1>1, TuplesJoin
<1>4. /\ \A i \in 1 .. n : r[i] = s[i][1]
      /\ \A i \in 1 .. m : q[i] = t[i][1]
      /\ \A i, j \in 1 .. n : s[i][1] = s[j][1] => i = j
      /\ \A i, j \in 1 .. m : t[i][1] = t[j][1] => i = j
      /\ \A i \in 1 .. n, j \in 1 .. m : s[i][1] # t[j][1]
  BY DEF InOrder
<1>. HIDE DEF n, m
<1>5. ASSUME NEW i \in 1 .. n + m
      PROVE  \/ /\ i \in 1 .. n
                /\ (s \o t)[i] = s[i] /\ (r \o q)[i] = s[i][1]
             \/ /\ i > n /\ i - n \in 1 .. m
                /\ (s \o t)[i] = t[i - n] /\ (r \o q)[i] = t[i - n][1]
  <2>1. CASE i <= n
    <3>1. i \in 1 .. n
      BY <1>2, <2>1
    <3>. QED
      BY <1>1, <1>2, <1>3, <1>4, <2>1, <3>1
  <2>2. CASE ~(i <= n)
    <3>1. i > n /\ i - n \in 1 .. m
      BY <1>2, <2>2
    <3>. QED
      BY <1>1, <1>2, <1>3, <1>4, <2>2, <3>1
  <2>. QED
    BY <2>1, <2>2
<1>6. ASSUME NEW i \in 1 .. n + m, NEW j \in 1 .. n + m, (s \o t)[i][1] = (s \o t)[j][1]
      PROVE  i = j
  <2>1. CASE i \in 1 .. n /\ j \in 1 .. n
    BY <1>2, <1>4, <1>5, <1>6, <2>1
  <2>2. CASE i > n /\ j > n
    <3>a. i \notin 1 .. n /\ j \notin 1 .. n
      BY <1>2, <2>2
    <3>b. i - n \in 1 .. m /\ (s \o t)[i] = t[i - n]
      BY <1>5, <3>a
    <3>c. j - n \in 1 .. m /\ (s \o t)[j] = t[j - n]
      BY <1>5, <3>a
    <3>1. /\ i - n \in 1 .. m /\ j - n \in 1 .. m
          /\ t[i - n][1] = t[j - n][1]
      BY <1>6, <3>b, <3>c
    <3>2. i - n = j - n
      BY <1>4, <3>1
    <3>. QED
      BY <1>2, <3>2
  <2>3. CASE i \in 1 .. n /\ j > n
    <3>a. j \notin 1 .. n
      BY <1>2, <2>3
    <3>b. j - n \in 1 .. m /\ (s \o t)[j] = t[j - n]
      BY <1>5, <3>a
    <3>c. (s \o t)[i] = s[i]
      BY <1>2, <1>5, <2>3
    <3>1. j - n \in 1 .. m /\ s[i][1] = t[j - n][1]
      BY <1>6, <3>b, <3>c
    <3>. QED
      BY <1>4, <2>3, <3>1
  <2>4. CASE i > n /\ j \in 1 .. n
    <3>a. i \notin 1 .. n
      BY <1>2, <2>4
    <3>b. i - n \in 1 .. m /\ (s \o t)[i] = t[i - n]
      BY <1>5, <3>a
    <3>c. (s \o t)[j] = s[j]
      BY <1>2, <1>5, <2>4
    <3>1. i - n \in 1 .. m /\ s[j][1] = t[i - n][1]
      BY <1>6, <3>b, <3>c
    <3>. QED
      BY <1>4, <2>4, <3>1
  <2>. QED
    BY <1>2, <2>1, <2>2, <2>3, <2>4
<1>7. IsTuple(s \o t) /\ IsTuple(r \o q)
  BY <1>1, TuplesJoin
<1>. QED
  <2>1. \A i \in 1 .. n + m : (r \o q)[i] = (s \o t)[i][1]
    BY <1>5
  <2>2. Len(s \o t) = n + m /\ Len(r \o q) = n + m
    BY <1>1, <1>2, <1>3
  <2>. QED
    BY <1>6, <1>7, <2>1, <2>2 DEF InOrder

LEMMA HeaderInOrder == InOrder(Header, ReadHeader)
<1>1. IsTuple(Header) /\ IsTuple(ReadHeader)
  BY DEF Header, ReadHeader, IsTuple
<1>2. Len(Header) = 4 /\ Len(ReadHeader) = 4
  BY DEF Header, ReadHeader
<1>3. \A j \in 1 .. 4 : ReadHeader[j] = Header[j][1]
  BY DEF Header, ReadHeader, Char, Chars, UInt16
<1>4. \A i, j \in 1 .. 4 : ReadHeader[i] = ReadHeader[j] => i = j
  BY DEF ReadHeader
<1>. QED
  BY <1>1, <1>2, <1>3, <1>4 DEF InOrder

\* What follows the header is read in order, and is named differently.
FollowsHeader(struct, reads) ==
    /\ InOrder(struct, reads)
    /\ \A j \in 1 .. Len(reads) :
          reads[j] \notin {"Type", "StockLocate", "TrackingNumber", "Timestamp"}

LEMMA DecodeReadsAll ==
    ASSUME NEW t, NEW q, FollowsHeader(t, q), NEW length, NEW bytes
    PROVE  AtItsPlace(Decode(length, Header \o t, ReadHeader \o q, bytes), bytes)
<1>1. \A i \in 1 .. Len(Header) :
         Header[i][1] \in {"Type", "StockLocate", "TrackingNumber", "Timestamp"}
  BY DEF Header, Char, Chars, UInt16
<1>2. \A i \in 1 .. Len(Header), j \in 1 .. Len(t) : Header[i][1] # t[j][1]
  BY <1>1 DEF FollowsHeader, InOrder
<1>3. InOrder(Header \o t, ReadHeader \o q)
  BY <1>2, HeaderInOrder, InOrderJoins DEF FollowsHeader
<1>. QED
  BY <1>3, DecodeReads

(* The decoders, in the order of ProcessMessage. *)

LEMMA SystemEventAtItsPlace ==
    \A bytes : AtItsPlace(ProcessSystemEventMessage(bytes), bytes)
<1>1. FollowsHeader(
        <<Char("EventCode")>>,
        <<"EventCode">>)
  BY DEF FollowsHeader, InOrder, IsTuple, Char, Chars
<1>. QED
  BY <1>1, DecodeReadsAll DEF ProcessSystemEventMessage, SystemEventMessage

LEMMA StockDirectoryAtItsPlace ==
    \A bytes : AtItsPlace(ProcessStockDirectoryMessage(bytes), bytes)
<1>1. FollowsHeader(
        <<Chars("Stock", 8), Char("MarketCategory"), Char("FinancialStatusIndicator"),
          UInt32("RoundLotSize"), Char("RoundLotsOnly"), Char("IssueClassification"),
          Chars("IssueSubType", 2), Char("Authenticity"),
         Char("ShortSaleThresholdIndicator"),
          Char("IPOFlag"), Char("LULDReferencePriceTier"), Char("ETPFlag"),
          UInt32("ETPLeverageFactor"), Char("InverseIndicator")>>,
        <<"Stock", "MarketCategory", "FinancialStatusIndicator", "RoundLotSize",
          "RoundLotsOnly", "IssueClassification", "IssueSubType", "Authenticity",
          "ShortSaleThresholdIndicator", "IPOFlag", "LULDReferencePriceTier", "ETPFlag",
          "ETPLeverageFactor", "InverseIndicator">>)
  BY DEF FollowsHeader, InOrder, IsTuple, Char, Chars, UInt32
<1>. QED
  BY <1>1, DecodeReadsAll DEF ProcessStockDirectoryMessage, StockDirectoryMessage

LEMMA StockTradingActionAtItsPlace ==
    \A bytes : AtItsPlace(ProcessStockTradingActionMessage(bytes), bytes)
<1>1. FollowsHeader(
        <<Chars("Stock", 8), Char("TradingState"), Char("Reserved"), Char("Reason")>>,
        <<"Stock", "TradingState", "Reserved", "Reason">>)
  BY DEF FollowsHeader, InOrder, IsTuple, Char, Chars
<1>. QED
  BY <1>1, DecodeReadsAll DEF ProcessStockTradingActionMessage, StockTradingActionMessage

LEMMA RegSHOAtItsPlace == \A bytes : AtItsPlace(ProcessRegSHOMessage(bytes), bytes)
<1>1. FollowsHeader(
        <<Chars("Stock", 8), Char("RegSHOAction")>>,
        <<"Stock", "RegSHOAction">>)
  BY DEF FollowsHeader, InOrder, IsTuple, Char, Chars
<1>. QED
  BY <1>1, DecodeReadsAll DEF ProcessRegSHOMessage, RegSHOMessage

LEMMA MarketParticipantPositionAtItsPlace ==
    \A bytes : AtItsPlace(ProcessMarketParticipantPositionMessage(bytes), bytes)
<1>1. FollowsHeader(
        <<Chars("MPID", 4), Chars("Stock", 8), Char("PrimaryMarketMaker"),
          Char("MarketMakerMode"), Char("MarketParticipantState")>>,
        <<"MPID", "Stock", "PrimaryMarketMaker", "MarketMakerMode",
          "MarketParticipantState">>)
  BY DEF FollowsHeader, InOrder, IsTuple, Char, Chars
<1>. QED
  BY <1>1, DecodeReadsAll
     DEF ProcessMarketParticipantPositionMessage, MarketParticipantPositionMessage

LEMMA MWCBDeclineAtItsPlace ==
    \A bytes : AtItsPlace(ProcessMWCBDeclineMessage(bytes), bytes)
<1>1. FollowsHeader(
        <<UInt64("Level1"), UInt64("Level2"), UInt64("Level3")>>,
        <<"Level1", "Level2", "Level3">>)
  BY DEF FollowsHeader, InOrder, IsTuple, UInt64
<1>. QED
  BY <1>1, DecodeReadsAll DEF ProcessMWCBDeclineMessage, MWCBDeclineMessage

LEMMA MWCBStatusAtItsPlace == \A bytes : AtItsPlace(ProcessMWCBStatusMessage(bytes), bytes)
<1>1. FollowsHeader(
        <<Char("BreachedLevel")>>,
        <<"BreachedLevel">>)
  BY DEF FollowsHeader, InOrder, IsTuple, Char, Chars
<1>. QED
  BY <1>1, DecodeReadsAll DEF ProcessMWCBStatusMessage, MWCBStatusMessage

LEMMA IPOQuotingAtItsPlace == \A bytes : AtItsPlace(ProcessIPOQuotingMessage(bytes), bytes)
<1>1. FollowsHeader(
        <<Chars("Stock", 8), UInt32("IPOReleaseTime"), Char("IPOReleaseQualifier"),
          UInt32("IPOPrice")>>,
        <<"Stock", "IPOReleaseTime", "IPOReleaseQualifier", "IPOPrice">>)
  BY DEF FollowsHeader, InOrder, IsTuple, Char, Chars, UInt32
<1>. QED
  BY <1>1, DecodeReadsAll DEF ProcessIPOQuotingMessage, IPOQuotingMessage

LEMMA AddOrderAtItsPlace == \A bytes : AtItsPlace(ProcessAddOrderMessage(bytes), bytes)
<1>1. FollowsHeader(
        <<UInt64("OrderReferenceNumber"), Char("BuySellIndicator"), UInt32("Shares"),
          Chars("Stock", 8), UInt32("Price")>>,
        <<"OrderReferenceNumber", "BuySellIndicator", "Shares", "Stock", "Price">>)
  BY DEF FollowsHeader, InOrder, IsTuple, Char, Chars, UInt32, UInt64
<1>2. ReadAddOrder = ReadHeader \o
        <<"OrderReferenceNumber", "BuySellIndicator", "Shares", "Stock", "Price">>
  BY DEF ReadAddOrder, ReadHeader
<1>. QED
  BY <1>1, <1>2, DecodeReadsAll DEF ProcessAddOrderMessage, AddOrderMessage

LEMMA AddOrderMPIDAtItsPlace ==
    \A bytes : AtItsPlace(ProcessAddOrderMPIDMessage(bytes), bytes)
<1>1. FollowsHeader(
        <<UInt64("OrderReferenceNumber"), Char("BuySellIndicator"), UInt32("Shares"),
          Chars("Stock", 8), UInt32("Price"), Char("Attribution")>>,
        <<"OrderReferenceNumber", "BuySellIndicator", "Shares", "Stock", "Price",
          "Attribution">>)
  BY DEF FollowsHeader, InOrder, IsTuple, Char, Chars, UInt32, UInt64
<1>2. AddOrderMPIDMessage = Header \o
        <<UInt64("OrderReferenceNumber"), Char("BuySellIndicator"), UInt32("Shares"),
          Chars("Stock", 8), UInt32("Price"), Char("Attribution")>>
  BY DEF AddOrderMPIDMessage, AddOrderMessage, Header, Char, Chars, UInt16, UInt32, UInt64
<1>3. ReadAddOrder \o <<"Attribution">> = ReadHeader \o
        <<"OrderReferenceNumber", "BuySellIndicator", "Shares", "Stock", "Price",
          "Attribution">>
  BY DEF ReadAddOrder, ReadHeader
<1>. QED
  BY <1>1, <1>2, <1>3, DecodeReadsAll DEF ProcessAddOrderMPIDMessage

LEMMA OrderExecutedAtItsPlace ==
    \A bytes : AtItsPlace(ProcessOrderExecutedMessage(bytes), bytes)
<1>1. FollowsHeader(
        <<UInt64("OrderReferenceNumber"), UInt32("ExecutedShares"), UInt64("MatchNumber")>>,
        <<"OrderReferenceNumber", "ExecutedShares", "MatchNumber">>)
  BY DEF FollowsHeader, InOrder, IsTuple, UInt32, UInt64
<1>2. ReadExecuted = ReadHeader \o
        <<"OrderReferenceNumber", "ExecutedShares", "MatchNumber">>
  BY DEF ReadExecuted, ReadHeader
<1>. QED
  BY <1>1, <1>2, DecodeReadsAll DEF ProcessOrderExecutedMessage, OrderExecutedMessage

LEMMA OrderExecutedWithPriceAtItsPlace ==
    \A bytes : AtItsPlace(ProcessOrderExecutedWithPriceMessage(bytes), bytes)
<1>1. FollowsHeader(
        <<UInt64("OrderReferenceNumber"), UInt32("ExecutedShares"), UInt64("MatchNumber"),
          Char("Printable"), UInt32("ExecutionPrice")>>,
        <<"OrderReferenceNumber", "ExecutedShares", "MatchNumber", "Printable",
          "ExecutionPrice">>)
  BY DEF FollowsHeader, InOrder, IsTuple, Char, Chars, UInt32, UInt64
<1>2. OrderExecutedWithPriceMessage = Header \o
        <<UInt64("OrderReferenceNumber"), UInt32("ExecutedShares"), UInt64("MatchNumber"),
          Char("Printable"), UInt32("ExecutionPrice")>>
  BY DEF OrderExecutedWithPriceMessage, OrderExecutedMessage, Header, Char, Chars, UInt16,
         UInt32, UInt64
<1>3. ReadExecuted \o <<"Printable", "ExecutionPrice">> = ReadHeader \o
        <<"OrderReferenceNumber", "ExecutedShares", "MatchNumber", "Printable",
          "ExecutionPrice">>
  BY DEF ReadExecuted, ReadHeader
<1>. QED
  BY <1>1, <1>2, <1>3, DecodeReadsAll DEF ProcessOrderExecutedWithPriceMessage

LEMMA OrderCancelAtItsPlace ==
    \A bytes : AtItsPlace(ProcessOrderCancelMessage(bytes), bytes)
<1>1. FollowsHeader(
        <<UInt64("OrderReferenceNumber"), UInt32("CanceledShares")>>,
        <<"OrderReferenceNumber", "CanceledShares">>)
  BY DEF FollowsHeader, InOrder, IsTuple, UInt32, UInt64
<1>. QED
  BY <1>1, DecodeReadsAll DEF ProcessOrderCancelMessage, OrderCancelMessage

LEMMA OrderDeleteAtItsPlace ==
    \A bytes : AtItsPlace(ProcessOrderDeleteMessage(bytes), bytes)
<1>1. FollowsHeader(
        <<UInt64("OrderReferenceNumber")>>,
        <<"OrderReferenceNumber">>)
  BY DEF FollowsHeader, InOrder, IsTuple, UInt64
<1>. QED
  BY <1>1, DecodeReadsAll DEF ProcessOrderDeleteMessage, OrderDeleteMessage

LEMMA OrderReplaceAtItsPlace ==
    \A bytes : AtItsPlace(ProcessOrderReplaceMessage(bytes), bytes)
<1>1. FollowsHeader(
        <<UInt64("OriginalOrderReferenceNumber"), UInt64("NewOrderReferenceNumber"),
          UInt32("Shares"), UInt32("Price")>>,
        <<"OriginalOrderReferenceNumber", "NewOrderReferenceNumber", "Shares", "Price">>)
  BY DEF FollowsHeader, InOrder, IsTuple, UInt32, UInt64
<1>. QED
  BY <1>1, DecodeReadsAll DEF ProcessOrderReplaceMessage, OrderReplaceMessage

LEMMA TradeAtItsPlace == \A bytes : AtItsPlace(ProcessTradeMessage(bytes), bytes)
<1>1. FollowsHeader(
        <<UInt64("OrderReferenceNumber"), Char("BuySellIndicator"), UInt32("Shares"),
          Chars("Stock", 8), UInt32("Price"), UInt64("MatchNumber")>>,
        <<"OrderReferenceNumber", "BuySellIndicator", "Shares", "Stock", "Price",
          "MatchNumber">>)
  BY DEF FollowsHeader, InOrder, IsTuple, Char, Chars, UInt32, UInt64
<1>2. TradeMessage = Header \o
        <<UInt64("OrderReferenceNumber"), Char("BuySellIndicator"), UInt32("Shares"),
          Chars("Stock", 8), UInt32("Price"), UInt64("MatchNumber")>>
  BY DEF TradeMessage, AddOrderMessage, Header, Char, Chars, UInt16, UInt32, UInt64
<1>3. ReadAddOrder \o <<"MatchNumber">> = ReadHeader \o
        <<"OrderReferenceNumber", "BuySellIndicator", "Shares", "Stock", "Price",
          "MatchNumber">>
  BY DEF ReadAddOrder, ReadHeader
<1>. QED
  BY <1>1, <1>2, <1>3, DecodeReadsAll DEF ProcessTradeMessage

LEMMA CrossTradeAtItsPlace == \A bytes : AtItsPlace(ProcessCrossTradeMessage(bytes), bytes)
<1>1. FollowsHeader(
        <<UInt64("Shares"), Chars("Stock", 8), UInt32("CrossPrice"), UInt64("MatchNumber"),
          Char("CrossType")>>,
        <<"Shares", "Stock", "CrossPrice", "MatchNumber", "CrossType">>)
  BY DEF FollowsHeader, InOrder, IsTuple, Char, Chars, UInt32, UInt64
<1>. QED
  BY <1>1, DecodeReadsAll DEF ProcessCrossTradeMessage, CrossTradeMessage

LEMMA BrokenTradeAtItsPlace ==
    \A bytes : AtItsPlace(ProcessBrokenTradeMessage(bytes), bytes)
<1>1. FollowsHeader(
        <<UInt64("MatchNumber")>>,
        <<"MatchNumber">>)
  BY DEF FollowsHeader, InOrder, IsTuple, UInt64
<1>. QED
  BY <1>1, DecodeReadsAll DEF ProcessBrokenTradeMessage, BrokenTradeMessage

LEMMA NOIIAtItsPlace == \A bytes : AtItsPlace(ProcessNOIIMessage(bytes), bytes)
<1>1. FollowsHeader(
        <<UInt64("PairedShares"), UInt64("ImbalanceShares"), Char("ImbalanceDirection"),
          Chars("Stock", 8), UInt32("FarPrice"), UInt32("NearPrice"),
          UInt32("CurrentReferencePrice"), Char("CrossType"),
          Char("PriceVariationIndicator")>>,
        <<"PairedShares", "ImbalanceShares", "ImbalanceDirection", "Stock", "FarPrice",
          "NearPrice", "CurrentReferencePrice", "CrossType", "PriceVariationIndicator">>)
  BY DEF FollowsHeader, InOrder, IsTuple, Char, Chars, UInt32, UInt64
<1>. QED
  BY <1>1, DecodeReadsAll DEF ProcessNOIIMessage, NOIIMessage

LEMMA RPIIAtItsPlace == \A bytes : AtItsPlace(ProcessRPIIMessage(bytes), bytes)
<1>1. FollowsHeader(
        <<Chars("Stock", 8), Char("InterestFlag")>>,
        <<"Stock", "InterestFlag">>)
  BY DEF FollowsHeader, InOrder, IsTuple, Char, Chars
<1>. QED
  BY <1>1, DecodeReadsAll DEF ProcessRPIIMessage, RPIIMessage

LEMMA LULDAuctionCollarAtItsPlace ==
    \A bytes : AtItsPlace(ProcessLULDAuctionCollarMessage(bytes), bytes)
<1>1. FollowsHeader(
        <<Chars("Stock", 8), UInt32("AuctionCollarReferencePrice"),
          UInt32("UpperAuctionCollarPrice"), UInt32("LowerAuctionCollarPrice"),
          UInt32("AuctionCollarExtension")>>,
        <<"Stock", "AuctionCollarReferencePrice", "UpperAuctionCollarPrice",
          "LowerAuctionCollarPrice", "AuctionCollarExtension">>)
  BY DEF FollowsHeader, InOrder, IsTuple, Chars, UInt32
<1>. QED
  BY <1>1, DecodeReadsAll DEF ProcessLULDAuctionCollarMessage, LULDAuctionCollarMessage

LEMMA UnknownAtItsPlace == \A bytes : AtItsPlace(ProcessUnknownMessage(bytes), bytes)
<1>1. InOrder(UnknownMessage, <<"Type">>)
  BY DEF InOrder, IsTuple, UnknownMessage, Char, Chars
<1>. QED
  BY <1>1, DecodeReads DEF ProcessUnknownMessage

LEMMA MessageAtItsPlace ==
    ASSUME NEW bytes
    PROVE  AtItsPlace(ProcessMessage(bytes), bytes)
<1>1. AtItsPlace(NoMessage, bytes)
  BY DEF AtItsPlace, NoMessage
<1>. QED
  BY <1>1, SystemEventAtItsPlace, StockDirectoryAtItsPlace, StockTradingActionAtItsPlace,
     RegSHOAtItsPlace, MarketParticipantPositionAtItsPlace, MWCBDeclineAtItsPlace,
     MWCBStatusAtItsPlace, IPOQuotingAtItsPlace, AddOrderAtItsPlace, AddOrderMPIDAtItsPlace,
     OrderExecutedAtItsPlace, OrderExecutedWithPriceAtItsPlace, OrderCancelAtItsPlace,
     OrderDeleteAtItsPlace, OrderReplaceAtItsPlace, TradeAtItsPlace, CrossTradeAtItsPlace,
     BrokenTradeAtItsPlace, NOIIAtItsPlace, RPIIAtItsPlace, LULDAuctionCollarAtItsPlace,
     UnknownAtItsPlace
     DEF ProcessMessage

\* What the application holds while the handler is in step.
LastHandled == inStep /\ position \in Frames \ Empty => message = Messages[position]

LEMMA LastHandledKeeps ==
    ASSUME LastHandled, TypeOK, [Stream!Next]_<<position, message, inStep>>
    PROVE  LastHandled'
<1>1. position \in Nat
  BY DEF TypeOK
<1>2. CASE Stream!Skip
  BY <1>1, <1>2 DEF Stream!Skip, LastHandled
<1>3. CASE Stream!Handle
  BY <1>1, <1>3 DEF Stream!Handle, LastHandled
<1>4. CASE Stream!LoseStep
  BY <1>4 DEF Stream!LoseStep, LastHandled
<1>5. CASE UNCHANGED <<position, message, inStep>>
  BY <1>5 DEF LastHandled
<1>. QED
  BY <1>2, <1>3, <1>4, <1>5 DEF Stream!Next

LEMMA LastHandledIsInPlace ==
    ASSUME LastHandled
    PROVE  FieldsAreAtTheirPlace
<1>. SUFFICES ASSUME inStep, position \in Frames \ Empty, NEW j \in DOMAIN message.struct
              PROVE  message.fields[message.struct[j][1]] =
                         Read(message.struct[j], Offset(message.struct, j), Body(position))
  BY DEF FieldsAreAtTheirPlace
<1>1. message = ProcessMessage(Body(position))
  BY DEF LastHandled, Messages
<1>. QED
  BY <1>1, MessageAtItsPlace DEF AtItsPlace

\* Whatever is sent, and wherever the buffers are cut, the application is handed every
\* member of a message from its own place in the message: no decoder reads members in
\* another order than they are sent in, and none reads at an offset of its own
\* (itch_handler.cpp:165-622).
THEOREM FieldsInPlace == Spec => []FieldsAreAtTheirPlace
<1>1. Init => LastHandled
  BY DEF Init, LastHandled, Frames
<1>2. LastHandled /\ IInv /\ [Next]_vars => LastHandled'
  BY StepImplements, LastHandledKeeps DEF IInv
<1>3. LastHandled => FieldsAreAtTheirPlace
  BY LastHandledIsInPlace
<1>. QED
  BY <1>1, <1>2, <1>3, InvariantHolds, PTL DEF Spec
=============================================================================
