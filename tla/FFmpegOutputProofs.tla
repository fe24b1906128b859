------------------------- MODULE FFmpegOutputProofs -------------------------
(***************************************************************************)
(* What the pipeline guarantees for every length of the queues, number of  *)
(* frames that FFmpeg keeps, set of buffers and timestamps.                *)
(***************************************************************************)
EXTENDS FFmpegOutput, SequenceTheorems, FiniteSetTheorems, TLAPS

-----------------------------------------------------------------------------
(* The inductive invariant.                                                *)

\* The elements of a sequence of frames.
Elems(q) == {q[i] : i \in DOMAIN q}

\* Frame x may be ahead of frame y: its timestamp is earlier, if that matters,
\* and they have no buffer of the stream in common.
Ahead(x, y) ==
  /\ Strict => x.pts < y.pts
  /\ x.buffer # y.buffer \/ x.buffer = "gpu"

\* All frames of A are ahead of all of B, and each of a sequence is ahead of the
\* next ones.
Before(A, B) == \A x \in A, y \in B : Ahead(x, y)
Chain(q) == \A i, j \in DOMAIN q : i < j => Ahead(q[i], q[j])

\* The frames that stage s has.
All(s) == Elems(inner[s]) \cup Elems(cur[s]) \cup Elems(queue[s])

\* A stage has its frames in order if those inside FFmpeg are i, the one in hand
\* c, and those that wait q.
Ordered(i, c, q) ==
  /\ Chain(i) /\ Chain(q)
  /\ Before(Elems(i), Elems(c))
  /\ Before(Elems(i) \cup Elems(c), Elems(q))

StageOrdered(s) == Ordered(inner[s], cur[s], queue[s])

\* So are those of the stages, and none is later than lastPts.
OrderInv ==
  /\ \A s \in Stages : StageOrdered(s)
  /\ Before(All("encoder"), All("scaler"))
  /\ Strict => \A x \in All("encoder") \cup All("scaler") : x.pts <= lastPts

\* Exactly the buffers of the scaler's frames are lent.
BuffersIn(A) == {x.buffer : x \in A}
LentInv == lent = BuffersIn(All("scaler"))

\* The length of the queues, and how many frames a stage has besides.
LengthInv ==
  \A s \in Stages :
    /\ Len(queue[s]) <= Capacity
    /\ Len(inner[s]) <= Depth[s] + IF thread[s] \in {"dequeue", "add"} THEN 0 ELSE 1

\* How far the destructor got: the threads that it has joined have ended, and
\* nothing is left in a scaler that it destroyed.
DestructionInv ==
  /\ closing >= 2 =>
       thread["scaler"] = "ended" /\ inner["scaler"] = <<>> /\ queue["scaler"] = <<>>
  /\ closing >= 3 => thread["encoder"] = "ended"

\* The sequences of frames are those of the stages.
OfStages(f) == f = [s \in Stages |-> f[s]]
ShapeInv == OfStages(queue) /\ OfStages(cur) /\ OfStages(inner)

IInv ==
  /\ TypeOK
  /\ ShapeInv
  /\ OrderInv
  /\ LentInv
  /\ LengthInv
  /\ DestructionInv

-----------------------------------------------------------------------------
(* Sequences of frames.                                                    *)

\* The elements of a sequence that is empty, a single frame, or a concatenation.
LEMMA ElemsOf ==
  ASSUME NEW T
  PROVE  /\ Elems(<<>>) = {}
         /\ \A x \in T : Elems(<<x>>) = {x}
         /\ \A q, r \in Seq(T) : Elems(q \o r) = Elems(q) \cup Elems(r)
         /\ \A q \in Seq(T) : Elems(q) \subseteq T
<1>1. Elems(<<>>) = {}
  BY DEF Elems
<1>2. \A x \in T : Elems(<<x>>) = {x}
  BY DEF Elems
<1>3. ASSUME NEW q \in Seq(T) PROVE DOMAIN q = 1 .. Len(q) /\ Len(q) \in Nat /\ Elems(q) \subseteq T
  BY LenProperties, ElementOfSeq DEF Elems
<1>4. ASSUME NEW q \in Seq(T), NEW r \in Seq(T)
      PROVE  Elems(q \o r) = Elems(q) \cup Elems(r)
  <2>1. /\ q \o r \in Seq(T) /\ DOMAIN (q \o r) = 1 .. Len(q) + Len(r)
        /\ \A i \in 1 .. Len(q) + Len(r) :
             (q \o r)[i] = IF i <= Len(q) THEN q[i] ELSE r[i - Len(q)]
    BY ConcatProperties, LenProperties
  <2>2. ASSUME NEW x \in Elems(q \o r) PROVE x \in Elems(q) \cup Elems(r)
    <3>1. PICK i \in 1 .. Len(q) + Len(r) : x = (q \o r)[i]
      BY <2>1, <2>2 DEF Elems
    <3>2. i \in 1 .. Len(q) \/ i - Len(q) \in 1 .. Len(r)
      BY <1>3
    <3> QED BY <1>3, <2>1, <3>1, <3>2 DEF Elems
  <2>3. ASSUME NEW x \in Elems(q) PROVE x \in Elems(q \o r)
    <3>1. PICK i \in 1 .. Len(q) : x = q[i]
      BY <1>3, <2>3 DEF Elems
    <3>2. i \in 1 .. Len(q) + Len(r) /\ i <= Len(q)
      BY <1>3
    <3> QED BY <2>1, <3>1, <3>2 DEF Elems
  <2>4. ASSUME NEW x \in Elems(r) PROVE x \in Elems(q \o r)
    <3>1. PICK i \in 1 .. Len(r) : x = r[i]
      BY <1>3, <2>4 DEF Elems
    <3>2. i + Len(q) \in 1 .. Len(q) + Len(r) /\ ~(i + Len(q) <= Len(q)) /\ (i + Len(q)) - Len(q) = i
      BY <1>3
    <3> QED BY <2>1, <3>1, <3>2 DEF Elems
  <2> QED BY <2>2, <2>3, <2>4
<1> QED BY <1>1, <1>2, <1>3, <1>4

\* The first frame of a chain is ahead of the others, which are a chain.
LEMMA ChainTail ==
  ASSUME NEW T, NEW q \in Seq(T), q # <<>>
  PROVE  /\ Head(q) \in T /\ Tail(q) \in Seq(T) /\ Len(Tail(q)) = Len(q) - 1
         /\ Elems(q) = {Head(q)} \cup Elems(Tail(q))
         /\ Chain(q) => Chain(Tail(q)) /\ Before({Head(q)}, Elems(Tail(q)))
<1>1. /\ Len(q) \in Nat \ {0} /\ DOMAIN q = 1 .. Len(q)
      /\ Head(q) \in T /\ Head(q) = q[1]
      /\ Tail(q) \in Seq(T) /\ Len(Tail(q)) = Len(q) - 1
      /\ DOMAIN Tail(q) = 1 .. Len(q) - 1
      /\ \A i \in 1 .. Len(q) - 1 : Tail(q)[i] = q[i + 1] /\ i + 1 \in 1 .. Len(q)
  BY EmptySeq, LenProperties, HeadTailProperties
<1>2. Elems(q) = {Head(q)} \cup Elems(Tail(q))
  <2>1. ASSUME NEW x \in Elems(q) PROVE x \in {Head(q)} \cup Elems(Tail(q))
    <3>1. PICK i \in 1 .. Len(q) : x = q[i]
      BY <1>1, <2>1 DEF Elems
    <3>2. i = 1 \/ (i - 1 \in 1 .. Len(q) - 1 /\ (i - 1) + 1 = i)
      BY <1>1
    <3> QED BY <1>1, <3>1, <3>2 DEF Elems
  <2>2. ASSUME NEW x \in Elems(Tail(q)) PROVE x \in Elems(q)
    BY <1>1, <2>2 DEF Elems
  <2>3. Head(q) \in Elems(q)
    BY <1>1 DEF Elems
  <2> QED BY <2>1, <2>2, <2>3
<1>3. ASSUME Chain(q) PROVE Chain(Tail(q)) /\ Before({Head(q)}, Elems(Tail(q)))
  <2>1. ASSUME NEW i \in DOMAIN Tail(q), NEW j \in DOMAIN Tail(q), i < j
        PROVE  Ahead(Tail(q)[i], Tail(q)[j])
    <3>1. i + 1 \in DOMAIN q /\ j + 1 \in DOMAIN q /\ i + 1 < j + 1
      BY <1>1, <2>1
    <3> QED BY <1>1, <1>3, <2>1, <3>1 DEF Chain
  <2>2. ASSUME NEW x \in Elems(Tail(q)) PROVE Ahead(Head(q), x)
    <3>1. PICK i \in 1 .. Len(q) - 1 : x = Tail(q)[i]
      BY <1>1, <2>2 DEF Elems
    <3>2. 1 \in DOMAIN q /\ i + 1 \in DOMAIN q /\ 1 < i + 1
      BY <1>1
    <3> QED BY <1>1, <1>3, <3>1, <3>2 DEF Chain
  <2> QED BY <2>1, <2>2 DEF Chain, Before
<1> QED BY <1>1, <1>2, <1>3

\* Two chains, one of which is ahead of the other, make a chain.
LEMMA ChainConcat ==
  ASSUME NEW T, NEW q \in Seq(T), NEW r \in Seq(T),
         Chain(q), Chain(r), Before(Elems(q), Elems(r))
  PROVE  Chain(q \o r)
<1>1. /\ Len(q) \in Nat /\ Len(r) \in Nat /\ DOMAIN q = 1 .. Len(q) /\ DOMAIN r = 1 .. Len(r)
      /\ DOMAIN (q \o r) = 1 .. Len(q) + Len(r)
      /\ \A i \in 1 .. Len(q) + Len(r) :
           (q \o r)[i] = IF i <= Len(q) THEN q[i] ELSE r[i - Len(q)]
  BY ConcatProperties, LenProperties
<1> SUFFICES ASSUME NEW i \in 1 .. Len(q) + Len(r), NEW j \in 1 .. Len(q) + Len(r), i < j
             PROVE  Ahead((q \o r)[i], (q \o r)[j])
  BY <1>1 DEF Chain
<1>2. CASE j <= Len(q)
  BY <1>1, <1>2 DEF Chain
<1>3. CASE i <= Len(q) /\ ~(j <= Len(q))
  <2>1. i \in DOMAIN q /\ j - Len(q) \in DOMAIN r
    BY <1>1, <1>3
  <2>2. q[i] \in Elems(q) /\ r[j - Len(q)] \in Elems(r)
    BY <2>1 DEF Elems
  <2> QED BY <1>1, <1>3, <2>2 DEF Before
<1>4. CASE ~(i <= Len(q))
  <2>1. i - Len(q) \in DOMAIN r /\ j - Len(q) \in DOMAIN r /\ i - Len(q) < j - Len(q)
        /\ ~(j <= Len(q))
    BY <1>1, <1>4
  <2> QED BY <1>1, <1>4, <2>1 DEF Chain
<1> QED BY <1>1, <1>2, <1>3, <1>4

\* A sequence of at most one frame is a chain.
LEMMA ShortChain ==
  ASSUME NEW T, NEW q \in Seq(T), Len(q) <= 1
  PROVE  Chain(q) /\ (q = <<>> \/ \E x \in T : q = <<x>>)
<1>1. Len(q) \in Nat /\ DOMAIN q = 1 .. Len(q)
  BY LenProperties
<1>2. Chain(q)
  BY <1>1 DEF Chain
<1>3. CASE Len(q) = 0
  BY <1>2, <1>3, EmptySeq
<1>4. CASE Len(q) = 1
  BY <1>2, <1>4
<1> QED BY <1>1, <1>3, <1>4

\* enqueue() of a frame that the queued ones are ahead of.
LEMMA EnqueueProperties ==
  ASSUME NEW T, NEW q \in Seq(T), NEW x \in T, Len(q) <= Capacity
  PROVE  /\ Enqueue(q, x) \in Seq(T)
         /\ Len(Enqueue(q, x)) <= Capacity
         /\ Elems(Enqueue(q, x)) \subseteq Elems(q) \cup {x}
         /\ Chain(q) /\ Before(Elems(q), {x}) => Chain(Enqueue(q, x))
<1> DEFINE r == Append(q, x)
<1>1. /\ r \in Seq(T) /\ r = q \o <<x>> /\ Len(r) = Len(q) + 1 /\ r # <<>>
      /\ Len(q) \in Nat /\ Capacity \in Nat
  BY AppendProperties, AppendIsConcat, LenProperties, PipelineAssumption
<1>2. /\ <<x>> \in Seq(T) /\ Len(<<x>>) = 1 /\ DOMAIN <<x>> = 1 .. 1 /\ <<x>>[1] = x
  OBVIOUS
<1>3. Chain(<<x>>) /\ Elems(<<x>>) = {x}
  BY <1>2 DEF Chain, Elems
<1> DEFINE one == <<x>>
<1>4. one \in Seq(T) /\ Chain(one) /\ Elems(one) = {x} /\ r = q \o one
  BY <1>1, <1>2, <1>3
<1> HIDE DEF r, one
<1>5. Elems(r) = Elems(q) \cup {x}
  <2>1. Elems(q \o one) = Elems(q) \cup Elems(one)
    BY <1>4, ElemsOf
  <2> QED BY <1>4, <2>1
<1>6. ASSUME Chain(q), Before(Elems(q), {x}) PROVE Chain(r)
  BY <1>4, <1>6, ChainConcat
<1>7. CASE Len(q) < Capacity
  <2>1. Enqueue(q, x) = r
    BY <1>7 DEF Enqueue, r
  <2> QED BY <1>1, <1>5, <1>6, <1>7, <2>1
<1>8. CASE ~(Len(q) < Capacity)
  <2>1. Enqueue(q, x) = Tail(r)
    BY <1>8 DEF Enqueue, r
  <2>2. /\ Tail(r) \in Seq(T) /\ Len(Tail(r)) = Len(r) - 1
        /\ Elems(Tail(r)) \subseteq Elems(r) /\ (Chain(r) => Chain(Tail(r)))
    BY <1>1, ChainTail
  <2> QED BY <1>1, <1>5, <1>6, <1>8, <2>1, <2>2
<1> QED BY <1>7, <1>8

-----------------------------------------------------------------------------
(* Frames, stages and members.                                             *)

\* What a frame of stage s is.
FrameType(s) == IF s = "scaler" THEN Frames ELSE GpuFrames

\* A frame is in a buffer of the stream until it is scaled, which keeps its
\* timestamp.
LEMMA FrameProperties ==
  /\ \A f \in Frames : f.pts \in Nat /\ f.buffer \in Buffers /\ f.buffer # "gpu"
  /\ \A f \in GpuFrames : f.pts \in Nat /\ f.buffer = "gpu"
  /\ \A f \in Frames : Scaled(f) \in GpuFrames /\ Scaled(f).pts = f.pts
<1>1. ASSUME NEW f \in Frames
      PROVE  f.pts \in Nat /\ f.buffer \in Buffers /\ f.buffer # "gpu"
  <2>1. PICK b \in Buffers, t \in Times : f = Wrapped(b, t)
    BY DEF Frames
  <2>2. t \in Nat /\ t \div 1000 \in Nat
    BY PipelineAssumption
  <2> QED BY <2>1, <2>2, BuffersAssumption DEF Wrapped
<1>2. ASSUME NEW f \in GpuFrames PROVE f.pts \in Nat /\ f.buffer = "gpu"
  BY <1>1 DEF GpuFrames
<1>3. ASSUME NEW f \in Frames PROVE Scaled(f) \in GpuFrames /\ Scaled(f).pts = f.pts
  BY DEF GpuFrames, Scaled
<1> QED BY <1>1, <1>2, <1>3

\* The destructor turns to the scaler, the encoder and the muxer in this order.
LEMMA DestructionProperties ==
  ASSUME closing \in 0 .. Len(DestructionOrder) + 1
  PROVE  /\ closing \in 0 .. 4
         /\ Destroying("scaler") <=> closing = 1
         /\ Destroying("encoder") <=> closing = 2
         /\ Destroying("muxer") <=> closing = 3
         /\ Exists("scaler") <=> closing <= 1
         /\ Exists("encoder") <=> closing <= 2
         /\ Exists("muxer") <=> closing <= 3
         /\ Destroyed <=> closing = 4
<1>1. /\ Len(DestructionOrder) = 3 /\ DOMAIN DestructionOrder = 1 .. 3
      /\ DestructionOrder[1] = "scaler" /\ DestructionOrder[2] = "encoder"
      /\ DestructionOrder[3] = "muxer"
  BY DEF DestructionOrder
<1>2. closing \in 0 .. 4 /\ 1 .. 3 = {1, 2, 3}
  BY <1>1
<1>3. /\ Destroying("scaler") <=> closing = 1
      /\ Destroying("encoder") <=> closing = 2
      /\ Destroying("muxer") <=> closing = 3
  BY <1>1, <1>2 DEF Destroying
<1>4. /\ Exists("scaler") <=> closing <= 1
      /\ Exists("encoder") <=> closing <= 2
      /\ Exists("muxer") <=> closing <= 3
  BY <1>1, <1>2 DEF Exists
<1>5. Destroyed <=> closing = 4
  BY <1>1, <1>2 DEF Destroyed
<1> QED BY <1>2, <1>3, <1>4, <1>5

\* The frames of a stage have the type of the stage.
LEMMA StageTypes ==
  ASSUME TypeOK, NEW s \in Stages
  PROVE  /\ queue[s] \in Seq(FrameType(s)) /\ cur[s] \in Seq(FrameType(s))
         /\ inner[s] \in Seq(FrameType(s))
         /\ FrameType("scaler") = Frames /\ FrameType("encoder") = GpuFrames
         /\ All(s) \subseteq FrameType(s)
<1>1. /\ queue[s] \in Seq(FrameType(s)) /\ cur[s] \in Seq(FrameType(s))
      /\ inner[s] \in Seq(FrameType(s))
  BY DEF TypeOK, FrameType
<1>2. FrameType("scaler") = Frames /\ FrameType("encoder") = GpuFrames
  BY DEF FrameType
<1>3. All(s) \subseteq FrameType(s)
  BY <1>1, ElemsOf DEF All
<1> QED BY <1>1, <1>2, <1>3

-----------------------------------------------------------------------------
(* Units of time.                                                          *)

\* Integer division is monotonic, and strictly so for numbers that are as far
\* apart as the divisor.
LEMMA DivMonotonic ==
  ASSUME NEW a \in Nat, NEW b \in Nat, NEW d \in Nat \ {0}, a <= b
  PROVE  /\ a \div d \in Nat /\ a \div d <= b \div d
         /\ a + d <= b => a \div d < b \div d
<1> DEFINE q == a \div d
           r == b \div d
<1>1. q \in Nat /\ r \in Nat /\ d * q <= a /\ b < d * (r + 1)
  BY SMTT(30)
<1>2. d * q < d * (r + 1)
  BY <1>1
<1> HIDE DEF q, r
<1>3. q < r + 1
  BY <1>1, <1>2, SMTT(30)
<1>4. ASSUME a + d <= b PROVE q < r
  <2>1. d * (q + 1) = d * q + d
    BY <1>1
  <2>2. d * (q + 1) < d * (r + 1)
    BY <1>1, <1>4, <2>1
  <2>3. q + 1 < r + 1
    BY <1>1, <2>2, SMTT(30)
  <2> QED BY <1>1, <2>3
<1> QED BY <1>1, <1>3, <1>4 DEF q, r

\* Multiplication is monotonic, and numbers that differ are at least as far apart
\* as the factor.
LEMMA TimesMonotonic ==
  ASSUME NEW p \in Nat, NEW r \in Nat, NEW k \in Nat, p <= r
  PROVE  /\ p * k \in Nat /\ r * k \in Nat /\ p * k <= r * k
         /\ p < r => p * k + k <= r * k
<1>1. PICK e \in Nat : r = p + e
  BY r - p \in Nat, r = p + (r - p)
<1>2. r * k = p * k + e * k /\ p * k \in Nat /\ e * k \in Nat
  BY <1>1
<1>3. ASSUME p < r PROVE k <= e * k
  <2>1. PICK c \in Nat : e = c + 1
    BY <1>1, <1>3, e - 1 \in Nat, e = (e - 1) + 1
  <2>2. e * k = c * k + k /\ c * k \in Nat
    BY <2>1
  <2> QED BY <2>2
<1> QED BY <1>2, <1>3

\* The output counts time in units that are as fine as those of the codec.
FineUnit == CodecTimeBase.den * TimeBase.num <= CodecTimeBase.num * TimeBase.den

\* Rescaling keeps the order of timestamps, but maps no two to the same unit of
\* time only if the unit is as fine as theirs.
LEMMA RescaledProperties ==
  ASSUME NEW p \in Nat, NEW r \in Nat, p <= r
  PROVE  /\ Rescaled(p) \in Nat /\ Rescaled(p) <= Rescaled(r)
         /\ FineUnit /\ p < r => Rescaled(p) < Rescaled(r)
<1> DEFINE k == CodecTimeBase.num * TimeBase.den
           d == CodecTimeBase.den * TimeBase.num
           a == p * k
           b == r * k
<1>1. k \in Nat /\ d \in Nat \ {0}
  BY PipelineAssumption DEF CodecTimeBase
<1>2. Rescaled(p) = (2 * a + d) \div (2 * d) /\ Rescaled(r) = (2 * b + d) \div (2 * d)
  BY DEF Rescaled
<1>3. FineUnit => d <= k
  BY DEF FineUnit
<1> HIDE DEF k, d
<1>4. a \in Nat /\ b \in Nat /\ a <= b /\ (p < r => a + k <= b)
  BY <1>1, TimesMonotonic
<1> HIDE DEF a, b
<1>5. 2 * a + d \in Nat /\ 2 * b + d \in Nat /\ 2 * d \in Nat \ {0} /\ 2 * a + d <= 2 * b + d
  BY <1>1, <1>4
<1>6. FineUnit /\ p < r => (2 * a + d) + 2 * d <= 2 * b + d
  BY <1>1, <1>3, <1>4
<1> QED BY <1>2, <1>5, <1>6, DivMonotonic

-----------------------------------------------------------------------------
(* The types.                                                              *)

\* TypeOK by its parts: the frames in the stages, the threads, and the rest.
FramesTyped ==
  \A s \in Stages :
    /\ queue[s] \in Seq(FrameType(s)) /\ cur[s] \in Seq(FrameType(s))
    /\ inner[s] \in Seq(FrameType(s))
    /\ Len(cur[s]) = IF thread[s] = "add" THEN 1 ELSE 0

Labels == {"dequeue", "add", "extract", "thrown", "ended"}

ControlTyped ==
  /\ eof \in [Stages -> BOOLEAN]
  /\ thread \in [Stages -> Labels]
  /\ exc \in [Stages -> BOOLEAN]
  /\ threw \in BOOLEAN
  /\ closing \in 0 .. 4

ValuesTyped ==
  /\ lent \subseteq Buffers
  /\ lastPts \in {f.pts : f \in Frames} \cup {0}
  /\ written \in Int

\* TypeOK says what its parts say.
LEMMA TypeParts == TypeOK <=> FramesTyped /\ ControlTyped /\ ValuesTyped
<1>1. Len(DestructionOrder) + 1 = 4
  BY DEF DestructionOrder
<1> QED BY <1>1 DEF TypeOK, FramesTyped, ControlTyped, ValuesTyped, FrameType, Labels

\* What the operators that the model is built from return.
LEMMA SequenceTypes ==
  ASSUME NEW T, NEW q \in Seq(T)
  PROVE  /\ <<>> \in Seq(T) /\ Len(<<>>) = 0
         /\ Len(q) \in Nat /\ (Len(q) = 0 <=> q = <<>>)
         /\ \A x \in T : <<x>> \in Seq(T) /\ Len(<<x>>) = 1
         /\ q # <<>> => Head(q) \in T /\ Tail(q) \in Seq(T) /\ Len(Tail(q)) = Len(q) - 1
         /\ \A x \in T : Enqueue(q, x) \in Seq(T)
         /\ \A r \in Seq(T) : q \o r \in Seq(T) /\ Len(q \o r) = Len(q) + Len(r)
<1>1. <<>> \in Seq(T) /\ Len(<<>>) = 0 /\ Len(q) \in Nat /\ (Len(q) = 0 <=> q = <<>>)
  BY LenProperties, EmptySeq
<1>2. \A x \in T : <<x>> \in Seq(T) /\ Len(<<x>>) = 1
  OBVIOUS
<1>3. q # <<>> => Head(q) \in T /\ Tail(q) \in Seq(T) /\ Len(Tail(q)) = Len(q) - 1
  BY HeadTailProperties
<1>4. ASSUME NEW x \in T PROVE Enqueue(q, x) \in Seq(T)
  <2>1. Append(q, x) \in Seq(T) /\ Append(q, x) # <<>>
    BY AppendProperties
  <2>2. Tail(Append(q, x)) \in Seq(T)
    BY <2>1, HeadTailProperties
  <2> QED BY <2>1, <2>2 DEF Enqueue
<1>5. \A r \in Seq(T) : q \o r \in Seq(T) /\ Len(q \o r) = Len(q) + Len(r)
  BY ConcatProperties
<1> QED BY <1>1, <1>2, <1>3, <1>4, <1>5

\* The initial states have the types.
LEMMA TypeInit == Init => TypeOK /\ ShapeInv
<1> SUFFICES ASSUME Init PROVE TypeOK /\ ShapeInv
  OBVIOUS
<1>1. FramesTyped
  BY SequenceTypes, EmptySeq DEF Init, FramesTyped
<1>2. ControlTyped
  <2>1. closing \in 0 .. 4
    BY DEF Init
  <2>2. threw \in BOOLEAN /\ eof \in [Stages -> BOOLEAN] /\ exc \in [Stages -> BOOLEAN]
    BY Zenon DEF Init
  <2>3. thread \in [Stages -> Labels]
    BY Zenon DEF Init, Labels
  <2> QED BY <2>1, <2>2, <2>3 DEF ControlTyped
<1>3. ValuesTyped
  BY DEF Init, ValuesTyped
<1>4. ShapeInv
  BY DEF Init, ShapeInv, OfStages
<1> QED BY <1>1, <1>2, <1>3, <1>4, TypeParts

\* Every step keeps the types of the variables that hold no frames.
LEMMA ControlNext ==
  ASSUME TypeOK, Next
  PROVE  ControlTyped'
<1> USE DEF ControlTyped, Labels, outputVars, stageVars, Goto
<1>1. ControlTyped
  BY TypeParts
<1>2. ASSUME NEW f \in Frames, PushFrame(f) \/ PushFrameThrows(f) PROVE ControlTyped'
  BY <1>1, <1>2 DEF PushFrame, PushFrameThrows
<1>3. ASSUME NEW s \in Stages, StageThread(s) PROVE ControlTyped'
  BY <1>1, <1>3, Zenon DEF StageThread, Dequeue, DequeueEnd, Add, AddFails, ExtractNothing,
     ExtractFails, ScalingDone, ScalingDoneThrows, WritePacket, WritePacketThrows, Catch, Stages
<1>4. CASE DestroyBegin
  BY <1>1, <1>4 DEF DestroyBegin
<1>5. CASE Destroy
  <2>0. closing \in 0 .. Len(DestructionOrder) + 1
    BY DEF TypeOK
  <2>1. ASSUME NEW s \in Stages, SignalEOF(s) PROVE ControlTyped'
    BY <1>1, <2>1 DEF SignalEOF
  <2>2. ASSUME NEW s \in Stages, DestroyStage(s) PROVE ControlTyped'
    BY <1>1, <2>0, <2>2, DestructionProperties DEF DestroyStage, Join, Stages
  <2>3. CASE DestroyMuxer
    BY <1>1, <2>0, <2>3, DestructionProperties DEF DestroyMuxer
  <2> QED BY <1>5, <2>1, <2>2, <2>3 DEF Destroy
<1>6. CASE Finished
  BY <1>1, <1>6 DEF Finished, vars
<1> QED BY <1>2, <1>3, <1>4, <1>5, <1>6 DEF Next, Caller

\* Every step keeps those of the others.
LEMMA ValuesNext ==
  ASSUME TypeOK, Next
  PROVE  ValuesTyped'
<1> USE DEF ValuesTyped, outputVars, stageVars
<1>1. ValuesTyped /\ FramesTyped
  BY TypeParts
<1>2. \A T : \A q \in Seq(T) : BuffersOf(q) = BuffersIn(Elems(q)) /\ Elems(q) \subseteq T
  BY ElemsOf DEF BuffersOf, BuffersIn, Elems
<1>3. ASSUME NEW f \in Frames, PushFrame(f) \/ PushFrameThrows(f) PROVE ValuesTyped'
  <2>1. lastPts' \in {g.pts : g \in Frames} \cup {0} /\ written' \in Int
    BY <1>1, <1>3 DEF PushFrame, PushFrameThrows, KeepPts
  <2>2. CASE PushFrame(f)
    <3>1. "scaler" \in Stages /\ FrameType("scaler") = Frames
      BY DEF Stages, FrameType
    <3> DEFINE q == Enqueue(queue["scaler"], f)
    <3>2. q \in Seq(Frames)
      BY <1>1, <3>1, SequenceTypes DEF FramesTyped
    <3> HIDE DEF q
    <3>3. BuffersOf(q) \subseteq Buffers
      BY <1>2, <3>2, FrameProperties DEF BuffersIn
    <3>4. lent' \subseteq lent \cup BuffersOf(queue'["scaler"])
      BY <2>2 DEF PushFrame
    <3>5. queue'["scaler"] = q \/ queue'["scaler"] = queue["scaler"]
      BY <2>2 DEF PushFrame, q
    <3>6. BuffersOf(queue["scaler"]) \subseteq Buffers
      BY <1>1, <1>2, <3>1, FrameProperties DEF BuffersIn, FramesTyped
    <3> QED BY <1>1, <2>1, <3>3, <3>4, <3>5, <3>6
  <2>3. CASE PushFrameThrows(f)
    BY <1>1, <2>1, <2>3 DEF PushFrameThrows
  <2> QED BY <1>3, <2>2, <2>3
<1>4. ASSUME NEW s \in Stages, StageThread(s) PROVE ValuesTyped'
  <2>1. lent' \subseteq lent /\ lastPts' = lastPts
    BY <1>4, Zenon DEF StageThread, Dequeue, DequeueEnd, Add, AddFails, ExtractNothing, Extract,
     ExtractFails, ScalingDone, ScalingDoneThrows, WritePacket, WritePacketThrows, Catch
  <2>2. written' \in Int
    <3>1. CASE WritePacket
      <4>1. inner["encoder"] # <<>> /\ inner["encoder"] \in Seq(GpuFrames)
        BY <1>1, <3>1 DEF WritePacket, Extract, FramesTyped, FrameType, Stages
      <4>2. Head(inner["encoder"]).pts \in Nat
        BY <4>1, SequenceTypes, FrameProperties
      <4>3. Rescaled(Head(inner["encoder"]).pts) \in Nat
        BY <4>2, RescaledProperties
      <4> QED BY <3>1, <4>3 DEF WritePacket
    <3>2. CASE ~WritePacket
      BY <1>1, <1>4, <3>2, Zenon DEF StageThread, Dequeue, DequeueEnd, Add, AddFails, ExtractNothing,
       ExtractFails, ScalingDone, ScalingDoneThrows, WritePacketThrows, Catch
    <3> QED BY <3>1, <3>2
  <2> QED BY <1>1, <2>1, <2>2
<1>5. CASE DestroyBegin \/ Destroy
  <2>1. lent' \subseteq lent /\ UNCHANGED <<lastPts, written>>
    BY <1>5, Zenon DEF DestroyBegin, Destroy, SignalEOF, DestroyStage, DestroyMuxer
  <2> QED BY <1>1, <2>1
<1>6. CASE Finished
  BY <1>1, <1>6 DEF Finished, vars
<1> QED BY <1>3, <1>4, <1>5, <1>6 DEF Next, Caller

\* A sequence of the frames that a stage has is replaced by another.
LEMMA Updated ==
  ASSUME NEW f, OfStages(f), NEW s \in Stages, NEW e
  PROVE  /\ OfStages([f EXCEPT ![s] = e])
         /\ [f EXCEPT ![s] = e][s] = e
         /\ \A t \in Stages : t # s => [f EXCEPT ![s] = e][t] = f[t]
BY DEF OfStages

\* Every step keeps the types of the frames that the stages have.
LEMMA FramesNext ==
  ASSUME TypeOK, ShapeInv, Next
  PROVE  FramesTyped' /\ ShapeInv'
<1> USE DEF ShapeInv, stageVars, outputVars
<1>0. FramesTyped /\ ControlTyped
  BY TypeParts
<1>1. ASSUME NEW s \in Stages
      PROVE  /\ thread[s] \in Labels
             /\ \A l \in Labels : Goto(s, l) =>
                  thread'[s] = l /\ \A t \in Stages : t # s => thread'[t] = thread[t]
  BY <1>0 DEF ControlTyped, Goto
<1>2. ASSUME NEW f \in Frames, PushFrame(f) PROVE FramesTyped' /\ ShapeInv'
  <2> DEFINE q == Enqueue(queue["scaler"], f)
  <2>1. "scaler" \in Stages /\ FrameType("scaler") = Frames
    BY DEF Stages, FrameType
  <2>2. q \in Seq(Frames)
    BY <1>0, <2>1, SequenceTypes DEF FramesTyped
  <2>3. queue' = [queue EXCEPT !["scaler"] = q] /\ UNCHANGED <<cur, inner, thread>>
    BY <1>2 DEF PushFrame
  <2> HIDE DEF q
  <2>4. ShapeInv'
    BY <2>1, <2>3, Updated DEF OfStages
  <2>5. queue'["scaler"] = q /\ \A t \in Stages : t # "scaler" => queue'[t] = queue[t]
    BY <2>1, <2>3, Updated
  <2> QED BY <1>0, <2>1, <2>2, <2>3, <2>4, <2>5 DEF FramesTyped
<1>3. ASSUME NEW f \in Frames, PushFrameThrows(f) PROVE FramesTyped' /\ ShapeInv'
  BY <1>0, <1>3 DEF PushFrameThrows, FramesTyped, OfStages
<1>4. ASSUME NEW s \in Stages, StageThread(s) PROVE FramesTyped' /\ ShapeInv'
  <2> DEFINE T == FrameType(s)
  <2>0. queue[s] \in Seq(T) /\ cur[s] \in Seq(T) /\ inner[s] \in Seq(T)
    BY <1>0 DEF FramesTyped
  <2> HIDE DEF T
  <2>1. CASE Dequeue(s)
    <3> DEFINE c == <<Head(queue[s])>>
               q == Tail(queue[s])
    <3>1. c \in Seq(T) /\ Len(c) = 1 /\ q \in Seq(T)
      BY <2>0, <2>1, SequenceTypes DEF Dequeue
    <3>2. cur' = [cur EXCEPT ![s] = c] /\ queue' = [queue EXCEPT ![s] = q] /\ inner' = inner
      BY <2>1 DEF Dequeue
    <3> HIDE DEF c, q
    <3>3. ShapeInv'
      BY <3>2, Updated DEF OfStages
    <3>4. /\ cur'[s] = c /\ queue'[s] = q
          /\ \A t \in Stages : t # s => cur'[t] = cur[t] /\ queue'[t] = queue[t]
      BY <3>2, Updated
    <3>5. thread'[s] = "add" /\ \A t \in Stages : t # s => thread'[t] = thread[t]
      BY <1>1, <2>1 DEF Dequeue, Labels
    <3> QED BY <1>0, <3>1, <3>2, <3>3, <3>4, <3>5 DEF FramesTyped, T
  <2>2. CASE Add(s) \/ AddFails(s)
    <3> DEFINE i == inner[s] \o cur[s]
    <3>1. i \in Seq(T) /\ <<>> \in Seq(T) /\ Len(<<>>) = 0
      BY <2>0, SequenceTypes
    <3>2. /\ cur' = [cur EXCEPT ![s] = <<>>] /\ queue' = queue
          /\ inner' = [inner EXCEPT ![s] = i] \/ inner' = inner
      BY <2>2 DEF Add, AddFails
    <3> HIDE DEF i
    <3>3. ShapeInv'
      BY <3>2, Updated DEF OfStages
    <3>4. /\ cur'[s] = <<>> /\ inner'[s] \in {i, inner[s]}
          /\ \A t \in Stages : t # s => cur'[t] = cur[t] /\ inner'[t] = inner[t]
      BY <3>2, Updated DEF OfStages
    <3>5. thread'[s] # "add" /\ \A t \in Stages : t # s => thread'[t] = thread[t]
      BY <1>1, <2>2 DEF Add, AddFails, Labels
    <3> QED BY <1>0, <2>0, <3>1, <3>2, <3>3, <3>4, <3>5 DEF FramesTyped, T
  <2>3. CASE DequeueEnd(s) \/ ExtractNothing(s) \/ ExtractFails(s) \/ Catch(s)
    <3>1. UNCHANGED <<queue, cur, inner>>
      BY <2>3 DEF DequeueEnd, ExtractNothing, ExtractFails, Catch
    <3>2. thread[s] # "add" /\ thread'[s] # "add" /\ \A t \in Stages : t # s => thread'[t] = thread[t]
      BY <1>1, <2>3 DEF DequeueEnd, ExtractNothing, ExtractFails, Catch, Labels
    <3> QED BY <1>0, <3>1, <3>2 DEF FramesTyped, OfStages
  <2>4. CASE Extract(s) /\ cur' = cur /\ (thread' = thread \/ Goto(s, "thrown"))
             /\ (queue' = queue \/ (s = "scaler" /\ ScalingDone))
    <3> DEFINE i == Tail(inner[s])
    <3>1. i \in Seq(T) /\ Head(inner[s]) \in T
      BY <2>0, <2>4, SequenceTypes DEF Extract
    <3>2. inner' = [inner EXCEPT ![s] = i]
      BY <2>4 DEF Extract
    <3> HIDE DEF i
    <3>3. OfStages(inner') /\ inner'[s] = i /\ \A t \in Stages : t # s => inner'[t] = inner[t]
      BY <3>2, Updated DEF OfStages
    <3>4. thread[s] = "extract" /\ thread'[s] # "add" /\ \A t \in Stages : t # s => thread'[t] = thread[t]
      BY <1>1, <2>4 DEF Extract, Labels
    <3>5. OfStages(queue') /\ \A t \in Stages : queue'[t] \in Seq(FrameType(t))
      <4>1. CASE queue' = queue
        BY <1>0, <4>1 DEF FramesTyped, OfStages
      <4>2. CASE s = "scaler" /\ ScalingDone
        <5> DEFINE x == Scaled(Head(inner["scaler"]))
                   q == Enqueue(queue["encoder"], x)
        <5>1. "encoder" \in Stages /\ FrameType("encoder") = GpuFrames /\ T = Frames
          BY <4>2 DEF Stages, FrameType, T
        <5>2. x \in GpuFrames
          BY <3>1, <4>2, <5>1, FrameProperties
        <5> HIDE DEF x
        <5>3. q \in Seq(GpuFrames)
          BY <1>0, <5>1, <5>2, SequenceTypes DEF FramesTyped
        <5>4. queue' = [queue EXCEPT !["encoder"] = q]
          BY <4>2 DEF ScalingDone, x
        <5> HIDE DEF q
        <5>5. /\ OfStages(queue') /\ queue'["encoder"] = q
              /\ \A t \in Stages : t # "encoder" => queue'[t] = queue[t]
          BY <5>1, <5>4, Updated DEF OfStages
        <5> QED BY <1>0, <5>1, <5>3, <5>5 DEF FramesTyped
      <4> QED BY <2>4, <4>1, <4>2
    <3>6. ShapeInv'
      BY <2>4, <3>3, <3>5 DEF OfStages
    <3> QED BY <1>0, <2>4, <3>1, <3>3, <3>4, <3>5, <3>6 DEF FramesTyped, T
  <2>5. s = "scaler" /\ (ScalingDone \/ ScalingDoneThrows) =>
          Extract(s) /\ cur' = cur /\ (thread' = thread \/ Goto(s, "thrown"))
          /\ (queue' = queue \/ (s = "scaler" /\ ScalingDone))
    BY DEF ScalingDone, ScalingDoneThrows
  <2>6. s = "encoder" /\ (WritePacket \/ WritePacketThrows) =>
          Extract(s) /\ cur' = cur /\ (thread' = thread \/ Goto(s, "thrown")) /\ queue' = queue
    BY DEF WritePacket, WritePacketThrows
  <2> QED BY <1>4, <2>1, <2>2, <2>3, <2>4, <2>5, <2>6 DEF StageThread
<1>5. ASSUME NEW s \in Stages, DestroyStage(s) PROVE FramesTyped' /\ ShapeInv'
  <2>1. <<>> \in Seq(FrameType(s)) /\ Len(<<>>) = 0
    BY EmptySeq
  <2>2. /\ inner' = [inner EXCEPT ![s] = <<>>] /\ queue' = [queue EXCEPT ![s] = <<>>]
        /\ UNCHANGED <<cur, thread>>
    BY <1>5 DEF DestroyStage
  <2>3. ShapeInv'
    BY <2>2, Updated DEF OfStages
  <2>4. /\ inner'[s] = <<>> /\ queue'[s] = <<>>
        /\ \A t \in Stages : t # s => inner'[t] = inner[t] /\ queue'[t] = queue[t]
    BY <2>2, Updated DEF OfStages
  <2> QED BY <1>0, <2>1, <2>2, <2>3, <2>4 DEF FramesTyped
<1>6. CASE UNCHANGED <<queue, cur, inner, thread>>
  BY <1>0, <1>6 DEF FramesTyped, OfStages
<1>7. DestroyBegin \/ DestroyMuxer \/ Finished \/ (\E s \in Stages : SignalEOF(s)) =>
        UNCHANGED <<queue, cur, inner, thread>>
  BY DEF DestroyBegin, DestroyMuxer, Finished, SignalEOF, vars
<1> QED BY <1>2, <1>3, <1>4, <1>5, <1>6, <1>7 DEF Next, Caller, Destroy

\* TypeOK, with the shape of the functions, is inductive.
LEMMA TypeNext == TypeOK /\ ShapeInv /\ [Next]_vars => TypeOK' /\ ShapeInv'
<1>1. ASSUME TypeOK, ShapeInv, Next PROVE TypeOK' /\ ShapeInv'
  <2>1. TypeOK' <=> FramesTyped' /\ ControlTyped' /\ ValuesTyped'
    BY TypeParts, PTL
  <2> QED BY <1>1, <2>1, ControlNext, ValuesNext, FramesNext
<1>2. ASSUME TypeOK, ShapeInv, UNCHANGED vars PROVE TypeOK' /\ ShapeInv'
  BY <1>2 DEF TypeOK, ShapeInv, OfStages, vars
<1> QED BY <1>1, <1>2

-----------------------------------------------------------------------------
(* The order of destruction, and the lengths.                              *)

\* A step of the thread of stage s is not one of a thread that has ended, and
\* leaves the sequences of the other stage alone; only the scaler's gives the
\* other stage a frame.
LEMMA ThreadSteps ==
  ASSUME TypeOK, ShapeInv, NEW s \in Stages, StageThread(s)
  PROVE  /\ thread[s] # "ended" /\ closing' = closing /\ eof' = eof /\ lastPts' = lastPts
         /\ \A t \in Stages : t # s =>
              thread'[t] = thread[t] /\ inner'[t] = inner[t] /\ cur'[t] = cur[t]
         /\ \A t \in Stages : t # s /\ ~(s = "scaler" /\ ScalingDone) => queue'[t] = queue[t]
<1> USE DEF Extract, outputVars
<1>1. thread \in [Stages -> Labels]
  BY TypeParts DEF ControlTyped
<1>2. OfStages(queue) /\ OfStages(cur) /\ OfStages(inner)
  BY DEF ShapeInv
<1>3. \A l : Goto(s, l) => \A t \in Stages : t # s => thread'[t] = thread[t]
  BY <1>1 DEF Goto
<1>4. /\ thread[s] # "ended" /\ closing' = closing /\ eof' = eof /\ lastPts' = lastPts
      /\ thread' = thread \/ (\E l : Goto(s, l))
      /\ inner' = inner \/ (\E x : inner' = [inner EXCEPT ![s] = x])
      /\ cur' = cur \/ (\E x : cur' = [cur EXCEPT ![s] = x])
      /\ ~(s = "scaler" /\ ScalingDone) =>
           queue' = queue \/ (\E x : queue' = [queue EXCEPT ![s] = x])
  <2>1. CASE Dequeue(s) \/ DequeueEnd(s)
    BY <2>1, Zenon DEF Dequeue, DequeueEnd
  <2>2. CASE Add(s) \/ AddFails(s)
    BY <2>2, Zenon DEF Add, AddFails
  <2>3. CASE ExtractNothing(s) \/ ExtractFails(s) \/ Catch(s)
    BY <2>3, Zenon DEF ExtractNothing, ExtractFails, Catch
  <2>4. CASE s = "scaler" /\ (ScalingDone \/ ScalingDoneThrows)
    BY <2>4, Zenon DEF ScalingDone, ScalingDoneThrows
  <2>5. CASE s = "encoder" /\ (WritePacket \/ WritePacketThrows)
    BY <2>5, Zenon DEF WritePacket, WritePacketThrows
  <2> QED BY <2>1, <2>2, <2>3, <2>4, <2>5 DEF StageThread
<1>6. \A t \in Stages : t # s => thread'[t] = thread[t]
  BY <1>3, <1>4
<1>7. \A t \in Stages : t # s => inner'[t] = inner[t]
  BY <1>2, <1>4 DEF OfStages
<1>8. \A t \in Stages : t # s => cur'[t] = cur[t]
  BY <1>2, <1>4 DEF OfStages
<1>9. \A t \in Stages : t # s /\ ~(s = "scaler" /\ ScalingDone) => queue'[t] = queue[t]
  BY <1>2, <1>4 DEF OfStages
<1> QED BY <1>4, <1>6, <1>7, <1>8, <1>9

\* A thread that was joined has ended for good.
LEMMA DestructionNext ==
  ASSUME TypeOK, ShapeInv, DestructionInv, Next
  PROVE  DestructionInv'
<1>0. closing \in 0 .. Len(DestructionOrder) + 1 /\ closing \in 0 .. 4
  BY DestructionProperties DEF TypeOK
<1>1. CASE Caller \/ DestroyBegin
  BY <1>0, <1>1 DEF Caller, PushFrame, PushFrameThrows, DestroyBegin, DestructionInv
<1>2. ASSUME NEW s \in Stages, StageThread(s) PROVE DestructionInv'
  <2>1. CASE s = "scaler"
    <3>1. closing' = closing /\ ~(closing >= 2) /\ thread'["encoder"] = thread["encoder"]
      BY <1>2, <2>1, ThreadSteps DEF DestructionInv, Stages
    <3> QED BY <1>0, <3>1 DEF DestructionInv
  <2>2. CASE s = "encoder"
    <3>1. /\ closing' = closing /\ ~(closing >= 3) /\ thread'["scaler"] = thread["scaler"]
          /\ inner'["scaler"] = inner["scaler"] /\ queue'["scaler"] = queue["scaler"]
      BY <1>2, <2>2, ThreadSteps DEF DestructionInv, Stages
    <3> QED BY <1>0, <3>1 DEF DestructionInv
  <2> QED BY <2>1, <2>2 DEF Stages
<1>3. ASSUME NEW s \in Stages, SignalEOF(s) PROVE DestructionInv'
  BY <1>3 DEF SignalEOF, DestructionInv, outputVars
<1>4. ASSUME NEW s \in Stages, DestroyStage(s) PROVE DestructionInv'
  <2>1. /\ inner' = [inner EXCEPT ![s] = <<>>] /\ queue' = [queue EXCEPT ![s] = <<>>]
        /\ closing' = closing + 1 /\ thread' = thread /\ thread[s] = "ended"
    BY <1>4 DEF DestroyStage, Join
  <2>2. /\ inner'[s] = <<>> /\ queue'[s] = <<>>
        /\ \A t \in Stages : t # s => inner'[t] = inner[t] /\ queue'[t] = queue[t]
    BY <2>1, Updated DEF OfStages, ShapeInv
  <2>3. (s = "scaler" /\ closing = 1) \/ (s = "encoder" /\ closing = 2)
    BY <1>0, <1>4, DestructionProperties DEF DestroyStage, Join, Stages
  <2> QED BY <1>0, <2>1, <2>2, <2>3 DEF DestructionInv, Stages
<1>5. CASE DestroyMuxer
  <2>1. closing = 3 /\ closing' = 4 /\ UNCHANGED stageVars
    BY <1>0, <1>5, DestructionProperties DEF DestroyMuxer
  <2> QED BY <2>1 DEF stageVars, DestructionInv
<1>6. CASE Finished
  BY <1>6 DEF Finished, vars, DestructionInv
<1> QED BY <1>1, <1>2, <1>3, <1>4, <1>5, <1>6 DEF Next, Destroy

\* A queue is never longer than Capacity, and FFmpeg gets a frame only after it
\* had none to give.
LEMMA LengthNext ==
  ASSUME TypeOK, ShapeInv, LengthInv, Next
  PROVE  LengthInv'
<1> USE DEF outputVars, stageVars
<1>0. FramesTyped /\ ControlTyped /\ FramesTyped'
  BY TypeParts, FramesNext
<1>1. /\ \A s \in Stages : Len(queue[s]) \in Nat /\ Len(inner[s]) \in Nat /\ Len(cur[s]) \in Nat
      /\ \A s \in Stages : Depth[s] \in Nat
      /\ Capacity \in Nat
  BY <1>0, PipelineAssumption, LenProperties DEF FramesTyped
<1>2. \A T : \A q \in Seq(T) : \A x \in T :
        Len(q) <= Capacity => Len(Enqueue(q, x)) <= Capacity
  BY EnqueueProperties
<1>3. ASSUME NEW s \in Stages, NEW t \in Stages, t # s, thread'[t] = thread[t],
             inner'[t] = inner[t], Len(queue'[t]) <= Capacity
      PROVE  Len(queue'[t]) <= Capacity /\
             Len(inner'[t]) <= Depth[t] + IF thread'[t] \in {"dequeue", "add"} THEN 0 ELSE 1
  BY <1>3 DEF LengthInv
<1>4. ASSUME NEW f \in Frames, PushFrame(f) PROVE LengthInv'
  <2> DEFINE q == Enqueue(queue["scaler"], f)
  <2>1. "scaler" \in Stages /\ queue["scaler"] \in Seq(Frames)
    BY <1>0 DEF Stages, FramesTyped, FrameType
  <2>2. Len(q) <= Capacity
    BY <1>2, <2>1 DEF LengthInv
  <2>3. queue' = [queue EXCEPT !["scaler"] = q] /\ UNCHANGED <<inner, thread>>
    BY <1>4 DEF PushFrame
  <2> HIDE DEF q
  <2>4. queue'["scaler"] = q /\ \A t \in Stages : t # "scaler" => queue'[t] = queue[t]
    BY <2>1, <2>3, Updated DEF ShapeInv, OfStages
  <2> QED BY <2>2, <2>3, <2>4 DEF LengthInv
<1>5. ASSUME NEW s \in Stages, StageThread(s) PROVE LengthInv'
  <2> DEFINE Fits == /\ Len(queue'[s]) <= Capacity
                     /\ Len(inner'[s]) <= Depth[s] + IF thread'[s] \in {"dequeue", "add"} THEN 0 ELSE 1
  <2>1. Fits
    <3>0. thread[s] \in Labels /\ \A l \in Labels : Goto(s, l) => thread'[s] = l
      BY <1>0 DEF ControlTyped, Goto
    <3>1. CASE Dequeue(s)
      <4>1. queue'[s] = Tail(queue[s]) /\ Len(Tail(queue[s])) = Len(queue[s]) - 1
        BY <1>0, <3>1, Updated, SequenceTypes DEF Dequeue, FramesTyped, ShapeInv, OfStages
      <4>2. inner' = inner /\ thread[s] = "dequeue" /\ thread'[s] = "add"
        BY <3>0, <3>1 DEF Dequeue, Labels
      <4> QED BY <1>1, <4>1, <4>2 DEF LengthInv
    <3>2. CASE Add(s)
      <4> DEFINE i == inner[s] \o cur[s]
      <4>0. inner[s] \in Seq(FrameType(s)) /\ cur[s] \in Seq(FrameType(s)) /\ Len(cur[s]) = 1
        BY <1>0, <3>2 DEF Add, FramesTyped
      <4>3. Len(i) = Len(inner[s]) + 1
        <5> DEFINE T == FrameType(s)
                   a == inner[s]
                   c == cur[s]
        <5>1. a \in Seq(T) /\ c \in Seq(T) /\ Len(c) = 1
          BY <4>0
        <5> HIDE DEF T, a, c
        <5>2. Len(a \o c) = Len(a) + 1
          BY <5>1, ConcatProperties
        <5> QED BY <5>2 DEF a, c
      <4>4. inner' = [inner EXCEPT ![s] = i]
        BY <3>2 DEF Add
      <4> HIDE DEF i
      <4>1. inner'[s] = i /\ Len(inner'[s]) = Len(inner[s]) + 1
        BY <4>3, <4>4, Updated DEF ShapeInv, OfStages
      <4>2. queue' = queue /\ thread[s] = "add" /\ thread'[s] = "extract"
        BY <3>0, <3>2 DEF Add, Labels
      <4> QED BY <1>1, <4>1, <4>2 DEF LengthInv
    <3>3. CASE DequeueEnd(s) \/ AddFails(s) \/ ExtractNothing(s) \/ ExtractFails(s) \/ Catch(s)
      <4>1. queue' = queue /\ inner' = inner
        BY <3>3, Zenon DEF DequeueEnd, AddFails, ExtractNothing, ExtractFails, Catch
      <4>2. \/ thread[s] \in {"dequeue", "add"} /\ thread'[s] \notin {"dequeue", "add"}
            \/ thread[s] \notin {"dequeue", "add"} /\ thread'[s] \notin {"dequeue", "add"}
            \/ Len(inner[s]) <= Depth[s]
        BY <3>0, <3>3 DEF DequeueEnd, AddFails, ExtractNothing, ExtractFails, Catch, Labels
      <4> QED BY <1>1, <4>1, <4>2 DEF LengthInv
    <3>4. ASSUME Extract(s), thread' = thread \/ Goto(s, "thrown"), queue'[s] = queue[s] PROVE Fits
      <4>1. inner'[s] = Tail(inner[s]) /\ Len(Tail(inner[s])) = Len(inner[s]) - 1
        BY <1>0, <3>4, Updated, SequenceTypes DEF Extract, FramesTyped, ShapeInv, OfStages
      <4>2. thread[s] = "extract" /\ thread'[s] \notin {"dequeue", "add"}
        BY <3>0, <3>4 DEF Extract, Labels
      <4> QED BY <1>1, <3>4, <4>1, <4>2 DEF LengthInv
    <3>5. s = "scaler" /\ (ScalingDone \/ ScalingDoneThrows) =>
            Extract(s) /\ (thread' = thread \/ Goto(s, "thrown")) /\ queue'[s] = queue[s]
      BY Updated DEF ScalingDone, ScalingDoneThrows, ShapeInv, OfStages, Stages
    <3>6. s = "encoder" /\ (WritePacket \/ WritePacketThrows) =>
            Extract(s) /\ (thread' = thread \/ Goto(s, "thrown")) /\ queue'[s] = queue[s]
      BY DEF WritePacket, WritePacketThrows
    <3> HIDE DEF Fits
    <3> QED BY <1>5, <3>1, <3>2, <3>3, <3>4, <3>5, <3>6 DEF StageThread
  <2>2. \A t \in Stages : t # s => Len(queue'[t]) <= Capacity
    <3>1. CASE ~(s = "scaler" /\ ScalingDone)
      BY <1>5, <3>1, ThreadSteps DEF LengthInv
    <3>2. CASE s = "scaler" /\ ScalingDone
      <4> DEFINE x == Scaled(Head(inner["scaler"]))
                 q == Enqueue(queue["encoder"], x)
      <4>1. "encoder" \in Stages /\ queue["encoder"] \in Seq(GpuFrames) /\ inner["scaler"] \in Seq(Frames)
        BY <1>0 DEF Stages, FramesTyped, FrameType
      <4>2. x \in GpuFrames
        BY <3>2, <4>1, SequenceTypes, FrameProperties DEF ScalingDone, Extract
      <4> HIDE DEF x
      <4>3. Len(q) <= Capacity
        BY <1>2, <4>1, <4>2 DEF LengthInv
      <4>4. queue' = [queue EXCEPT !["encoder"] = q]
        BY <3>2 DEF ScalingDone, x
      <4> HIDE DEF q
      <4>5. queue'["encoder"] = q
        BY <4>1, <4>4, Updated DEF ShapeInv, OfStages
      <4>6. \A t \in Stages : t # s => t = "encoder"
        BY <3>2 DEF Stages
      <4> QED BY <4>3, <4>5, <4>6
    <3> QED BY <3>1, <3>2
  <2>3. \A t \in Stages : t # s => thread'[t] = thread[t] /\ inner'[t] = inner[t]
    BY <1>5, ThreadSteps
  <2> QED BY <1>3, <2>1, <2>2, <2>3 DEF LengthInv
<1>6. ASSUME NEW s \in Stages, DestroyStage(s) PROVE LengthInv'
  <2>1. /\ inner' = [inner EXCEPT ![s] = <<>>] /\ queue' = [queue EXCEPT ![s] = <<>>]
        /\ thread' = thread
    BY <1>6 DEF DestroyStage
  <2>2. /\ inner'[s] = <<>> /\ queue'[s] = <<>>
        /\ \A t \in Stages : t # s => inner'[t] = inner[t] /\ queue'[t] = queue[t]
    BY <2>1, Updated DEF OfStages, ShapeInv
  <2>3. Len(<<>>) = 0
    BY EmptySeq
  <2> QED BY <1>1, <2>1, <2>2, <2>3 DEF LengthInv
<1>7. CASE UNCHANGED <<queue, inner, thread>>
  BY <1>7 DEF LengthInv
<1>8. (\E f \in Frames : PushFrameThrows(f)) \/ DestroyBegin \/ DestroyMuxer \/ Finished
        \/ (\E s \in Stages : SignalEOF(s)) => UNCHANGED <<queue, inner, thread>>
  BY DEF PushFrameThrows, DestroyBegin, DestroyMuxer, Finished, SignalEOF, vars
<1> QED BY <1>4, <1>5, <1>6, <1>7, <1>8 DEF Next, Caller, Destroy

-----------------------------------------------------------------------------
(* The order of the frames.                                                *)

\* What the steps of a stage do to its frames keeps them in order.
LEMMA OrderedProperties ==
  ASSUME NEW T, NEW i \in Seq(T), NEW c \in Seq(T), NEW q \in Seq(T), Len(c) <= 1,
         Ordered(i, c, q)
  PROVE  /\ Ordered(i \o c, <<>>, q)
         /\ Ordered(i, <<>>, q)
         /\ Ordered(<<>>, c, <<>>)
         /\ i # <<>> => /\ Ordered(Tail(i), c, q)
                        /\ Before({Head(i)}, Elems(Tail(i)) \cup Elems(c) \cup Elems(q))
         /\ c = <<>> /\ q # <<>> => Ordered(i, <<Head(q)>>, Tail(q))
         /\ \A x \in T : Len(q) <= Capacity /\ Before(Elems(i) \cup Elems(c) \cup Elems(q), {x})
              => Ordered(i, c, Enqueue(q, x))
<1>0. Elems(<<>>) = {} /\ Chain(<<>>) /\ Chain(c)
  BY ShortChain, ElemsOf DEF Chain
<1>1. Ordered(i \o c, <<>>, q)
  <2>1. Elems(i \o c) = Elems(i) \cup Elems(c) /\ Chain(i \o c)
    BY <1>0, ElemsOf, ChainConcat DEF Ordered
  <2> QED BY <1>0, <2>1 DEF Ordered, Before
<1>2. Ordered(i, <<>>, q) /\ Ordered(<<>>, c, <<>>)
  BY <1>0 DEF Ordered, Before
<1>3. ASSUME i # <<>>
      PROVE  /\ Ordered(Tail(i), c, q)
             /\ Before({Head(i)}, Elems(Tail(i)) \cup Elems(c) \cup Elems(q))
  <2>1. /\ Elems(i) = {Head(i)} \cup Elems(Tail(i))
        /\ Chain(Tail(i)) /\ Before({Head(i)}, Elems(Tail(i)))
    BY <1>3, ChainTail DEF Ordered
  <2> QED BY <2>1 DEF Ordered, Before
<1>4. ASSUME c = <<>>, q # <<>> PROVE Ordered(i, <<Head(q)>>, Tail(q))
  <2> DEFINE h == Head(q)
  <2>1. /\ Elems(q) = {h} \cup Elems(Tail(q)) /\ h \in T
        /\ Chain(Tail(q)) /\ Before({h}, Elems(Tail(q)))
    BY <1>4, ChainTail DEF Ordered
  <2>2. Elems(<<h>>) = {h}
    BY <2>1, ElemsOf
  <2> HIDE DEF h
  <2> QED BY <1>0, <1>4, <2>1, <2>2 DEF Ordered, Before, h
<1>5. ASSUME NEW x \in T, Len(q) <= Capacity,
             Before(Elems(i) \cup Elems(c) \cup Elems(q), {x})
      PROVE  Ordered(i, c, Enqueue(q, x))
  <2>1. Before(Elems(q), {x}) /\ Chain(q)
    BY <1>5 DEF Before, Ordered
  <2>2. Elems(Enqueue(q, x)) \subseteq Elems(q) \cup {x} /\ Chain(Enqueue(q, x))
    BY <1>5, <2>1, EnqueueProperties
  <2> QED BY <1>5, <2>2 DEF Ordered, Before
<1> QED BY <1>1, <1>2, <1>3, <1>4, <1>5

\* The buffers of frames that were in order, when some of them are destroyed.
LEMMA GivenBack ==
  ASSUME NEW A, NEW B, B \subseteq Frames, Before(A, B) \/ Before(B, A)
  PROVE  BuffersIn(A \cup B) \ BuffersIn(A) = BuffersIn(B)
BY FrameProperties DEF Before, Ahead, BuffersIn

\* A step of the thread of a stage, or the destruction of the stage, leaves the
\* frames of the stage in order and gives it none, except from its own queue.
LEMMA StageSteps ==
  ASSUME TypeOK, ShapeInv, NEW s \in Stages, StageOrdered(s), StageThread(s) \/ DestroyStage(s)
  PROVE  StageOrdered(s)' /\ All(s)' \subseteq All(s)
<1> DEFINE T == FrameType(s)
           i == inner[s]
           c == cur[s]
           q == queue[s]
<1>0. i \in Seq(T) /\ c \in Seq(T) /\ q \in Seq(T) /\ Len(c) = IF thread[s] = "add" THEN 1 ELSE 0
  BY TypeParts DEF FramesTyped
<1>1. Ordered(i, c, q) /\ All(s) = Elems(i) \cup Elems(c) \cup Elems(q)
  BY DEF StageOrdered, All
<1>2. All(s)' = Elems(inner'[s]) \cup Elems(cur'[s]) \cup Elems(queue'[s])
  BY DEF All
<1>3. StageOrdered(s)' <=> Ordered(inner'[s], cur'[s], queue'[s])
  BY DEF StageOrdered
<1>4. Len(c) <= 1
  BY <1>0
<1>5. OfStages(queue) /\ OfStages(cur) /\ OfStages(inner) /\ Elems(<<>>) = {}
  BY ElemsOf DEF ShapeInv
<1>6. CASE Dequeue(s)
  <2>1. q # <<>> /\ c = <<>> /\ cur' = [cur EXCEPT ![s] = <<Head(q)>>]
        /\ queue' = [queue EXCEPT ![s] = Tail(q)] /\ inner' = inner
    BY <1>0, <1>6, EmptySeq DEF Dequeue
  <2>2. cur'[s] = <<Head(q)>> /\ queue'[s] = Tail(q) /\ inner'[s] = i
    BY <1>5, <2>1 DEF OfStages
  <2> HIDE DEF i, c, q, T
  <2>3. Ordered(i, <<Head(q)>>, Tail(q))
    BY <1>0, <1>1, <1>4, <2>1, OrderedProperties
  <2>4. Elems(q) = {Head(q)} \cup Elems(Tail(q)) /\ Elems(<<Head(q)>>) = {Head(q)}
    BY <1>0, <2>1, ChainTail, ElemsOf
  <2> QED BY <1>1, <1>2, <1>3, <2>2, <2>3, <2>4
<1>7. CASE Add(s) \/ AddFails(s)
  <2> DEFINE j == i \o c
  <2>1. /\ cur' = [cur EXCEPT ![s] = <<>>] /\ queue' = queue
        /\ inner' = [inner EXCEPT ![s] = j] \/ inner' = inner
    BY <1>7 DEF Add, AddFails
  <2>2. Ordered(j, <<>>, q) /\ Ordered(i, <<>>, q) /\ Elems(j) = Elems(i) \cup Elems(c)
    <3> HIDE DEF i, c, q, T
    <3>1. Ordered(j, <<>>, q) /\ Ordered(i, <<>>, q)
      BY <1>0, <1>1, <1>4, OrderedProperties
    <3>2. Elems(j) = Elems(i) \cup Elems(c)
      BY <1>0, ElemsOf
    <3> QED BY <3>1, <3>2
  <2> HIDE DEF j
  <2>3. cur'[s] = <<>> /\ queue'[s] = q /\ inner'[s] \in {i, j}
    BY <1>5, <2>1 DEF OfStages
  <2> HIDE DEF i, c, q, T
  <2> QED BY <1>1, <1>2, <1>3, <1>5, <2>2, <2>3
<1>8. CASE DequeueEnd(s) \/ ExtractNothing(s) \/ ExtractFails(s) \/ Catch(s)
  <2>1. UNCHANGED <<queue, cur, inner>>
    BY <1>8 DEF DequeueEnd, ExtractNothing, ExtractFails, Catch
  <2> QED BY <1>1, <1>2, <1>3, <2>1
<1>9. ASSUME Extract(s), cur' = cur, queue'[s] = queue[s] PROVE StageOrdered(s)' /\ All(s)' \subseteq All(s)
  <2>1. i # <<>> /\ inner' = [inner EXCEPT ![s] = Tail(i)]
    BY <1>9 DEF Extract
  <2>2. inner'[s] = Tail(i) /\ cur'[s] = c /\ queue'[s] = q
    BY <1>5, <1>9, <2>1 DEF OfStages
  <2> HIDE DEF i, c, q, T
  <2>3. Ordered(Tail(i), c, q) /\ Elems(i) = {Head(i)} \cup Elems(Tail(i))
    BY <1>0, <1>1, <1>4, <2>1, OrderedProperties, ChainTail
  <2> QED BY <1>1, <1>2, <1>3, <2>2, <2>3
<1>10. s = "scaler" /\ (ScalingDone \/ ScalingDoneThrows) => Extract(s) /\ cur' = cur /\ queue'[s] = queue[s]
  BY <1>5 DEF ScalingDone, ScalingDoneThrows, OfStages, Stages
<1>11. s = "encoder" /\ (WritePacket \/ WritePacketThrows) => Extract(s) /\ cur' = cur /\ queue' = queue
  BY DEF WritePacket, WritePacketThrows
<1>12. CASE DestroyStage(s)
  <2>1. /\ cur' = cur /\ queue' = [queue EXCEPT ![s] = <<>>]
        /\ inner' = [inner EXCEPT ![s] = <<>>]
    BY <1>12 DEF DestroyStage
  <2>2. cur'[s] = c /\ queue'[s] = <<>> /\ inner'[s] = <<>>
    BY <1>5, <2>1 DEF OfStages
  <2> HIDE DEF i, c, q, T
  <2>3. Ordered(<<>>, c, <<>>)
    BY <1>0, <1>1, <1>4, OrderedProperties
  <2> QED BY <1>1, <1>2, <1>3, <1>5, <2>2, <2>3
<1> QED BY <1>6, <1>7, <1>8, <1>9, <1>10, <1>11, <1>12 DEF StageThread

\* A frame that pushFrame() takes comes after all others, and so goes to the end
\* of the queue.
LEMMA PushSteps ==
  ASSUME TypeOK, ShapeInv, LengthInv, OrderInv, LentInv, NEW f \in Frames, PushFrame(f)
  PROVE  /\ Before(All("encoder") \cup All("scaler"), {f})
         /\ inner' = inner /\ cur' = cur
         /\ queue'["encoder"] = queue["encoder"]
         /\ queue'["scaler"] = Enqueue(queue["scaler"], f)
         /\ StageOrdered("scaler")' /\ All("scaler")' \subseteq All("scaler") \cup {f}
<1>0. "scaler" \in Stages /\ "encoder" \in Stages
  BY DEF Stages
<1>1. inner' = inner /\ cur' = cur /\ Accepted(f.pts) /\ f.buffer \notin lent
  BY DEF PushFrame
<1>2. ASSUME NEW x \in All("encoder") \cup All("scaler") PROVE Ahead(x, f)
  <2>1. Strict => x.pts < f.pts
    <3>1. x.pts \in Nat /\ f.pts \in Nat /\ lastPts \in Nat
      BY <1>0, <1>2, StageTypes, TypeParts, FrameProperties DEF ValuesTyped
    <3>2. Strict => x.pts <= lastPts /\ lastPts < f.pts
      BY <1>1, <1>2 DEF OrderInv, Accepted
    <3> QED BY <3>1, <3>2
  <2>2. x.buffer # f.buffer \/ x.buffer = "gpu"
    <3>1. CASE x \in All("scaler")
      BY <1>1, <3>1 DEF LentInv, BuffersIn
    <3>2. CASE x \in All("encoder")
      BY <1>0, <3>2, StageTypes, FrameProperties
    <3> QED BY <1>2, <3>1, <3>2
  <2> QED BY <2>1, <2>2 DEF Ahead
<1>3. Before(All("encoder") \cup All("scaler"), {f})
  BY <1>2 DEF Before
<1> DEFINE i == inner["scaler"]
           c == cur["scaler"]
           q == queue["scaler"]
           r == Enqueue(q, f)
<1>4. queue' = [queue EXCEPT !["scaler"] = r]
  BY DEF PushFrame
<1>5. i \in Seq(Frames) /\ c \in Seq(Frames) /\ q \in Seq(Frames) /\ Len(c) <= 1 /\ Len(q) <= Capacity
  BY <1>0, TypeParts DEF FramesTyped, LengthInv, FrameType
<1>6. Ordered(i, c, q) /\ All("scaler") = Elems(i) \cup Elems(c) \cup Elems(q)
  BY <1>0 DEF OrderInv, StageOrdered, All
<1>7. Before(Elems(i) \cup Elems(c) \cup Elems(q), {f})
  BY <1>3, <1>6 DEF Before
<1>8. Ordered(i, c, r) /\ Elems(r) \subseteq Elems(q) \cup {f}
  <2> HIDE DEF i, c, q
  <2> QED BY <1>5, <1>6, <1>7, OrderedProperties, EnqueueProperties
<1> HIDE DEF r
<1>9. queue'["scaler"] = r /\ queue'["encoder"] = queue["encoder"]
  BY <1>0, <1>4 DEF ShapeInv, OfStages
<1>10. StageOrdered("scaler")' /\ All("scaler")' = Elems(i) \cup Elems(c) \cup Elems(r)
  BY <1>1, <1>8, <1>9 DEF StageOrdered, All
<1> QED BY <1>1, <1>3, <1>6, <1>8, <1>9, <1>10 DEF r

\* The frame that the encoder gets from the scaler comes after those that it has
\* and before those that the scaler has.
LEMMA ScalingSteps ==
  ASSUME TypeOK, ShapeInv, LengthInv, OrderInv, ScalingDone
  PROVE  \E x \in GpuFrames :
           /\ Before(All("encoder"), {x})
           /\ Before({x}, All("scaler")')
           /\ \E y \in All("scaler") : y.pts = x.pts
           /\ StageOrdered("encoder")' /\ All("encoder")' \subseteq All("encoder") \cup {x}
<1>0. "scaler" \in Stages /\ "encoder" \in Stages
  BY DEF Stages
<1> DEFINE i == inner["scaler"]
           y == Head(i)
           x == Scaled(y)
<1>1. /\ i \in Seq(Frames) /\ cur["scaler"] \in Seq(Frames) /\ queue["scaler"] \in Seq(Frames)
      /\ Len(cur["scaler"]) <= 1
  BY <1>0, TypeParts DEF FramesTyped, FrameType
<1>2. /\ i # <<>> /\ inner' = [inner EXCEPT !["scaler"] = Tail(i)] /\ cur' = cur
      /\ queue' = [queue EXCEPT !["encoder"] = Enqueue(queue["encoder"], x)]
  BY DEF ScalingDone, Extract
<1>3. y \in Frames /\ Elems(i) = {y} \cup Elems(Tail(i))
  BY <1>1, <1>2, ChainTail
<1>4. x \in GpuFrames /\ x.pts = y.pts /\ x.buffer = "gpu" /\ y \in All("scaler")
  BY <1>3, FrameProperties DEF All
<1> HIDE DEF x
<1>5. Before({y}, All("scaler")')
  <2>1. Ordered(i, cur["scaler"], queue["scaler"])
    BY <1>0 DEF OrderInv, StageOrdered
  <2>2. Before({y}, Elems(Tail(i)) \cup Elems(cur["scaler"]) \cup Elems(queue["scaler"]))
    <3> HIDE DEF i
    <3> QED BY <1>1, <1>2, <2>1, OrderedProperties
  <2>3. inner'["scaler"] = Tail(i) /\ queue'["scaler"] = queue["scaler"]
    BY <1>0, <1>2 DEF ShapeInv, OfStages
  <2> QED BY <1>2, <2>2, <2>3 DEF All
<1>6. Before({x}, All("scaler")')
  BY <1>4, <1>5 DEF Before, Ahead
<1>7. Before(All("encoder"), {x})
  <2>1. \A z \in All("encoder") : z.buffer = "gpu" /\ Ahead(z, y)
    BY <1>0, <1>4, StageTypes, FrameProperties DEF OrderInv, Before
  <2> QED BY <1>4, <2>1 DEF Before, Ahead
<1> DEFINE j == inner["encoder"]
           c == cur["encoder"]
           q == queue["encoder"]
           r == Enqueue(q, x)
<1>8. /\ j \in Seq(GpuFrames) /\ c \in Seq(GpuFrames) /\ q \in Seq(GpuFrames)
      /\ Len(c) <= 1 /\ Len(q) <= Capacity
  <2>1. j \in Seq(GpuFrames) /\ c \in Seq(GpuFrames) /\ q \in Seq(GpuFrames)
    BY <1>0, StageTypes
  <2>2. Len(c) <= 1
    BY <1>0, TypeParts DEF FramesTyped
  <2>3. Len(q) <= Capacity
    BY <1>0 DEF LengthInv
  <2> QED BY <2>1, <2>2, <2>3
<1>9. Ordered(j, c, q) /\ All("encoder") = Elems(j) \cup Elems(c) \cup Elems(q)
  BY <1>0 DEF OrderInv, StageOrdered, All
<1>10. Ordered(j, c, r) /\ Elems(r) \subseteq Elems(q) \cup {x}
  <2>1. Before(Elems(j) \cup Elems(c) \cup Elems(q), {x})
    BY <1>7, <1>9
  <2> HIDE DEF j, c, q
  <2>2. Ordered(j, c, Enqueue(q, x))
    BY <1>4, <1>8, <1>9, <2>1, OrderedProperties
  <2>3. Elems(Enqueue(q, x)) \subseteq Elems(q) \cup {x}
    BY <1>4, <1>8, EnqueueProperties
  <2> QED BY <2>2, <2>3
<1> HIDE DEF r
<1>11. queue'["encoder"] = r /\ inner'["encoder"] = j
  BY <1>0, <1>2 DEF ShapeInv, OfStages, r
<1>12. StageOrdered("encoder")' /\ All("encoder")' = Elems(j) \cup Elems(c) \cup Elems(r)
  BY <1>2, <1>10, <1>11 DEF StageOrdered, All
<1> QED BY <1>4, <1>6, <1>7, <1>9, <1>10, <1>12

\* OrderInv is kept by a step that adds no frame.
LEMMA OrderKept ==
  ASSUME OrderInv, lastPts' = lastPts,
         \A s \in Stages : StageOrdered(s)' /\ All(s)' \subseteq All(s)
  PROVE  OrderInv'
<1>0. "scaler" \in Stages /\ "encoder" \in Stages
  BY DEF Stages
<1>1. Before(All("encoder"), All("scaler"))'
  BY <1>0 DEF OrderInv, Before
<1>2. Strict => \A x \in All("encoder")' \cup All("scaler")' : x.pts <= lastPts'
  BY <1>0 DEF OrderInv
<1> QED BY <1>1, <1>2 DEF OrderInv

\* Every step keeps the frames in order.
LEMMA OrderNext ==
  ASSUME TypeOK, ShapeInv, LengthInv, OrderInv, LentInv, Next
  PROVE  OrderInv'
<1>0. "scaler" \in Stages /\ "encoder" \in Stages /\ \A s \in Stages : StageOrdered(s)
  BY DEF Stages, OrderInv
<1>1. ASSUME NEW f \in Frames, PushFrame(f) PROVE OrderInv'
  <2>1. /\ Before(All("encoder") \cup All("scaler"), {f})
        /\ inner' = inner /\ cur' = cur
        /\ queue'["encoder"] = queue["encoder"]
        /\ StageOrdered("scaler")' /\ All("scaler")' \subseteq All("scaler") \cup {f}
    BY <1>1, PushSteps
  <2>2. All("encoder")' = All("encoder") /\ StageOrdered("encoder")'
    BY <1>0, <2>1 DEF All, StageOrdered
  <2>3. Before(All("encoder"), All("scaler"))'
    BY <2>1, <2>2 DEF OrderInv, Before
  <2>4. ASSUME Strict, NEW x \in All("encoder")' \cup All("scaler")' PROVE x.pts <= lastPts'
    <3>1. lastPts' = f.pts /\ f.pts \in Nat /\ lastPts \in Nat /\ lastPts < f.pts
      BY <1>1, <2>4, TypeParts, FrameProperties DEF PushFrame, KeepPts, Accepted, ValuesTyped
    <3>2. x = f \/ x \in All("encoder") \cup All("scaler")
      BY <2>1, <2>2
    <3>3. ASSUME x \in All("encoder") \cup All("scaler") PROVE x.pts \in Nat /\ x.pts <= lastPts
      BY <1>0, <2>4, <3>3, StageTypes, FrameProperties DEF OrderInv
    <3> QED BY <3>1, <3>2, <3>3
  <2> QED BY <2>1, <2>2, <2>3, <2>4 DEF OrderInv, Stages
<1>2. ASSUME NEW f \in Frames, PushFrameThrows(f) PROVE OrderInv'
  <2>1. UNCHANGED stageVars /\ KeepPts(f.pts) /\ Accepted(f.pts)
    BY <1>2 DEF PushFrameThrows
  <2>2. \A s \in Stages : All(s)' = All(s) /\ StageOrdered(s)'
    BY <1>0, <2>1 DEF stageVars, All, StageOrdered
  <2>3. ASSUME Strict, NEW x \in All("encoder") \cup All("scaler") PROVE x.pts <= lastPts'
    <3>1. lastPts' = f.pts /\ f.pts \in Nat /\ lastPts \in Nat /\ lastPts < f.pts
      BY <2>1, <2>3, TypeParts, FrameProperties DEF KeepPts, Accepted, ValuesTyped
    <3>2. x.pts \in Nat /\ x.pts <= lastPts
      BY <1>0, <2>3, StageTypes, FrameProperties DEF OrderInv
    <3> QED BY <3>1, <3>2
  <2> QED BY <1>0, <2>2, <2>3 DEF OrderInv
<1>3. ASSUME NEW s \in Stages, StageThread(s) \/ DestroyStage(s), ~(s = "scaler" /\ ScalingDone)
      PROVE  OrderInv'
  <2>1. StageOrdered(s)' /\ All(s)' \subseteq All(s)
    BY <1>0, <1>3, StageSteps
  <2>2. ASSUME NEW t \in Stages, t # s
        PROVE  inner'[t] = inner[t] /\ cur'[t] = cur[t] /\ queue'[t] = queue[t]
    <3>1. CASE StageThread(s)
      BY <1>3, <2>2, <3>1, ThreadSteps
    <3>2. CASE DestroyStage(s)
      BY <2>2, <3>2 DEF DestroyStage, ShapeInv, OfStages
    <3> QED BY <1>3, <3>1, <3>2
  <2>3. \A t \in Stages : StageOrdered(t)' /\ All(t)' \subseteq All(t)
    BY <1>0, <2>1, <2>2 DEF StageOrdered, All
  <2>4. lastPts' = lastPts
    <3>1. CASE StageThread(s)
      BY <3>1, ThreadSteps
    <3>2. CASE DestroyStage(s)
      BY <3>2 DEF DestroyStage
    <3> QED BY <1>3, <3>1, <3>2
  <2> QED BY <2>3, <2>4, OrderKept
<1>4. ASSUME ScalingDone PROVE OrderInv'
  <2>1. StageThread("scaler")
    BY <1>4 DEF StageThread
  <2>2. /\ lastPts' = lastPts
        /\ StageOrdered("scaler")' /\ All("scaler")' \subseteq All("scaler")
    BY <1>0, <2>1, ThreadSteps, StageSteps
  <2>3. PICK x \in GpuFrames :
           /\ Before(All("encoder"), {x})
           /\ Before({x}, All("scaler")')
           /\ \E y \in All("scaler") : y.pts = x.pts
           /\ StageOrdered("encoder")' /\ All("encoder")' \subseteq All("encoder") \cup {x}
    BY <1>4, ScalingSteps
  <2>4. Before(All("encoder"), All("scaler"))'
    BY <2>2, <2>3 DEF OrderInv, Before
  <2>5. Strict => \A z \in All("encoder")' \cup All("scaler")' : z.pts <= lastPts'
    BY <2>2, <2>3 DEF OrderInv
  <2> QED BY <2>2, <2>3, <2>4, <2>5 DEF OrderInv, Stages
<1>5. CASE UNCHANGED <<inner, cur, queue, lastPts>>
  BY <1>5 DEF OrderInv, StageOrdered, All
<1>6. DestroyBegin \/ DestroyMuxer \/ Finished \/ (\E s \in Stages : SignalEOF(s))
        => UNCHANGED <<inner, cur, queue, lastPts>>
  BY DEF DestroyBegin, DestroyMuxer, Finished, SignalEOF, vars, stageVars, outputVars
<1> QED BY <1>1, <1>2, <1>3, <1>4, <1>5, <1>6 DEF Next, Caller, Destroy

\* The buffers that frames are made of, as the code of the model and as the
\* invariant puts it.
LEMMA BuffersOfElems ==
  ASSUME NEW q
  PROVE  BuffersOf(q) = BuffersIn(Elems(q))
BY DEF BuffersOf, BuffersIn, Elems

\* A frame that leaves the scaler, or is destroyed in it, gives its buffer back,
\* and no other does.
LEMMA LentByScaler ==
  ASSUME TypeOK, ShapeInv, OrderInv, LentInv,
         StageThread("scaler") \/ DestroyStage("scaler")
  PROVE  LentInv'
<1> DEFINE i == inner["scaler"]
           c == cur["scaler"]
           q == queue["scaler"]
<1>0. "scaler" \in Stages
  BY DEF Stages
<1>1. i \in Seq(Frames) /\ c \in Seq(Frames) /\ q \in Seq(Frames)
  BY <1>0, StageTypes
<1>2. Elems(i) \subseteq Frames /\ Elems(c) \subseteq Frames /\ Elems(q) \subseteq Frames /\ Elems(<<>>) = {}
  <2> HIDE DEF i, c, q
  <2> QED BY <1>1, ElemsOf
<1>3. Ordered(i, c, q) /\ lent = BuffersIn(Elems(i) \cup Elems(c) \cup Elems(q))
  BY <1>0 DEF OrderInv, StageOrdered, LentInv, All
<1>4. OfStages(queue) /\ OfStages(cur) /\ OfStages(inner)
  BY DEF ShapeInv
<1>5. LentInv' <=> lent' = BuffersIn(Elems(inner'["scaler"]) \cup Elems(cur'["scaler"])
                                     \cup Elems(queue'["scaler"]))
  BY DEF LentInv, All
<1>6. CASE Dequeue("scaler")
  <2>1. q # <<>> /\ c = <<>> /\ cur' = [cur EXCEPT !["scaler"] = <<Head(q)>>] /\ lent' = lent
        /\ queue' = [queue EXCEPT !["scaler"] = Tail(q)] /\ inner' = inner
    BY <1>0, <1>6, TypeParts, EmptySeq DEF Dequeue, FramesTyped
  <2>2. cur'["scaler"] = <<Head(q)>> /\ queue'["scaler"] = Tail(q) /\ inner'["scaler"] = i
    BY <1>0, <1>4, <2>1 DEF OfStages
  <2> HIDE DEF i, c, q
  <2>3. Elems(q) = {Head(q)} \cup Elems(Tail(q)) /\ Elems(<<Head(q)>>) = {Head(q)}
    BY <1>1, <2>1, ChainTail, ElemsOf
  <2>4. Elems(i) \cup Elems(<<Head(q)>>) \cup Elems(Tail(q)) = Elems(i) \cup Elems(c) \cup Elems(q)
    BY <1>2, <2>1, <2>3
  <2> QED BY <1>3, <1>5, <2>1, <2>2, <2>4
<1>7. CASE Add("scaler")
  <2> DEFINE j == i \o c
  <2>1. cur' = [cur EXCEPT !["scaler"] = <<>>] /\ inner' = [inner EXCEPT !["scaler"] = j]
        /\ UNCHANGED <<queue, lent>>
    BY <1>7 DEF Add
  <2> HIDE DEF j
  <2>2. cur'["scaler"] = <<>> /\ inner'["scaler"] = j
    BY <1>0, <1>4, <2>1 DEF OfStages
  <2>3. Elems(j) = Elems(i) \cup Elems(c)
    <3> HIDE DEF i, c
    <3> QED BY <1>1, ElemsOf DEF j
  <2>4. Elems(j) \cup Elems(<<>>) \cup Elems(q) = Elems(i) \cup Elems(c) \cup Elems(q)
    BY <1>2, <2>3
  <2> QED BY <1>3, <1>5, <2>1, <2>2, <2>4
<1>8. CASE AddFails("scaler")
  <2>1. cur' = [cur EXCEPT !["scaler"] = <<>>] /\ lent' = lent \ BuffersIn(Elems(c))
        /\ UNCHANGED <<queue, inner>>
    BY <1>8, BuffersOfElems DEF AddFails
  <2>2. cur'["scaler"] = <<>>
    BY <1>0, <1>4, <2>1 DEF OfStages
  <2>3. \A x \in Elems(c), y \in Elems(i) \cup Elems(q) : x.buffer # y.buffer
    BY <1>2, <1>3, FrameProperties DEF Ordered, Before, Ahead
  <2>4. BuffersIn(Elems(i) \cup Elems(c) \cup Elems(q)) \ BuffersIn(Elems(c))
          = BuffersIn(Elems(i) \cup Elems(<<>>) \cup Elems(q))
    <3> HIDE DEF i, c, q
    <3> QED BY <1>2, <2>3 DEF BuffersIn
  <2> QED BY <1>3, <1>5, <2>1, <2>2, <2>4
<1>9. CASE DequeueEnd("scaler") \/ ExtractNothing("scaler") \/ ExtractFails("scaler") \/ Catch("scaler")
  <2>1. UNCHANGED <<queue, cur, inner, lent>>
    BY <1>9 DEF DequeueEnd, ExtractNothing, ExtractFails, Catch
  <2> QED BY <1>3, <1>5, <2>1
<1>10. CASE ScalingDone \/ ScalingDoneThrows
  <2>1. i # <<>> /\ inner' = [inner EXCEPT !["scaler"] = Tail(i)] /\ lent' = lent \ {Head(i).buffer}
        /\ cur' = cur /\ queue'["scaler"] = queue["scaler"]
    BY <1>0, <1>4, <1>10 DEF ScalingDone, ScalingDoneThrows, Extract, OfStages
  <2>2. inner'["scaler"] = Tail(i)
    BY <1>0, <1>4, <2>1 DEF OfStages
  <2> HIDE DEF i
  <2> DEFINE B == Elems(Tail(i)) \cup Elems(c) \cup Elems(q)
  <2>3. Elems(i) = {Head(i)} \cup Elems(Tail(i)) /\ Before({Head(i)}, Elems(Tail(i)))
    BY <1>1, <1>3, <2>1, ChainTail DEF Ordered
  <2>4. Before({Head(i)}, B) /\ B \subseteq Frames
    BY <1>2, <1>3, <2>3 DEF Ordered, Before
  <2>5. BuffersIn({Head(i)} \cup B) \ BuffersIn({Head(i)}) = BuffersIn(B)
    BY <2>4, GivenBack
  <2>6. BuffersIn({Head(i)}) = {Head(i).buffer} /\ Elems(i) \cup Elems(c) \cup Elems(q) = {Head(i)} \cup B
    BY <2>3 DEF BuffersIn
  <2> QED BY <1>3, <1>5, <2>1, <2>2, <2>5, <2>6
<1>11. CASE DestroyStage("scaler")
  <2>1. /\ inner' = [inner EXCEPT !["scaler"] = <<>>] /\ queue' = [queue EXCEPT !["scaler"] = <<>>]
        /\ cur' = cur /\ lent' = lent \ (BuffersIn(Elems(i)) \cup BuffersIn(Elems(q)))
    BY <1>11, BuffersOfElems DEF DestroyStage
  <2>2. inner'["scaler"] = <<>> /\ queue'["scaler"] = <<>>
    BY <1>0, <1>4, <2>1 DEF OfStages
  <2>3. \A x \in Elems(c), y \in Elems(i) \cup Elems(q) : x.buffer # y.buffer
    BY <1>2, <1>3, FrameProperties DEF Ordered, Before, Ahead
  <2>4. BuffersIn(Elems(i) \cup Elems(c) \cup Elems(q)) \ (BuffersIn(Elems(i)) \cup BuffersIn(Elems(q)))
          = BuffersIn(Elems(<<>>) \cup Elems(c) \cup Elems(<<>>))
    <3> HIDE DEF i, c, q
    <3> QED BY <1>2, <2>3 DEF BuffersIn
  <2> QED BY <1>3, <1>5, <2>1, <2>2, <2>4
<1> QED BY <1>6, <1>7, <1>8, <1>9, <1>10, <1>11 DEF StageThread

\* The frames of the encoder are on the GPU: what happens to them gives no
\* buffer of the stream back.
LEMMA LentByEncoder ==
  ASSUME TypeOK, ShapeInv, LentInv, StageThread("encoder") \/ DestroyStage("encoder")
  PROVE  LentInv' /\ lent' = lent
<1>0. "encoder" \in Stages /\ "scaler" \in Stages /\ "encoder" # "scaler" /\ "gpu" \notin lent
  BY TypeParts, BuffersAssumption DEF Stages, ValuesTyped
<1>1. /\ inner["encoder"] \in Seq(GpuFrames) /\ cur["encoder"] \in Seq(GpuFrames)
      /\ queue["encoder"] \in Seq(GpuFrames)
  BY <1>0, StageTypes
<1>2. \A q \in Seq(GpuFrames) : BuffersOf(q) \subseteq {"gpu"} /\ (q # <<>> => Head(q).buffer = "gpu")
  <2> SUFFICES ASSUME NEW q \in Seq(GpuFrames)
               PROVE  BuffersOf(q) \subseteq {"gpu"} /\ (q # <<>> => Head(q).buffer = "gpu")
    OBVIOUS
  <2>1. Elems(q) \subseteq GpuFrames /\ (q # <<>> => Head(q) \in GpuFrames)
    BY ElemsOf, HeadTailProperties
  <2>2. BuffersOf(q) \subseteq {"gpu"}
    BY <2>1, BuffersOfElems, FrameProperties DEF BuffersIn
  <2> QED BY <2>1, <2>2, FrameProperties
<1>3. lent' = lent
  <2>1. \/ lent' = lent
        \/ lent' = lent \ BuffersOf(cur["encoder"])
        \/ inner["encoder"] # <<>> /\ lent' = lent \ {Head(inner["encoder"]).buffer}
        \/ lent' = lent \ (BuffersOf(inner["encoder"]) \cup BuffersOf(queue["encoder"]))
    BY <1>0, Zenon DEF StageThread, Dequeue, DequeueEnd, Add, AddFails, ExtractNothing, ExtractFails,
       Extract, WritePacket, WritePacketThrows, Catch, DestroyStage
  <2> QED BY <1>0, <1>1, <1>2, <2>1
<1>4. /\ inner'["scaler"] = inner["scaler"] /\ cur'["scaler"] = cur["scaler"]
      /\ queue'["scaler"] = queue["scaler"]
  <2>1. CASE StageThread("encoder")
    BY <1>0, <2>1, ThreadSteps
  <2>2. CASE DestroyStage("encoder")
    BY <1>0, <2>2 DEF DestroyStage, ShapeInv, OfStages
  <2> QED BY <2>1, <2>2
<1> QED BY <1>3, <1>4 DEF LentInv, All

\* Every step keeps LentInv.
LEMMA LentNext ==
  ASSUME TypeOK, ShapeInv, LengthInv, OrderInv, LentInv, Next
  PROVE  LentInv'
<1>1. ASSUME NEW f \in Frames, PushFrame(f) PROVE LentInv'
  <2> DEFINE A == Elems(inner["scaler"]) \cup Elems(cur["scaler"])
             Q == Elems(queue["scaler"])
  <2>1. lent' = (lent \ BuffersIn(Q)) \cup BuffersIn(Elems(queue'["scaler"]))
        /\ inner' = inner /\ cur' = cur
    BY <1>1, BuffersOfElems DEF PushFrame
  <2>2. "scaler" \in Stages /\ Before(A, Q) /\ A \subseteq Frames /\ lent = BuffersIn(Q \cup A)
    BY StageTypes DEF Stages, OrderInv, StageOrdered, Ordered, LentInv, All
  <2>3. BuffersIn(Q \cup A) \ BuffersIn(Q) = BuffersIn(A)
    BY <2>2, GivenBack
  <2>4. lent' = BuffersIn(A) \cup BuffersIn(Elems(queue'["scaler"]))
    BY <2>1, <2>2, <2>3
  <2>5. LentInv' <=> lent' = BuffersIn(A \cup Elems(queue'["scaler"]))
    BY <2>1 DEF LentInv, All
  <2> QED BY <2>4, <2>5 DEF BuffersIn
<1>2. ASSUME NEW s \in Stages, StageThread(s) \/ DestroyStage(s) PROVE LentInv'
  BY <1>2, LentByScaler, LentByEncoder DEF Stages
<1>3. CASE UNCHANGED <<inner, cur, queue, lent>>
  BY <1>3 DEF LentInv, All
<1>4. (\E f \in Frames : PushFrameThrows(f)) \/ DestroyBegin \/ DestroyMuxer \/ Finished
        \/ (\E s \in Stages : SignalEOF(s)) => UNCHANGED <<inner, cur, queue, lent>>
  BY DEF PushFrameThrows, DestroyBegin, DestroyMuxer, Finished, SignalEOF, vars, stageVars
<1> QED BY <1>1, <1>2, <1>3, <1>4 DEF Next, Caller, Destroy

-----------------------------------------------------------------------------
(* The invariant.                                                          *)

\* The initial states satisfy the invariant.
LEMMA InvInit == Init => IInv
<1> SUFFICES ASSUME Init PROVE IInv
  OBVIOUS
<1>1. \A s \in Stages : inner[s] = <<>> /\ cur[s] = <<>> /\ queue[s] = <<>>
  BY DEF Init
<1>2. Elems(<<>>) = {} /\ Chain(<<>>) /\ Len(<<>>) = 0
  BY ElemsOf, EmptySeq DEF Chain
<1>3. \A s \in Stages : All(s) = {} /\ StageOrdered(s)
  BY <1>1, <1>2 DEF All, StageOrdered, Ordered, Before
<1>4. OrderInv
  BY <1>3 DEF OrderInv, Before, Stages
<1>5. LentInv
  BY <1>3 DEF LentInv, BuffersIn, Init, Stages
<1>6. LengthInv
  BY <1>1, <1>2, PipelineAssumption DEF LengthInv
<1>7. DestructionInv
  BY DEF Init, DestructionInv
<1> QED BY <1>4, <1>5, <1>6, <1>7, TypeInit DEF IInv

\* Every step keeps the invariant.
LEMMA InvNext == IInv /\ [Next]_vars => IInv'
<1>1. ASSUME IInv, Next PROVE IInv'
  BY <1>1, TypeNext, OrderNext, LentNext, LengthNext, DestructionNext DEF IInv
<1>2. ASSUME IInv, UNCHANGED vars PROVE IInv'
  <2>1. TypeOK' /\ ShapeInv'
    BY <1>2, TypeNext DEF IInv
  <2>2. OrderInv'
    BY <1>2 DEF IInv, OrderInv, StageOrdered, All, vars
  <2>3. LentInv'
    BY <1>2 DEF IInv, LentInv, All, vars
  <2>4. LengthInv' /\ DestructionInv'
    BY <1>2 DEF IInv, LengthInv, DestructionInv, vars
  <2> QED BY <2>1, <2>2, <2>3, <2>4 DEF IInv
<1> QED BY <1>1, <1>2

\* The invariant holds in every state that the pipeline can be in, which is what
\* all of the following rests on.
THEOREM InvariantHolds == Spec => []IInv
BY InvInit, InvNext, PTL DEF Spec

\* Types of the variables: in particular a thread of the pipeline has a frame in
\* hand just between taking it and handing it to FFmpeg.
THEOREM TypeCorrect == Spec => []TypeOK
<1>1. IInv => TypeOK
  BY DEF IInv
<1> QED BY <1>1, InvariantHolds, PTL

\* Who calls a member of the output that is destroyed has ended before.
LEMMA CalleesFollow == IInv => CalleesExist
<1> SUFFICES ASSUME IInv PROVE CalleesExist
  OBVIOUS
<1>1. closing \in 0 .. Len(DestructionOrder) + 1
  BY DEF IInv, TypeOK
<1>2. /\ closing \in 0 .. 4
      /\ Exists("scaler") <=> closing <= 1
      /\ Exists("encoder") <=> closing <= 2
      /\ Exists("muxer") <=> closing <= 3
  BY <1>1, DestructionProperties
<1>3. thread["scaler"] # "ended" => closing <= 1
  BY <1>2 DEF IInv, DestructionInv
<1>4. thread["encoder"] # "ended" => closing <= 2
  BY <1>2 DEF IInv, DestructionInv
<1> QED BY <1>2, <1>3, <1>4 DEF CalleesExist

\* The threads call into members of the output that exist, because the scaler,
\* whose thread calls the encoder, is destroyed first, the muxer last, and each
\* joins its thread before.
THEOREM CalleesAreThere == Spec => []CalleesExist
BY CalleesFollow, InvariantHolds, PTL

\* The frames that a stage holds, one after the other.
LEMMA HeldProperties ==
  ASSUME IInv, NEW s \in Stages
  PROVE  /\ Held(s) \in Seq(FrameType(s)) /\ Chain(Held(s)) /\ Elems(Held(s)) = All(s)
         /\ Len(Held(s)) = Len(inner[s]) + Len(cur[s]) + Len(queue[s])
<1> DEFINE T == FrameType(s)
           i == inner[s]
           c == cur[s]
           q == queue[s]
           ic == i \o c
<1>1. i \in Seq(T) /\ c \in Seq(T) /\ q \in Seq(T) /\ Len(c) <= 1
  BY TypeParts DEF IInv, FramesTyped
<1>2. Ordered(i, c, q) /\ All(s) = Elems(i) \cup Elems(c) \cup Elems(q) /\ Held(s) = ic \o q
  BY DEF IInv, OrderInv, StageOrdered, All, Held
<1> HIDE DEF T, i, c, q
<1>3. ic \in Seq(T) /\ Len(ic) = Len(i) + Len(c) /\ Elems(ic) = Elems(i) \cup Elems(c)
  BY <1>1, ConcatProperties, ElemsOf
<1>4. Chain(ic)
  BY <1>1, <1>2, ShortChain, ChainConcat DEF Ordered
<1> HIDE DEF ic
<1>5. ic \o q \in Seq(T) /\ Len(ic \o q) = Len(ic) + Len(q) /\ Elems(ic \o q) = Elems(ic) \cup Elems(q)
  <2>1. ic \o q \in Seq(T) /\ Len(ic \o q) = Len(ic) + Len(q)
    BY <1>1, <1>3, ConcatProperties
  <2>2. Elems(ic \o q) = Elems(ic) \cup Elems(q)
    BY <1>1, <1>3, ElemsOf
  <2> QED BY <2>1, <2>2
<1>6. Chain(ic \o q)
  BY <1>1, <1>2, <1>3, <1>4, ChainConcat DEF Ordered
<1> QED BY <1>2, <1>3, <1>5, <1>6 DEF T, i, c, q

\* The frames of the scaler are those whose buffers are lent, one buffer each.
LEMMA LentFollows == IInv => LentAreHeld
<1> SUFFICES ASSUME IInv PROVE LentAreHeld
  OBVIOUS
<1> DEFINE h == Held("scaler")
<1>1. /\ "scaler" \in Stages /\ h \in Seq(Frames) /\ Chain(h) /\ Elems(h) = All("scaler")
  BY HeldProperties DEF Stages, FrameType
<1>2. lent = BuffersOf(h)
  BY <1>1, BuffersOfElems DEF IInv, LentInv
<1> HIDE DEF h
<1>3. ASSUME NEW i \in DOMAIN h, NEW j \in DOMAIN h, h[i].buffer = h[j].buffer
      PROVE  i = j
  <2>1. i \in Nat /\ j \in Nat /\ h[i] \in Frames /\ h[j] \in Frames
    BY <1>1, LenProperties, ElementOfSeq
  <2>2. \A x, y \in Frames : Ahead(x, y) => x.buffer # y.buffer
    BY FrameProperties DEF Ahead
  <2>3. ~(i < j) /\ ~(j < i)
    BY <1>1, <1>3, <2>1, <2>2 DEF Chain
  <2> QED BY <2>1, <2>3
<1> QED BY <1>2, <1>3 DEF LentAreHeld, h

\* A buffer is lent just as long as exactly one frame made of it exists in the
\* scaler: pushFrame(), the scaler's thread and the destructor account for every
\* frame that they take, discard, lose or destroy.
THEOREM BuffersGivenBack == Spec => []LentAreHeld
BY LentFollows, InvariantHolds, PTL

\* The frames of both stages make one chain.
LEMMA OrderFollows == IInv => PipelineOrdered
<1> SUFFICES ASSUME IInv, Strict PROVE PipelineOrdered
  BY DEF PipelineOrdered
<1> DEFINE T == Frames \cup GpuFrames
           e == Held("encoder")
           h == Held("scaler")
<1>1. /\ e \in Seq(GpuFrames) /\ Chain(e) /\ Elems(e) = All("encoder")
      /\ h \in Seq(Frames) /\ Chain(h) /\ Elems(h) = All("scaler")
  BY HeldProperties DEF Stages, FrameType
<1>2. Before(Elems(e), Elems(h)) /\ \A x \in Elems(e) \cup Elems(h) : x.pts <= lastPts
  BY <1>1 DEF IInv, OrderInv
<1>3. e \in Seq(T) /\ h \in Seq(T)
  BY <1>1
<1> HIDE DEF e, h, T
<1>4. Chain(e \o h) /\ Elems(e \o h) = Elems(e) \cup Elems(h)
  BY <1>1, <1>2, <1>3, ChainConcat, ElemsOf
<1> DEFINE p == e \o h
<1>5. Pipeline = p
  BY DEF Pipeline, e, h
<1>6. \A i, j \in DOMAIN p : i < j => p[i].pts < p[j].pts
  BY <1>4 DEF Chain, Ahead
<1>7. \A i \in DOMAIN p : p[i].pts <= lastPts
  BY <1>2, <1>4 DEF Elems
<1> HIDE DEF p
<1> QED BY <1>5, <1>6, <1>7 DEF PipelineOrdered

\* For a muxer that is strict, timestamps strictly increase from the encoder to
\* the end of the scaler's queue whatever is discarded on the way: that is what
\* makes the output monotonic.
THEOREM TimestampsIncrease == Spec => []PipelineOrdered
BY OrderFollows, InvariantHolds, PTL

\* The scaler has room for fewer frames than the stream has buffers.
LEMMA RoomFollows == IInv => StreamNotStarved
<1> SUFFICES ASSUME IInv PROVE StreamNotStarved
  OBVIOUS
<1> DEFINE h == Held("scaler")
           n == Len(h)
           bound == Capacity + Depth["scaler"] + 1
           f == [k \in 1 .. n |-> h[k].buffer]
<1>1. /\ "scaler" \in Stages /\ h \in Seq(Frames) /\ Elems(h) = All("scaler")
      /\ n = Len(inner["scaler"]) + Len(cur["scaler"]) + Len(queue["scaler"])
  BY HeldProperties DEF Stages, FrameType
<1>2. /\ inner["scaler"] \in Seq(Frames) /\ cur["scaler"] \in Seq(Frames)
      /\ queue["scaler"] \in Seq(Frames)
      /\ Len(cur["scaler"]) = IF thread["scaler"] = "add" THEN 1 ELSE 0
  BY <1>1, TypeParts DEF IInv, FramesTyped, FrameType
<1>3. /\ Len(inner["scaler"]) \in Nat /\ Len(cur["scaler"]) \in Nat /\ Len(queue["scaler"]) \in Nat
      /\ Capacity \in Nat /\ Depth["scaler"] \in Nat
  BY <1>1, <1>2, LenProperties, PipelineAssumption
<1>4. n \in Nat /\ n <= bound
  <2>1. /\ Len(queue["scaler"]) <= Capacity
        /\ Len(inner["scaler"]) <= Depth["scaler"] + IF thread["scaler"] \in {"dequeue", "add"} THEN 0 ELSE 1
    BY <1>1 DEF IInv, LengthInv
  <2> DEFINE li == Len(inner["scaler"])
             lc == Len(cur["scaler"])
             lq == Len(queue["scaler"])
             d  == Depth["scaler"]
  <2>2. lc <= 1 /\ li <= d + 1 /\ (lc = 0 \/ li <= d)
    BY <1>2, <1>3, <2>1
  <2>3. n = li + lc + lq /\ li \in Nat /\ lc \in Nat /\ lq \in Nat /\ d \in Nat
        /\ Capacity \in Nat /\ lq <= Capacity
    BY <1>1, <1>3, <2>1
  <2> HIDE DEF n, li, lc, lq, d
  <2> QED BY <2>2, <2>3 DEF d
<1>5. lent = {h[k].buffer : k \in 1 .. n}
  BY <1>1, LenProperties DEF IInv, LentInv, BuffersIn, Elems
<1> HIDE DEF h, n
<1>6. IsFiniteSet(1 .. n) /\ Cardinality(1 .. n) = n
  BY <1>4, FS_Interval
<1>7. f \in Surjection(1 .. n, lent)
  BY <1>5 DEF Surjection, Range
<1>8. IsFiniteSet(lent) /\ Cardinality(lent) <= n /\ Cardinality(lent) \in Nat
  BY <1>6, <1>7, FS_Surjection, FS_CardinalityType
<1>9. Cardinality(lent) <= bound
  BY <1>3, <1>4, <1>8
<1>10. Cardinality(Buffers) > bound /\ Cardinality(Buffers) \in Nat
  BY BuffersAssumption, FS_CardinalityType
<1>11. lent \subseteq Buffers /\ Buffers # lent
  BY <1>3, <1>9, <1>10, <1>8, TypeParts DEF IInv, ValuesTyped
<1> QED BY <1>9, <1>11 DEF StreamNotStarved

\* However slow the GPU is, only so many buffers are withheld from the stream as
\* the scaler's queue, its thread and the filter graph have room for, and
\* PipeWire always has one for the next frame.
THEOREM StreamGoesOn == Spec => []StreamNotStarved
BY RoomFollows, InvariantHolds, PTL

-----------------------------------------------------------------------------
(* The pipeline is a FrameSink.                                            *)

Status == IF closing = 0 THEN "open" ELSE IF Destroyed THEN "closed" ELSE "closing"

\* Nothing is lent any more once the scaler is destroyed.
LEMMA NothingLentLater ==
  ASSUME IInv, closing >= 2
  PROVE  lent = {}
<1>1. /\ "scaler" \in Stages /\ inner["scaler"] = <<>> /\ queue["scaler"] = <<>>
      /\ thread["scaler"] = "ended"
  BY DEF IInv, DestructionInv, Stages
<1>2. cur["scaler"] = <<>>
  BY <1>1, TypeParts, EmptySeq DEF IInv, FramesTyped
<1>3. All("scaler") = {}
  BY <1>1, <1>2, ElemsOf DEF All
<1> QED BY <1>3 DEF IInv, LentInv, BuffersIn

\* Every step of the pipeline is a step of a FrameSink, or changes nothing that
\* one has.
LEMMA StepImplements ==
  ASSUME IInv, Next
  PROVE  [Sink!Next]_<<lent, Status>>
<1> USE DEF Status
<1>0. /\ closing \in 0 .. Len(DestructionOrder) + 1
      /\ closing \in 0 .. 4 /\ closing' \in 0 .. 4 /\ (Destroyed <=> closing = 4)
      /\ (Destroyed' <=> closing' = 4)
  <2>1. closing \in 0 .. Len(DestructionOrder) + 1
    BY DEF IInv, TypeOK
  <2>2. closing' \in 0 .. 4
    BY ControlNext DEF IInv, ControlTyped
  <2>3. Len(DestructionOrder) = 3
    BY DEF DestructionOrder
  <2>4. (Destroyed <=> closing > 3) /\ (Destroyed' <=> closing' > 3)
    BY <2>3 DEF Destroyed
  <2> QED BY <2>1, <2>2, <2>3, <2>4
<1>1. ASSUME NEW f \in Frames, PushFrame(f) PROVE [Sink!Next]_<<lent, Status>>
  <2>1. /\ closing = 0 /\ closing' = 0 /\ f.buffer \notin lent /\ f.buffer \in Buffers
        /\ Status = "open" /\ Status' = "open"
    BY <1>1, FrameProperties DEF PushFrame
  <2>2. All("scaler")' \subseteq All("scaler") \cup {f}
    BY <1>1, PushSteps DEF IInv
  <2>3. lent' = BuffersIn(All("scaler")') /\ lent = BuffersIn(All("scaler"))
    BY LentNext DEF IInv, LentInv, BuffersIn
  <2>4. lent' \in SUBSET (lent \cup {f.buffer})
    BY <2>2, <2>3 DEF BuffersIn
  <2>5. Sink!Push(f.buffer)
    BY <2>1, <2>4 DEF Sink!Push
  <2> QED BY <2>1, <2>5 DEF Sink!Next
<1>2. ASSUME lent' \subseteq lent, closing' = closing, closing < 4 PROVE [Sink!Next]_<<lent, Status>>
  <2>1. Status # "closed" /\ Status' = Status
    BY <1>0, <1>2
  <2>2. Sink!Release
    BY <1>2, <2>1 DEF Sink!Release
  <2> QED BY <2>2 DEF Sink!Next
<1>3. ASSUME NEW s \in Stages, StageThread(s) PROVE [Sink!Next]_<<lent, Status>>
  <2>1. closing' = closing /\ thread[s] # "ended"
    BY <1>3, ThreadSteps DEF IInv
  <2>2. closing < 4
    BY <1>0, <2>1 DEF IInv, DestructionInv, Stages
  <2>3. lent' \subseteq lent
    BY <1>3, Zenon DEF StageThread, Dequeue, DequeueEnd, Add, AddFails, ExtractNothing, ExtractFails,
       Extract, ScalingDone, ScalingDoneThrows, WritePacket, WritePacketThrows, Catch
  <2> QED BY <1>2, <2>1, <2>2, <2>3
<1>4. CASE DestroyBegin
  <2>1. Status = "open" /\ Status' = "closing" /\ lent' = lent
    BY <1>0, <1>4 DEF DestroyBegin
  <2>2. Sink!BeginClose
    BY <2>1 DEF Sink!BeginClose
  <2> QED BY <2>2 DEF Sink!Next
<1>5. ASSUME NEW s \in Stages, DestroyStage(s) PROVE [Sink!Next]_<<lent, Status>>
  <2>1. closing \in {1, 2} /\ closing' = closing + 1 /\ lent' \subseteq lent
    BY <1>0, <1>5, DestructionProperties DEF DestroyStage, Join, Stages
  <2>2. Status = "closing" /\ Status' = Status
    BY <1>0, <2>1
  <2>3. Sink!Release
    BY <2>1, <2>2 DEF Sink!Release
  <2> QED BY <2>3 DEF Sink!Next
<1>6. CASE DestroyMuxer
  <2>1. closing = 3 /\ closing' = 4 /\ lent' = lent
    BY <1>0, <1>6, DestructionProperties DEF DestroyMuxer
  <2>2. Status = "closing" /\ Status' = "closed" /\ lent' = {}
    BY <1>0, <2>1, NothingLentLater
  <2>3. Sink!Close
    BY <2>2 DEF Sink!Close
  <2> QED BY <2>3 DEF Sink!Next
<1>7. CASE UNCHANGED <<lent, closing>>
  BY <1>0, <1>7
<1>8. (\E f \in Frames : PushFrameThrows(f)) \/ Finished \/ (\E s \in Stages : SignalEOF(s))
        => UNCHANGED <<lent, closing>>
  BY DEF PushFrameThrows, Finished, SignalEOF, vars, stageVars, outputVars
<1> QED BY <1>1, <1>3, <1>4, <1>5, <1>6, <1>7, <1>8 DEF Next, Caller, Destroy

\* The pipeline is the FrameSink that main() takes it for: no buffer is lent to
\* it but by pushFrame(), and none is when the output is destroyed.
THEOREM ImplementsFrameSink == Spec => SinkSpec
<1>1. Init => Sink!Init
  BY DEF Init, Sink!Init
<1>2. IInv /\ [Next]_vars => [Sink!Next]_<<lent, Status>>
  <2>1. UNCHANGED vars => UNCHANGED <<lent, Status>>
    BY DEF vars, Status, Destroyed
  <2> QED BY <2>1, StepImplements
<1> QED BY <1>1, <1>2, InvariantHolds, PTL DEF Spec, SinkSpec, Sink!Spec, Status

-----------------------------------------------------------------------------
(* The timestamps in the output.                                           *)

\* A packet with timestamp w does not come after a frame with timestamp p, and
\* before it if the unit of time of the output is fine enough.
NotAfter(w, p) == w <= Rescaled(p) /\ (FineUnit => w < Rescaled(p))

\* What was written last is not later than any frame in the pipeline, nor than
\* any that pushFrame() is going to take.
WrittenInv ==
  Strict => /\ written <= Rescaled(lastPts)
            /\ \A x \in All("encoder") \cup All("scaler") : NotAfter(written, x.pts)

\* A step that writes nothing keeps WrittenInv if a frame that it brings in has
\* the timestamp of another, or a later one than all before.
LEMMA WrittenKept ==
  ASSUME TypeOK, WrittenInv, written' = written, lastPts' \in Nat,
         Strict => lastPts <= lastPts',
         \A x \in All("encoder")' \cup All("scaler")' :
           \/ \E y \in All("encoder") \cup All("scaler") : y.pts = x.pts
           \/ x.pts \in Nat /\ (Strict => lastPts < x.pts)
  PROVE  WrittenInv'
<1> SUFFICES ASSUME Strict
             PROVE  /\ written <= Rescaled(lastPts')
                    /\ \A x \in All("encoder")' \cup All("scaler")' : NotAfter(written, x.pts)
  BY DEF WrittenInv, NotAfter, Rescaled
<1>1. lastPts \in Nat /\ written \in Int /\ written <= Rescaled(lastPts)
  BY TypeParts, FrameProperties DEF ValuesTyped, WrittenInv
<1>2. written <= Rescaled(lastPts')
  <2>1. /\ Rescaled(lastPts) \in Nat /\ Rescaled(lastPts') \in Nat
        /\ Rescaled(lastPts) <= Rescaled(lastPts')
    BY <1>1, RescaledProperties
  <2> QED BY <1>1, <2>1
<1>3. ASSUME NEW p \in Nat, lastPts < p PROVE NotAfter(written, p)
  <2>1. /\ Rescaled(lastPts) \in Nat /\ Rescaled(p) \in Nat /\ Rescaled(lastPts) <= Rescaled(p)
        /\ FineUnit => Rescaled(lastPts) < Rescaled(p)
    BY <1>1, <1>3, RescaledProperties
  <2> QED BY <1>1, <2>1 DEF NotAfter
<1>4. \A y \in All("encoder") \cup All("scaler") : NotAfter(written, y.pts)
  BY DEF WrittenInv
<1> QED BY <1>2, <1>3, <1>4

\* writePacket() writes the first of the frames in the pipeline.
LEMMA WritePacketSteps ==
  ASSUME IInv, WrittenInv, WritePacket, Strict
  PROVE  WrittenInv' /\ written <= written' /\ (FineUnit => written < written')
<1> DEFINE i == inner["encoder"]
           y == Head(i)
           B == Elems(Tail(i)) \cup Elems(cur["encoder"]) \cup Elems(queue["encoder"])
<1>1. "encoder" \in Stages /\ "scaler" \in Stages
  BY DEF Stages
<1>2. /\ i \in Seq(GpuFrames) /\ cur["encoder"] \in Seq(GpuFrames)
      /\ queue["encoder"] \in Seq(GpuFrames) /\ Len(cur["encoder"]) <= 1
  BY <1>1, TypeParts DEF IInv, FramesTyped, FrameType
<1>3. /\ i # <<>> /\ inner' = [inner EXCEPT !["encoder"] = Tail(i)] /\ UNCHANGED <<cur, queue, lastPts>>
      /\ written' = Rescaled(y.pts)
  BY DEF WritePacket, Extract
<1>4. y \in GpuFrames /\ y \in Elems(i)
  <2> HIDE DEF i
  <2> QED BY <1>2, <1>3, ChainTail
<1>5. y \in All("encoder") /\ y.pts \in Nat /\ y.pts <= lastPts /\ lastPts \in Nat
      /\ NotAfter(written, y.pts)
  <2>1. y \in All("encoder") /\ y.pts \in Nat
    BY <1>4, FrameProperties DEF All
  <2>2. lastPts \in Nat
    BY TypeParts, FrameProperties DEF IInv, ValuesTyped
  <2> QED BY <2>1, <2>2 DEF IInv, OrderInv, WrittenInv
<1>6. Before({y}, B) /\ B \subseteq GpuFrames
  <2>1. Ordered(i, cur["encoder"], queue["encoder"])
    BY <1>1 DEF IInv, OrderInv, StageOrdered
  <2> HIDE DEF i
  <2>2. Before({y}, B)
    BY <1>2, <1>3, <2>1, OrderedProperties
  <2>3. Tail(i) \in Seq(GpuFrames)
    BY <1>2, <1>3, ChainTail
  <2> QED BY <1>2, <2>2, <2>3, ElemsOf
<1>7. All("encoder")' = B /\ All("scaler")' = All("scaler")
  <2>1. inner'["encoder"] = Tail(i) /\ inner'["scaler"] = inner["scaler"]
    BY <1>1, <1>3 DEF IInv, ShapeInv, OfStages
  <2> QED BY <1>3, <2>1 DEF All
<1>8. ASSUME NEW x \in B \cup All("scaler") PROVE NotAfter(written', x.pts)
  <2>1. x.pts \in Nat /\ y.pts < x.pts
    <3>1. CASE x \in B
      BY <1>6, <3>1, FrameProperties DEF Before, Ahead
    <3>2. CASE x \in All("scaler")
      <4>1. x \in Frames /\ Ahead(y, x)
        BY <1>1, <1>5, <3>2, StageTypes DEF IInv, OrderInv, Before
      <4> QED BY <4>1, FrameProperties DEF Ahead
    <3> QED BY <1>8, <3>1, <3>2
  <2>2. /\ Rescaled(y.pts) <= Rescaled(x.pts)
        /\ FineUnit => Rescaled(y.pts) < Rescaled(x.pts)
    BY <1>5, <2>1, RescaledProperties
  <2> QED BY <1>3, <2>2 DEF NotAfter
<1>9. written' <= Rescaled(lastPts')
  BY <1>3, <1>5, RescaledProperties
<1>10. WrittenInv'
  BY <1>7, <1>8, <1>9 DEF WrittenInv, NotAfter, Rescaled
<1> QED BY <1>3, <1>5, <1>10 DEF NotAfter

\* Nothing was written in the initial states.
LEMMA WrittenInit == Init => WrittenInv
<1> SUFFICES ASSUME Init PROVE WrittenInv
  OBVIOUS
<1>1. written = -1 /\ lastPts = 0 /\ Rescaled(0) \in Nat
  BY RescaledProperties DEF Init
<1>2. \A s \in Stages : All(s) = {}
  BY ElemsOf DEF Init, All
<1> QED BY <1>1, <1>2 DEF WrittenInv, Stages

\* Every step keeps WrittenInv.
LEMMA WrittenNext == IInv /\ WrittenInv /\ [Next]_vars => WrittenInv'
<1>0. "scaler" \in Stages /\ "encoder" \in Stages
  BY DEF Stages
<1> USE DEF outputVars, stageVars
<1>1. ASSUME IInv, WrittenInv, NEW f \in Frames, PushFrame(f) PROVE WrittenInv'
  <2>1. /\ inner' = inner /\ cur' = cur /\ queue'["encoder"] = queue["encoder"]
        /\ All("scaler")' \subseteq All("scaler") \cup {f}
    BY <1>1, PushSteps DEF IInv
  <2>2. All("encoder")' = All("encoder")
    BY <2>1 DEF All
  <2>3. /\ lastPts \in Nat /\ f.pts \in Nat /\ written' = written /\ (Strict => lastPts < f.pts)
        /\ lastPts' = (IF Strict THEN f.pts ELSE lastPts)
    BY <1>1, TypeParts, FrameProperties DEF IInv, ValuesTyped, PushFrame, KeepPts, Accepted
  <2> QED BY <1>1, <2>1, <2>2, <2>3, WrittenKept DEF IInv
<1>2. ASSUME IInv, WrittenInv, NEW f \in Frames, PushFrameThrows(f) PROVE WrittenInv'
  <2>1. \A s \in Stages : All(s)' = All(s)
    BY <1>2 DEF PushFrameThrows, All
  <2>2. /\ lastPts \in Nat /\ f.pts \in Nat /\ written' = written /\ (Strict => lastPts < f.pts)
        /\ lastPts' = (IF Strict THEN f.pts ELSE lastPts)
    BY <1>2, TypeParts, FrameProperties DEF IInv, ValuesTyped, PushFrameThrows, KeepPts, Accepted
  <2> QED BY <1>0, <1>2, <2>1, <2>2, WrittenKept DEF IInv
<1>3. ASSUME IInv, WrittenInv, written' = written, lastPts' = lastPts,
             \A s \in Stages : All(s)' \subseteq All(s)
      PROVE  WrittenInv'
  <2>1. lastPts \in Nat
    BY <1>3, TypeParts, FrameProperties DEF IInv, ValuesTyped
  <2> QED BY <1>0, <1>3, <2>1, WrittenKept DEF IInv
<1>4. ASSUME IInv, WrittenInv, NEW s \in Stages, StageThread(s) \/ DestroyStage(s),
             ~(s = "scaler" /\ ScalingDone), ~(s = "encoder" /\ WritePacket)
      PROVE  WrittenInv'
  <2>1. All(s)' \subseteq All(s)
    BY <1>4, StageSteps DEF IInv, OrderInv
  <2>2. \A t \in Stages : t # s =>
          inner'[t] = inner[t] /\ cur'[t] = cur[t] /\ queue'[t] = queue[t]
    <3>1. CASE StageThread(s)
      BY <1>4, <3>1, ThreadSteps DEF IInv
    <3>2. CASE DestroyStage(s)
      BY <1>4, <3>2 DEF DestroyStage, IInv, ShapeInv, OfStages
    <3> QED BY <1>4, <3>1, <3>2
  <2>3. \A t \in Stages : All(t)' \subseteq All(t)
    BY <2>1, <2>2 DEF All
  <2>4. written' = written /\ lastPts' = lastPts
    BY <1>4, Zenon DEF StageThread, DestroyStage, Dequeue, DequeueEnd, Add, AddFails, ExtractNothing,
       ExtractFails, ScalingDone, ScalingDoneThrows, WritePacketThrows, Catch
  <2> QED BY <1>3, <1>4, <2>3, <2>4
<1>5. ASSUME IInv, WrittenInv, ScalingDone PROVE WrittenInv'
  <2>1. StageThread("scaler")
    BY <1>5 DEF StageThread
  <2>2. All("scaler")' \subseteq All("scaler") /\ written' = written /\ lastPts' = lastPts
    BY <1>0, <1>5, <2>1, StageSteps DEF IInv, OrderInv, ScalingDone
  <2>3. PICK x \in GpuFrames :
           /\ \E y \in All("scaler") : y.pts = x.pts
           /\ All("encoder")' \subseteq All("encoder") \cup {x}
    BY <1>5, ScalingSteps DEF IInv
  <2>4. lastPts \in Nat
    BY <1>5, TypeParts, FrameProperties DEF IInv, ValuesTyped
  <2> QED BY <1>5, <2>2, <2>3, <2>4, WrittenKept DEF IInv
<1>6. ASSUME IInv, WrittenInv, WritePacket PROVE WrittenInv'
  BY <1>6, WritePacketSteps DEF WrittenInv
<1>7. ASSUME IInv, WrittenInv,
             \/ DestroyBegin \/ DestroyMuxer \/ Finished \/ (\E s \in Stages : SignalEOF(s))
             \/ UNCHANGED vars
      PROVE  WrittenInv'
  <2>1. UNCHANGED <<inner, cur, queue, lastPts, written>>
    BY <1>7 DEF DestroyBegin, DestroyMuxer, Finished, SignalEOF, vars
  <2> QED BY <1>3, <1>7, <2>1 DEF All
<1> QED BY <1>1, <1>2, <1>4, <1>5, <1>6, <1>7 DEF Next, Caller, Destroy

\* A strict muxer gets timestamps that never decrease, whatever is discarded and
\* whatever the time base of the output.
THEOREM OutputMonotonic == Spec => [][Strict /\ WritePacket => written <= written']_vars
<1>1. IInv /\ WrittenInv /\ [Next]_vars => [Strict /\ WritePacket => written <= written']_vars
  BY WritePacketSteps
<1> QED BY <1>1, InvariantHolds, WrittenInit, WrittenNext, PTL DEF Spec

\* They are strictly monotonic, as the muxer requires, if the unit of time of the
\* output is no coarser than the microsecond that pushFrame() compares; with a
\* coarser one TLC finds two frames that are rounded to the same unit.
THEOREM OutputStrictInFineUnits == FineUnit /\ Spec => OutputStrictlyMonotonic
<1> SUFFICES ASSUME FineUnit PROVE Spec => OutputStrictlyMonotonic
  OBVIOUS
<1>1. IInv /\ WrittenInv /\ [Next]_vars => [Strict /\ WritePacket => written' > written]_vars
  <2> SUFFICES ASSUME IInv, WrittenInv, Strict, WritePacket PROVE written' > written
    OBVIOUS
  <2>1. written < written'
    BY WritePacketSteps
  <2> QED BY <2>1
<1> QED BY <1>1, InvariantHolds, WrittenInit, WrittenNext, PTL DEF Spec, OutputStrictlyMonotonic
=============================================================================
