---------------------- MODULE BlockingRingbufferProofs ----------------------
(***************************************************************************)
(* What BlockingRingbuffer guarantees for every number of threads, every   *)
(* capacity and every threshold of compaction.                             *)
(***************************************************************************)
EXTENDS BlockingRingbuffer, SequenceTheorems, TLAPS

\* A vector and an index that does not point past its end.
Rings ==
  {r \in [ringBuffer : Seq(Nat), tailIndex : Nat] : r.tailIndex <= Len(r.ringBuffer)}

-----------------------------------------------------------------------------
(* Suffixes of a sequence.                                                 *)

\* Appending to a sequence appends to each of its suffixes.
LEMMA SuffixOfAppend ==
  ASSUME NEW s \in Seq(Nat), NEW f \in Nat, NEW t \in 0 .. Len(s)
  PROVE  SubSeq(Append(s, f), t + 1, Len(s) + 1) = Append(SubSeq(s, t + 1, Len(s)), f)
<1> DEFINE a == Append(s, f)
<1>1. /\ a \in Seq(Nat)
      /\ Len(a) = Len(s) + 1
      /\ a[Len(s) + 1] = f
      /\ Len(s) \in Nat
  BY AppendProperties, LenProperties
<1>2. /\ t + 1 \in 1 .. Len(a)
      /\ Len(s) + 1 \in t + 1 .. Len(a)
      /\ (Len(s) + 1) - 1 = Len(s)
  BY <1>1
<1>3. SubSeq(a, t + 1, Len(s) + 1) = SubSeq(a, t + 1, (Len(s) + 1) - 1) \o <<a[Len(s) + 1]>>
  BY <1>1, <1>2, SubSeqRecursiveSecond, Zenon
<1>4. SubSeq(a, t + 1, Len(s)) = SubSeq(s, t + 1, Len(s))
  <2>1. CASE t = Len(s)
    <3>1. t + 1 \in Int /\ Len(s) \in Int /\ Len(s) < t + 1
      BY <1>1, <2>1
    <3> QED BY <3>1, SubSeqEmpty, Zenon
  <2>2. CASE t # Len(s)
    <3>1. a = s \o <<f>> /\ <<f>> \in Seq(Nat)
      BY AppendIsConcat
    <3>2. t + 1 \in 1 .. Len(s) /\ Len(s) \in 1 .. Len(s)
      BY <1>1, <2>2
    <3>3. SubSeq(s \o <<f>>, t + 1, Len(s)) = SubSeq(s, t + 1, Len(s))
      BY <3>1, <3>2, SubSeqOfConcat1
    <3> QED BY <3>1, <3>3
  <2> QED BY <2>1, <2>2
<1>5. SubSeq(s, t + 1, Len(s)) \in Seq(Nat)
  BY <1>1, SubSeqProperties
<1>6. Append(SubSeq(s, t + 1, Len(s)), f) = SubSeq(s, t + 1, Len(s)) \o <<f>>
  BY <1>5, AppendIsConcat
<1> QED BY <1>1, <1>2, <1>3, <1>4, <1>6

\* Two sequences of one length that agree from t + 1 on have the same suffix.
LEMMA SuffixEqual ==
  ASSUME NEW s \in Seq(Nat), NEW u \in Seq(Nat), Len(u) = Len(s), NEW t \in Nat,
         \A i \in t + 1 .. Len(s) : u[i] = s[i]
  PROVE  SubSeq(u, t + 1, Len(s)) = SubSeq(s, t + 1, Len(s))
<1> DEFINE n == Len(s)
<1>1. n \in Nat
  BY LenProperties
<1>2. \A i \in t + 1 .. n : s[i] \in Nat /\ u[i] \in Nat
  BY <1>1
<1>3. /\ t + 1 \in Int
      /\ n \in Int
  BY <1>1
<1> HIDE DEF n
<1>4. /\ SubSeq(s, t + 1, n) \in Seq(Nat)
      /\ Len(SubSeq(s, t + 1, n)) = IF t + 1 <= n THEN n - (t + 1) + 1 ELSE 0
      /\ \A i \in 1 .. n - (t + 1) + 1 : SubSeq(s, t + 1, n)[i] = s[t + 1 + i - 1]
  BY <1>2, <1>3, SubSeqProperties
<1>5. /\ SubSeq(u, t + 1, n) \in Seq(Nat)
      /\ Len(SubSeq(u, t + 1, n)) = IF t + 1 <= n THEN n - (t + 1) + 1 ELSE 0
      /\ \A i \in 1 .. n - (t + 1) + 1 : SubSeq(u, t + 1, n)[i] = u[t + 1 + i - 1]
  BY <1>2, <1>3, SubSeqProperties
<1>6. \A i \in 1 .. n - (t + 1) + 1 : t + 1 + i - 1 \in t + 1 .. n
  BY <1>1
<1>7. \A i \in 1 .. n - (t + 1) + 1 : u[t + 1 + i - 1] = s[t + 1 + i - 1]
  BY <1>6, Zenon DEF n
<1>8. \A i \in 1 .. Len(SubSeq(s, t + 1, n)) : i \in 1 .. n - (t + 1) + 1
  BY <1>1, <1>4
<1>9. \A i \in 1 .. Len(SubSeq(s, t + 1, n)) :
         SubSeq(s, t + 1, n)[i] = SubSeq(u, t + 1, n)[i]
  BY <1>4, <1>5, <1>7, <1>8, Zenon
<1>10. SubSeq(s, t + 1, n) = SubSeq(u, t + 1, n)
  BY <1>4, <1>5, <1>9, SeqEqual, Zenon
<1> QED BY <1>10 DEF n

-----------------------------------------------------------------------------
(* The operations on the vector, seen from the frames that wait.           *)

\* What it takes to be a ring, without its record.
LEMMA RingProperties ==
  ASSUME NEW r \in Rings
  PROVE  /\ r.ringBuffer \in Seq(Nat)
         /\ r.tailIndex \in Nat
         /\ Len(r.ringBuffer) \in Nat
         /\ r.tailIndex \in 0 .. Len(r.ringBuffer)
         /\ Size(r) \in Nat
         /\ Size(r) = Len(r.ringBuffer) - r.tailIndex
<1>1. /\ r.ringBuffer \in Seq(Nat)
      /\ r.tailIndex \in Nat
      /\ r.tailIndex <= Len(r.ringBuffer)
  BY DEF Rings
<1>2. Len(r.ringBuffer) \in Nat
  BY <1>1, LenProperties
<1> QED BY <1>1, <1>2 DEF Size

\* The numbers in it alone: size() does not wrap around.
LEMMA RingNumbers ==
  ASSUME NEW r \in Rings
  PROVE  /\ r.tailIndex \in Nat
         /\ Len(r.ringBuffer) \in Nat
         /\ Size(r) \in Nat
         /\ Len(r.ringBuffer) = r.tailIndex + Size(r)
<1>1. /\ r.tailIndex \in Nat
      /\ Len(r.ringBuffer) \in Nat
      /\ Size(r) \in Nat
      /\ Size(r) = Len(r.ringBuffer) - r.tailIndex
  BY RingProperties, Zenon
<1> QED BY <1>1

\* The waiting frames are a sequence of size() frames.
LEMMA LiveProperties ==
  ASSUME NEW r \in Rings
  PROVE  /\ Live(r) \in Seq(Nat)
         /\ Len(Live(r)) = Size(r)
<1>1. /\ r.tailIndex + 1 \in Int
      /\ Len(r.ringBuffer) \in Int
      /\ \A i \in r.tailIndex + 1 .. Len(r.ringBuffer) : r.ringBuffer[i] \in Nat
  BY RingProperties
<1> DEFINE s == SubSeq(r.ringBuffer, r.tailIndex + 1, Len(r.ringBuffer))
<1>2. /\ s \in Seq(Nat)
      /\ Len(s) = IF r.tailIndex + 1 <= Len(r.ringBuffer)
                  THEN Len(r.ringBuffer) - (r.tailIndex + 1) + 1 ELSE 0
  BY <1>1, SubSeqProperties
<1> HIDE DEF s
<1>3. Len(s) = Size(r)
  BY <1>2, RingProperties
<1> QED
  BY <1>2, <1>3 DEF Live, s

\* push_back adds the new frame behind those that wait.
LEMMA PushBackLive ==
  ASSUME NEW r \in Rings, NEW f \in Nat
  PROVE  /\ PushBack(r, f) \in Rings
         /\ PushBack(r, f).ringBuffer = Append(r.ringBuffer, f)
         /\ PushBack(r, f).tailIndex = r.tailIndex
         /\ Size(PushBack(r, f)) = Size(r) + 1
         /\ Live(PushBack(r, f)) = Append(Live(r), f)
<1>1. /\ r \in [ringBuffer : Seq(Nat), tailIndex : Nat]
      /\ r.tailIndex <= Len(r.ringBuffer)
  BY DEF Rings
<1>2. /\ Append(r.ringBuffer, f) \in Seq(Nat)
      /\ Len(Append(r.ringBuffer, f)) = Len(r.ringBuffer) + 1
      /\ Len(r.ringBuffer) \in Nat
  BY <1>1
<1>3. /\ PushBack(r, f).ringBuffer = Append(r.ringBuffer, f)
      /\ PushBack(r, f).tailIndex = r.tailIndex
  BY DEF PushBack
<1>4. /\ PushBack(r, f) \in Rings
      /\ Size(PushBack(r, f)) = Size(r) + 1
  <2>1. r.tailIndex <= Len(Append(r.ringBuffer, f))
    BY <1>1, <1>2
  <2>2. Size(PushBack(r, f)) = Size(r) + 1
    BY <1>2, <1>3, RingProperties DEF Size
  <2> QED BY <1>1, <1>2, <2>1, <2>2 DEF Rings, PushBack
<1>5. Live(PushBack(r, f)) = SubSeq(Append(r.ringBuffer, f), r.tailIndex + 1, Len(r.ringBuffer) + 1)
  BY <1>2, <1>3 DEF Live
<1>6. @ = Append(Live(r), f)
  BY RingProperties, SuffixOfAppend, Zenon DEF Live
<1> QED BY <1>3, <1>4, <1>5, <1>6

\* Moving the oldest frame out leaves the others as they were.
LEMMA MoveOutLive ==
  ASSUME NEW r \in Rings, Size(r) > 0
  PROVE  /\ MoveOut(r) \in Rings
         /\ MoveOut(r).tailIndex = r.tailIndex + 1
         /\ Len(MoveOut(r).ringBuffer) = Len(r.ringBuffer)
         /\ \A i \in 1 .. Len(r.ringBuffer) :
              i # r.tailIndex + 1 => MoveOut(r).ringBuffer[i] = r.ringBuffer[i]
         /\ Size(MoveOut(r)) = Size(r) - 1
         /\ Live(MoveOut(r)) = Tail(Live(r))
         /\ Oldest(r) = Head(Live(r))
         /\ Oldest(r) \in Nat
         /\ Live(r) # <<>>
<1> DEFINE u == [r.ringBuffer EXCEPT ![r.tailIndex + 1] = Moved]
<1>1. /\ r.tailIndex + 1 \in 1 .. Len(r.ringBuffer)
      /\ Len(r.ringBuffer) \in r.tailIndex + 1 .. Len(r.ringBuffer)
      /\ Moved \in Nat
  BY RingProperties DEF Moved
<1>2. /\ u \in Seq(Nat)
      /\ Len(u) = Len(r.ringBuffer)
      /\ \A i \in 1 .. Len(r.ringBuffer) :
           u[i] = IF i = r.tailIndex + 1 THEN Moved ELSE r.ringBuffer[i]
  BY <1>1, RingProperties, ExceptSeq
<1> HIDE DEF u
<1>3. MoveOut(r) = [ringBuffer |-> u, tailIndex |-> r.tailIndex + 1]
  BY DEF MoveOut, u
<1>4. /\ MoveOut(r).ringBuffer = u
      /\ MoveOut(r).tailIndex = r.tailIndex + 1
  BY <1>3
<1>5. MoveOut(r) \in Rings
  BY <1>1, <1>2, <1>3, RingProperties DEF Rings
<1>6. Size(MoveOut(r)) = Size(r) - 1
  BY <1>2, <1>4, RingProperties DEF Size
<1>7. Live(MoveOut(r)) = SubSeq(r.ringBuffer, (r.tailIndex + 1) + 1, Len(r.ringBuffer))
  <2>1. \A i \in (r.tailIndex + 1) + 1 .. Len(r.ringBuffer) :
          i \in 1 .. Len(r.ringBuffer) /\ i # r.tailIndex + 1
    BY RingProperties
  <2>2. \A i \in (r.tailIndex + 1) + 1 .. Len(r.ringBuffer) : u[i] = r.ringBuffer[i]
    BY <1>2, <2>1, Zenon
  <2>3. r.tailIndex + 1 \in Nat
    BY RingProperties
  <2>4. SubSeq(u, (r.tailIndex + 1) + 1, Len(r.ringBuffer))
          = SubSeq(r.ringBuffer, (r.tailIndex + 1) + 1, Len(r.ringBuffer))
    BY <1>2, <2>2, <2>3, RingProperties, SuffixEqual, Zenon
  <2> QED BY <1>2, <1>4, <2>4, Zenon DEF Live
<1>8. /\ Head(Live(r)) = r.ringBuffer[r.tailIndex + 1]
      /\ Tail(Live(r)) = SubSeq(r.ringBuffer, (r.tailIndex + 1) + 1, Len(r.ringBuffer))
  BY <1>1, RingProperties, HeadTailOfSubSeq, Zenon DEF Live
<1>9. /\ Oldest(r) = Head(Live(r))
      /\ Oldest(r) \in Nat
  BY <1>1, <1>8, RingProperties, ElementOfSeq, Zenon DEF Oldest
<1>10. Live(r) # <<>>
  BY RingProperties, LiveProperties
<1>11. \A i \in 1 .. Len(r.ringBuffer) :
         i # r.tailIndex + 1 => MoveOut(r).ringBuffer[i] = r.ringBuffer[i]
  BY <1>2, <1>4, Zenon
<1>12. Len(MoveOut(r).ringBuffer) = Len(r.ringBuffer)
  BY <1>2, <1>4, Zenon
<1> QED BY <1>4, <1>5, <1>6, <1>7, <1>8, <1>9, <1>10, <1>11, <1>12, Zenon

\* Erasing the dead slots does not touch a frame that waits.
LEMMA EraseDeadLive ==
  ASSUME NEW r \in Rings
  PROVE  /\ EraseDead(r) \in Rings
         /\ EraseDead(r).tailIndex = 0
         /\ EraseDead(r).ringBuffer = Live(r)
         /\ Size(EraseDead(r)) = Size(r)
         /\ Live(EraseDead(r)) = Live(r)
<1>1. /\ Live(r) \in Seq(Nat)
      /\ Len(Live(r)) = Size(r)
  BY LiveProperties
<1>2. /\ EraseDead(r).ringBuffer = Live(r)
      /\ EraseDead(r).tailIndex = 0
      /\ EraseDead(r).tailIndex + 1 = 1
  BY DEF EraseDead
<1>3. Live(EraseDead(r)) = SubSeq(Live(r), 1, Len(Live(r)))
  BY <1>2 DEF Live
<1>4. SubSeq(Live(r), 1, Len(Live(r))) = Live(r)
  BY <1>1, SubSeqFull
<1>5. EraseDead(r) \in Rings
  BY <1>1, LenProperties DEF EraseDead, Rings
<1>6. Size(EraseDead(r)) = Size(r)
  BY <1>1, <1>2, RingProperties DEF Size
<1> QED BY <1>2, <1>3, <1>4, <1>5, <1>6

-----------------------------------------------------------------------------
(* enqueue() and dequeue().                                                *)

\* Moving a frame out leaves the numbers of the others.
LEMMA MoveOutNumbered ==
  ASSUME NEW r \in Rings, NEW n \in Nat, Size(r) > 0, NumberedUpTo(r, n)
  PROVE  /\ NumberedUpTo(MoveOut(r), n)
         /\ Oldest(r) = n - Size(r) + 1
<1>1. \A i \in (r.tailIndex + 1) + 1 .. Len(r.ringBuffer) :
        /\ i \in r.tailIndex + 1 .. Len(r.ringBuffer)
        /\ i \in 1 .. Len(r.ringBuffer)
        /\ i # r.tailIndex + 1
  BY RingProperties
<1>2. \A i \in (r.tailIndex + 1) + 1 .. Len(r.ringBuffer) :
        MoveOut(r).ringBuffer[i] = n - Len(r.ringBuffer) + i
  BY <1>1, MoveOutLive, Zenon DEF NumberedUpTo
<1>3. NumberedUpTo(MoveOut(r), n)
  BY <1>2, MoveOutLive, Zenon DEF NumberedUpTo
<1>4. r.tailIndex + 1 \in r.tailIndex + 1 .. Len(r.ringBuffer)
  BY RingProperties
<1>5. Oldest(r) = n - Len(r.ringBuffer) + (r.tailIndex + 1)
  BY <1>4, Zenon DEF NumberedUpTo, Oldest
<1>6. n - Len(r.ringBuffer) + (r.tailIndex + 1) = n - Size(r) + 1
  <2>1. /\ r.tailIndex \in Nat
        /\ Len(r.ringBuffer) \in Nat
        /\ Size(r) \in Nat
        /\ Len(r.ringBuffer) = r.tailIndex + Size(r)
    BY RingNumbers
  <2> QED BY <2>1
<1> QED BY <1>3, <1>5, <1>6

\* Numbering counted from one more frame, in a vector one slot longer.
LEMMA ShiftBothBy1 ==
  ASSUME NEW n \in Nat, NEW m \in Nat, NEW i \in Int
  PROVE  n - m + i = (n + 1) - (m + 1) + i
OBVIOUS

\* The new frame continues the numbering.
LEMMA PushBackNumbered ==
  ASSUME NEW r \in Rings, NEW n \in Nat, NumberedUpTo(r, n)
  PROVE  NumberedUpTo(PushBack(r, n + 1), n + 1)
<1> DEFINE a == Append(r.ringBuffer, n + 1)
<1>0. /\ r.tailIndex \in Nat
      /\ Len(r.ringBuffer) \in Nat
      /\ Size(r) \in Nat
      /\ Len(r.ringBuffer) = r.tailIndex + Size(r)
  BY RingNumbers
<1>a. \A i \in Int : n - Len(r.ringBuffer) + i = (n + 1) - (Len(r.ringBuffer) + 1) + i
  BY <1>0, ShiftBothBy1, Zenon
<1>1. /\ Len(a) = Len(r.ringBuffer) + 1
      /\ \A i \in 1 .. Len(r.ringBuffer) : a[i] = r.ringBuffer[i]
      /\ a[Len(r.ringBuffer) + 1] = n + 1
  BY RingProperties, AppendProperties
<1> HIDE DEF a
<1>2. ASSUME NEW i \in r.tailIndex + 1 .. Len(a)
      PROVE  a[i] = (n + 1) - Len(a) + i
  <2>1. CASE i = Len(r.ringBuffer) + 1
    <3>1. (n + 1) - (Len(r.ringBuffer) + 1) + (Len(r.ringBuffer) + 1) = n + 1
      BY <1>0
    <3> QED BY <1>1, <2>1, <3>1, Zenon
  <2>2. CASE i # Len(r.ringBuffer) + 1
    <3>1. /\ i \in 1 .. Len(r.ringBuffer)
          /\ i \in r.tailIndex + 1 .. Len(r.ringBuffer)
      BY <1>1, <2>2, RingProperties
    <3>2. a[i] = n - Len(r.ringBuffer) + i
      BY <1>1, <3>1, Zenon DEF NumberedUpTo
    <3>3. n - Len(r.ringBuffer) + i = (n + 1) - (Len(r.ringBuffer) + 1) + i
      <4>1. i \in Int
        BY <3>1
      <4> QED BY <1>a, <4>1, Zenon
    <3> QED BY <1>1, <3>2, <3>3, Zenon
  <2> QED BY <2>1, <2>2
<1>3. /\ PushBack(r, n + 1).ringBuffer = a
      /\ PushBack(r, n + 1).tailIndex = r.tailIndex
  BY DEF PushBack, a
<1> QED BY <1>2, <1>3, Zenon DEF NumberedUpTo

\* Erasing shifts the waiting frames and keeps their numbers.
LEMMA EraseDeadNumbered ==
  ASSUME NEW r \in Rings, NEW n \in Nat, NumberedUpTo(r, n)
  PROVE  NumberedUpTo(EraseDead(r), n)
<1>1. /\ \A i \in r.tailIndex + 1 .. Len(r.ringBuffer) : r.ringBuffer[i] \in Nat
      /\ r.tailIndex + 1 \in Int
      /\ Len(r.ringBuffer) \in Int
  BY RingProperties
<1>2. \A i \in 1 .. Len(r.ringBuffer) - (r.tailIndex + 1) + 1 :
        SubSeq(r.ringBuffer, r.tailIndex + 1, Len(r.ringBuffer))[i]
          = r.ringBuffer[(r.tailIndex + 1) + i - 1]
  BY <1>1, SubSeqProperties
<1>3. ASSUME NEW i \in 0 + 1 .. Size(r)
      PROVE  Live(r)[i] = n - Size(r) + i
  <2>1. i \in 1 .. Len(r.ringBuffer) - (r.tailIndex + 1) + 1
    BY RingProperties
  <2>2. Live(r)[i] = r.ringBuffer[(r.tailIndex + 1) + i - 1]
    BY <1>2, <2>1, Zenon DEF Live
  <2>3. (r.tailIndex + 1) + i - 1 \in r.tailIndex + 1 .. Len(r.ringBuffer)
    BY RingProperties
  <2>4. Live(r)[i] = n - Len(r.ringBuffer) + ((r.tailIndex + 1) + i - 1)
    BY <2>2, <2>3, Zenon DEF NumberedUpTo
  <2>5. n - Len(r.ringBuffer) + ((r.tailIndex + 1) + i - 1) = n - Size(r) + i
    BY RingProperties
  <2> QED BY <2>4, <2>5
<1> QED BY <1>3, EraseDeadLive, LiveProperties, Zenon DEF NumberedUpTo

\* The tolerated number of dead slots is a natural number.
LEMMA CompactAtNat == CompactAt \in Nat
BY SizesAssumption DEF CompactAt

\* What enqueue() does to the queue.
LEMMA EnqueuedProperties ==
  ASSUME NEW r \in Rings, NEW n \in Nat, Size(r) <= Capacity, NumberedUpTo(r, n)
  PROVE  /\ Enqueued(r, n + 1) \in Rings
         /\ NumberedUpTo(Enqueued(r, n + 1), n + 1)
         /\ Live(Enqueued(r, n + 1)) = Queue!Newest(Append(Live(r), n + 1))
         /\ \/ /\ Size(Enqueued(r, n + 1)) = Size(r) + 1
               /\ Enqueued(r, n + 1).tailIndex = r.tailIndex
               /\ Size(r) + 1 <= Capacity
            \/ /\ Size(Enqueued(r, n + 1)) = Size(r)
               /\ Enqueued(r, n + 1).tailIndex = r.tailIndex + 1
<1> DEFINE p == PushBack(r, n + 1)
<1>1. Size(r) \in Nat /\ Capacity \in Nat /\ n + 1 \in Nat
  BY RingNumbers, SizesAssumption
<1>2. /\ p \in Rings
      /\ p.tailIndex = r.tailIndex
      /\ Size(p) = Size(r) + 1
      /\ Live(p) = Append(Live(r), n + 1)
  BY <1>1, PushBackLive, Zenon
<1>3. NumberedUpTo(p, n + 1)
  BY PushBackNumbered, Zenon
<1>4. Len(Live(p)) = Size(p)
  BY <1>2, LiveProperties, Zenon
<1> HIDE DEF p
<1>5. CASE Size(p) > Capacity
  <2>1. Enqueued(r, n + 1) = MoveOut(p)
    BY <1>5 DEF Enqueued, p
  <2>2. Size(p) > 0
    BY <1>1, <1>2
  <2>3. /\ MoveOut(p) \in Rings
        /\ MoveOut(p).tailIndex = p.tailIndex + 1
        /\ Size(MoveOut(p)) = Size(p) - 1
        /\ Live(MoveOut(p)) = Tail(Live(p))
    BY <1>2, <2>2, MoveOutLive, Zenon
  <2>4. NumberedUpTo(MoveOut(p), n + 1)
    BY <1>1, <1>2, <1>3, <2>2, MoveOutNumbered, Zenon
  <2>5. (Size(r) + 1) - 1 = Size(r)
    BY <1>1
  <2>6. Live(MoveOut(p)) = Queue!Newest(Append(Live(r), n + 1))
    BY <1>2, <1>4, <1>5, <2>3, Zenon DEF Queue!Newest
  <2> QED BY <1>2, <2>1, <2>3, <2>4, <2>5, <2>6, Zenon
<1>6. CASE ~(Size(p) > Capacity)
  <2>1. Enqueued(r, n + 1) = p
    BY <1>6 DEF Enqueued, p
  <2>2. Size(r) + 1 <= Capacity
    BY <1>1, <1>2, <1>6
  <2>3. Live(p) = Queue!Newest(Append(Live(r), n + 1))
    BY <1>2, <1>4, <1>6, Zenon DEF Queue!Newest
  <2> QED BY <1>2, <1>3, <2>1, <2>2, <2>3, Zenon
<1> QED BY <1>5, <1>6

\* What dequeue() does to the queue when it returns a frame.
LEMMA DequeuedProperties ==
  ASSUME NEW r \in Rings, NEW n \in Nat, Size(r) > 0, NumberedUpTo(r, n)
  PROVE  /\ Dequeued(r) \in Rings
         /\ NumberedUpTo(Dequeued(r), n)
         /\ Size(Dequeued(r)) = Size(r) - 1
         /\ Live(Dequeued(r)) = Tail(Live(r))
         /\ Dequeued(r).tailIndex <= CompactAt
<1> DEFINE p == MoveOut(r)
<1>1. /\ p \in Rings
      /\ p.tailIndex = r.tailIndex + 1
      /\ Size(p) = Size(r) - 1
      /\ Live(p) = Tail(Live(r))
  BY MoveOutLive, Zenon
<1>2. NumberedUpTo(p, n)
  BY MoveOutNumbered, Zenon
<1>3. r.tailIndex \in Nat /\ CompactAt \in Nat
  BY RingNumbers, CompactAtNat, Zenon
<1> HIDE DEF p
<1>4. CASE r.tailIndex + 1 > CompactAt
  <2>1. Dequeued(r) = EraseDead(p)
    BY <1>4 DEF Dequeued, p
  <2>2. NumberedUpTo(EraseDead(p), n)
    BY <1>1, <1>2, EraseDeadNumbered, Zenon
  <2>3. /\ EraseDead(p) \in Rings
        /\ EraseDead(p).tailIndex = 0
        /\ Size(EraseDead(p)) = Size(p)
        /\ Live(EraseDead(p)) = Live(p)
    BY <1>1, EraseDeadLive, Zenon
  <2>4. 0 <= CompactAt
    BY <1>3
  <2> QED BY <1>1, <2>1, <2>2, <2>3, <2>4, Zenon
<1>5. CASE ~(r.tailIndex + 1 > CompactAt)
  <2>1. Dequeued(r) = p
    BY <1>5 DEF Dequeued, p
  <2>2. r.tailIndex + 1 <= CompactAt
    BY <1>3, <1>5
  <2> QED BY <1>1, <1>2, <2>1, <2>2, Zenon
<1> QED BY <1>4, <1>5

-----------------------------------------------------------------------------
(* The invariant.                                                          *)

\* TypeOK and what the safety properties say is inductive together.
Inv ==
  /\ TypeOK
  /\ LiveAreNewest
  /\ SizeBounded
  /\ DeadSlotsBounded
  /\ NoLostWakeup

\* The part of the invariant about the queue, as facts about its numbers.
QueueInv ==
  /\ ring \in Rings
  /\ NumberedUpTo(ring, pushed)
  /\ pushed \in 0 .. MaxFrames
  /\ taken \in 0 .. pushed
  /\ taken <= pushed - Size(ring)
  /\ Size(ring) <= Capacity
  /\ ring.tailIndex <= CompactAt + (pushed - Size(ring) - taken)

\* The part about the threads.
ThreadInv ==
  /\ eof \in BOOLEAN
  /\ pc \in [Threads -> Labels]
  /\ \A p \in Producers : pc[p] \in {"idle", "notify"}
  /\ \A c \in Consumers : pc[c] \in {"ready", "waiting", "busy", "ended"}
  /\ pc[Closer] \in {"idle", "notify", "done"}

\* The two parts and NoLostWakeup are the invariant.
LEMMA InvParts == Inv <=> QueueInv /\ ThreadInv /\ NoLostWakeup
BY Zenon DEF Inv, QueueInv, ThreadInv, TypeOK, LiveAreNewest, SizeBounded, DeadSlotsBounded, Rings

\* The same in the next state.
LEMMA InvPartsPrime == Inv' <=> QueueInv' /\ ThreadInv' /\ NoLostWakeup'
BY InvParts, PTL

\* It holds when the queue is created.
LEMMA InitInv == Init => Inv
<1> SUFFICES ASSUME Init
             PROVE  QueueInv /\ ThreadInv /\ NoLostWakeup
  BY InvParts
<1>1. /\ ring.ringBuffer = <<>>
      /\ ring.tailIndex = 0
      /\ ring = [ringBuffer |-> <<>>, tailIndex |-> 0]
      /\ pushed = 0
      /\ taken = 0
  BY DEF Init
<1>2. ring \in Rings
  BY <1>1, EmptySeq DEF Rings
<1>3. Size(ring) = 0
  BY <1>1 DEF Size
<1>4. NumberedUpTo(ring, pushed)
  BY <1>1 DEF NumberedUpTo
<1>5. QueueInv
  BY <1>1, <1>2, <1>3, <1>4, CompactAtNat, SizesAssumption DEF QueueInv
<1>6. ThreadInv
  BY ThreadsAssumption DEF Init, ThreadInv, Threads, Labels
<1>7. NoLostWakeup
  BY ThreadsAssumption DEF Init, NoLostWakeup, Threads
<1> QED BY <1>5, <1>6, <1>7

\* enqueue() keeps the queue in order.
LEMMA EnqueuePushQueue ==
  ASSUME QueueInv, NEW p \in Producers, EnqueuePush(p)
  PROVE  QueueInv'
<1>1. /\ ring \in Rings
      /\ NumberedUpTo(ring, pushed)
      /\ Size(ring) <= Capacity
      /\ pushed \in Nat
      /\ ring' = Enqueued(ring, pushed + 1)
      /\ pushed' = pushed + 1
  BY SizesAssumption DEF QueueInv, EnqueuePush
<1>2. /\ ring' \in Rings
      /\ NumberedUpTo(ring', pushed')
      /\ \/ /\ Size(ring') = Size(ring) + 1
            /\ ring'.tailIndex = ring.tailIndex
            /\ Size(ring) + 1 <= Capacity
         \/ /\ Size(ring') = Size(ring)
            /\ ring'.tailIndex = ring.tailIndex + 1
  BY <1>1, EnqueuedProperties, Zenon
<1>3. /\ Size(ring) \in Nat
      /\ ring.tailIndex \in Nat
      /\ CompactAt \in Nat
      /\ MaxFrames \in Nat
      /\ Capacity \in Nat
  BY <1>1, RingNumbers, CompactAtNat, SizesAssumption, Zenon
<1>4. /\ pushed < MaxFrames
      /\ pushed' = pushed + 1
      /\ pushed \in 0 .. MaxFrames
      /\ taken' = taken
      /\ taken \in 0 .. pushed
      /\ taken <= pushed - Size(ring)
      /\ Size(ring) <= Capacity
      /\ ring.tailIndex <= CompactAt + (pushed - Size(ring) - taken)
  BY DEF QueueInv, EnqueuePush
<1>5. /\ pushed' \in 0 .. MaxFrames
      /\ taken' \in 0 .. pushed'
      /\ taken' <= pushed' - Size(ring')
      /\ Size(ring') <= Capacity
      /\ ring'.tailIndex <= CompactAt + (pushed' - Size(ring') - taken')
  BY <1>2, <1>3, <1>4
<1> QED BY <1>2, <1>5, Zenon DEF QueueInv

\* dequeue() keeps the queue in order, and returns its oldest frame.
LEMMA DequeueTakeQueue ==
  ASSUME QueueInv, NEW c \in Consumers, DequeueTake(c)
  PROVE  /\ QueueInv'
         /\ Size(ring') = Size(ring) - 1
         /\ Size(ring) > 0
         /\ Live(ring) # <<>>
         /\ Live(ring') = Tail(Live(ring))
         /\ taken' = Head(Live(ring))
         /\ taken' = pushed - Size(ring) + 1
<1>1. /\ ring \in Rings
      /\ NumberedUpTo(ring, pushed)
      /\ pushed \in Nat
      /\ ring' = Dequeued(ring)
      /\ taken' = Oldest(ring)
      /\ pushed' = pushed
      /\ Size(ring) # 0
  BY SizesAssumption DEF QueueInv, DequeueTake, MustWait
<1>2. /\ Size(ring) \in Nat
      /\ ring.tailIndex \in Nat
      /\ CompactAt \in Nat
      /\ MaxFrames \in Nat
      /\ Capacity \in Nat
  BY <1>1, RingNumbers, CompactAtNat, SizesAssumption, Zenon
<1>3. Size(ring) > 0
  BY <1>1, <1>2
<1>4. /\ ring' \in Rings
      /\ NumberedUpTo(ring', pushed)
      /\ Size(ring') = Size(ring) - 1
      /\ Live(ring') = Tail(Live(ring))
      /\ ring'.tailIndex <= CompactAt
  BY <1>1, <1>3, DequeuedProperties, Zenon
<1>5. /\ taken' = pushed - Size(ring) + 1
      /\ taken' = Head(Live(ring))
      /\ Live(ring) # <<>>
  BY <1>1, <1>3, MoveOutNumbered, MoveOutLive, Zenon
<1>6. /\ pushed' = pushed
      /\ pushed \in 0 .. MaxFrames
      /\ taken \in 0 .. pushed
      /\ taken <= pushed - Size(ring)
      /\ Size(ring) <= Capacity
  BY <1>1 DEF QueueInv
<1>7. /\ pushed' \in 0 .. MaxFrames
      /\ taken' \in 0 .. pushed'
      /\ taken' <= pushed' - Size(ring')
      /\ Size(ring') <= Capacity
      /\ ring'.tailIndex <= CompactAt + (pushed' - Size(ring') - taken')
  <2>1. /\ pushed \in Nat /\ pushed <= MaxFrames
        /\ Size(ring) \in Nat /\ Size(ring) > 0
        /\ Size(ring) <= pushed
    BY <1>1, <1>2, <1>3, <1>6
  <2>2. taken' \in 0 .. pushed
    BY <1>5, <2>1
  <2>3. /\ taken' <= pushed - Size(ring')
        /\ Size(ring') <= Capacity
        /\ pushed - Size(ring') - taken' = 0
    BY <1>2, <1>4, <1>5, <1>6, <2>1
  <2>4. CompactAt + 0 = CompactAt
    BY <1>2
  <2> QED BY <1>4, <1>6, <2>2, <2>3, <2>4, Zenon
<1> QED BY <1>1, <1>3, <1>4, <1>5, <1>7, Zenon DEF QueueInv

\* What every step does to the queue: it leaves it, appends a frame to it or
\* takes one from it.
LEMMA QueueStep ==
  ASSUME QueueInv, [Next]_vars
  PROVE  /\ QueueInv'
         /\ \/ UNCHANGED <<ring, pushed, taken>>
            \/ \E p \in Producers : EnqueuePush(p)
            \/ \E c \in Consumers : DequeueTake(c)
<1>1. ASSUME UNCHANGED <<ring, pushed, taken>>
      PROVE  QueueInv'
  <2>1. ring' = ring /\ pushed' = pushed /\ taken' = taken
    BY <1>1
  <2>2. Size(ring') = Size(ring) /\ (NumberedUpTo(ring', pushed') <=> NumberedUpTo(ring, pushed))
    BY <2>1
  <2> QED BY <2>1, <2>2, Zenon DEF QueueInv
<1>2. \/ UNCHANGED <<ring, pushed, taken>>
      \/ \E p \in Producers : EnqueuePush(p)
      \/ \E c \in Consumers : DequeueTake(c)
  BY DEF Next, vars, SignalEOF, NotifyAll, DequeueWait, SpuriousWakeup, DequeueEnd,
         CallAgain, Finished
<1> QED BY <1>1, <1>2, EnqueuePushQueue, DequeueTakeQueue, Zenon

\* Every step keeps the threads where they may be.
LEMMA ThreadStep ==
  ASSUME ThreadInv, [Next]_vars
  PROVE  ThreadInv'
<1> USE ThreadsAssumption DEF ThreadInv, Threads, Labels, Goto
<1>1. CASE \E p \in Producers : EnqueuePush(p)
  BY <1>1 DEF EnqueuePush
<1>2. CASE SignalEOF
  BY <1>2 DEF SignalEOF
<1>3. CASE \E t \in Threads : NotifyAll(t)
  BY <1>3 DEF NotifyAll, AfterNotify
<1>4. CASE \E c \in Consumers : DequeueWait(c)
  BY <1>4 DEF DequeueWait
<1>5. CASE \E c \in Consumers : SpuriousWakeup(c)
  BY <1>5 DEF SpuriousWakeup
<1>6. CASE \E c \in Consumers : DequeueEnd(c)
  BY <1>6 DEF DequeueEnd
<1>7. CASE \E c \in Consumers : DequeueTake(c)
  BY <1>7 DEF DequeueTake
<1>8. CASE \E c \in Consumers : CallAgain(c)
  BY <1>8 DEF CallAgain
<1>9. CASE Finished \/ UNCHANGED vars
  BY <1>9 DEF Finished, vars
<1> QED BY <1>1, <1>2, <1>3, <1>4, <1>5, <1>6, <1>7, <1>8, <1>9 DEF Next

\* No step loses a wakeup.
LEMMA WakeupStep ==
  ASSUME QueueInv, ThreadInv, NoLostWakeup, [Next]_vars
  PROVE  NoLostWakeup'
<1>1. CASE \E p \in Producers : EnqueuePush(p)
  <2>1. PICK p \in Producers : EnqueuePush(p)
    BY <1>1
  <2>2. p \in Threads /\ pc'[p] = "notify"
    BY <2>1 DEF EnqueuePush, Goto, ThreadInv, Threads
  <2> QED BY <2>2, Zenon DEF NoLostWakeup
<1>2. CASE SignalEOF
  <2>1. Closer \in Threads /\ pc'[Closer] = "notify"
    BY <1>2 DEF SignalEOF, Goto, ThreadInv, Threads
  <2> QED BY <2>1, Zenon DEF NoLostWakeup
<1>3. CASE \E t \in Threads : NotifyAll(t)
  <2>1. PICK t \in Threads : NotifyAll(t)
    BY <1>3
  <2>2. ASSUME NEW c \in Consumers
        PROVE  pc'[c] # "waiting"
    BY <2>1 DEF NotifyAll, AfterNotify, Threads
  <2> QED BY <2>2, Zenon DEF NoLostWakeup
<1>4. CASE \E c \in Consumers : DequeueWait(c)
  <2>1. Size(ring') = 0 /\ ~eof'
    BY <1>4 DEF DequeueWait, MustWait
  <2> QED BY <2>1 DEF NoLostWakeup
<1>5. ASSUME UNCHANGED <<ring, eof>>,
             \/ \E c \in Consumers, label \in {"ready", "ended"} :
                  pc[c] # "notify" /\ Goto(c, label)
             \/ UNCHANGED pc
      PROVE  NoLostWakeup'
  <2>1. Size(ring') = Size(ring) /\ eof' = eof
    BY <1>5
  <2>2. ASSUME NEW t \in Threads, pc[t] = "notify"
        PROVE  pc'[t] = "notify"
    BY <1>5, <2>2 DEF Goto, ThreadInv
  <2>3. ASSUME NEW c \in Consumers, pc'[c] = "waiting"
        PROVE  pc[c] = "waiting"
    BY <1>5, <2>3 DEF Goto, ThreadInv, Threads
  <2> QED BY <2>1, <2>2, <2>3, Zenon DEF NoLostWakeup
<1>6. CASE \E c \in Consumers : DequeueTake(c)
  <2>1. PICK c \in Consumers : DequeueTake(c)
    BY <1>6
  <2>2. Size(ring) > 0
    BY <2>1, DequeueTakeQueue, Zenon
  <2>3. ASSUME NEW t \in Threads, pc[t] = "notify"
        PROVE  pc'[t] = "notify"
    BY <2>1, <2>3 DEF DequeueTake, Goto, ThreadInv
  <2>4. ASSUME NEW x \in Consumers, pc'[x] = "waiting"
        PROVE  pc[x] = "waiting"
    BY <2>1, <2>4 DEF DequeueTake, Goto, ThreadInv, Threads
  <2> QED BY <2>2, <2>3, <2>4, Zenon DEF NoLostWakeup
<1>7. CASE \E c \in Consumers : CallAgain(c)
  BY <1>5, <1>7 DEF CallAgain
<1>8. CASE \E c \in Consumers : SpuriousWakeup(c)
  BY <1>5, <1>8 DEF SpuriousWakeup
<1>9. CASE \E c \in Consumers : DequeueEnd(c)
  BY <1>5, <1>9 DEF DequeueEnd
<1>10. CASE Finished \/ UNCHANGED vars
  BY <1>5, <1>10 DEF Finished, vars
<1> QED
  BY <1>1, <1>2, <1>3, <1>4, <1>6, <1>7, <1>8, <1>9, <1>10 DEF Next

\* The invariant is inductive.
LEMMA NextInv == Inv /\ [Next]_vars => Inv'
BY InvParts, QueueStep, ThreadStep, WakeupStep, InvPartsPrime, Zenon

\* Every reachable state satisfies it.
THEOREM InvariantHolds == Spec => []Inv
BY InitInv, NextInv, PTL DEF Spec

-----------------------------------------------------------------------------
(* The properties.                                                         *)

\* The variables keep their types, and the index of the oldest frame stays
\* inside the vector, so that size() does not wrap around.
THEOREM TypeCorrect == Spec => []TypeOK
<1>1. Inv => TypeOK
  BY DEF Inv
<1> QED BY <1>1, InvariantHolds, PTL

\* The queue always holds the newest frames in order, none of them twice and
\* none that dequeue() returned before.
THEOREM LiveAreNewestHolds == Spec => []LiveAreNewest
<1>1. Inv => LiveAreNewest
  BY DEF Inv
<1> QED BY <1>1, InvariantHolds, PTL

\* At most Capacity frames wait, and the vector holds no more dead slots than
\* the compaction tolerates plus one for each frame discarded since the last
\* dequeue().
THEOREM BoundsHold == Spec => [](SizeBounded /\ DeadSlotsBounded)
<1>1. Inv => SizeBounded /\ DeadSlotsBounded
  BY DEF Inv
<1> QED BY <1>1, InvariantHolds, PTL

\* No consumer sleeps in dequeue() while there is a frame or EOF for it and
\* nobody is about to wake it, however many producers and consumers there are.
THEOREM NoLostWakeupHolds == Spec => []NoLostWakeup
<1>1. Inv => NoLostWakeup
  BY DEF Inv
<1> QED BY <1>1, InvariantHolds, PTL

\* Frames leave the queue in the order they entered it, each at most once, and
\* less than Capacity frames behind the newest.
THEOREM OrderAndFreshness == Spec => TakenInOrderAndFresh
<1>1. ASSUME QueueInv, [Next]_vars, taken' # taken
      PROVE  taken' > taken /\ taken' > pushed - Capacity
  <2>1. PICK c \in Consumers : DequeueTake(c)
    BY <1>1, QueueStep, Zenon DEF EnqueuePush
  <2>2. taken' = pushed - Size(ring) + 1
    BY <1>1, <2>1, DequeueTakeQueue, Zenon
  <2>3. /\ pushed \in Nat /\ taken \in Nat
        /\ taken <= pushed - Size(ring)
        /\ Size(ring) <= Capacity
    BY <1>1, SizesAssumption DEF QueueInv
  <2>4. Size(ring) \in Nat /\ Capacity \in Nat
    BY <1>1, RingNumbers, SizesAssumption, Zenon DEF QueueInv
  <2> QED BY <2>2, <2>3, <2>4
<1>2. ASSUME QueueInv, [Next]_vars
      PROVE  [taken' # taken => taken' > taken /\ taken' > pushed - Capacity]_vars
  BY <1>1, <1>2
<1>3. Inv => QueueInv
  BY InvParts
<1> QED BY <1>2, <1>3, InvariantHolds, PTL DEF Spec, TakenInOrderAndFresh

\* Each step of the class is a step of the queue its users see, or none.
LEMMA StepRefines ==
  ASSUME QueueInv, [Next]_vars
  PROVE  [Queue!Next]_(Queue!qvars)
<1>1. CASE UNCHANGED <<ring, pushed, taken>> /\ eof' = eof
  <2>1. Live(ring') = Live(ring)
    BY <1>1
  <2> QED BY <1>1, <2>1 DEF Queue!qvars, Live
<1>2. CASE UNCHANGED <<ring, pushed, taken>> /\ eof' # eof
  <2>1. SignalEOF
    BY <1>2 DEF Next, vars, EnqueuePush, NotifyAll, DequeueWait, SpuriousWakeup, DequeueEnd,
         DequeueTake, CallAgain, Finished
  <2>2. Queue!Close
    BY <2>1 DEF SignalEOF, Queue!Close, Live
  <2> QED BY <2>2 DEF Queue!Next
<1>3. ASSUME NEW p \in Producers, EnqueuePush(p)
      PROVE  Queue!Push
  <2>1. /\ ring' = Enqueued(ring, pushed + 1)
        /\ pushed < MaxFrames
        /\ pushed' = pushed + 1
        /\ eof' = eof /\ taken' = taken
    BY <1>3 DEF EnqueuePush
  <2>2. /\ ring \in Rings /\ pushed \in Nat
        /\ Size(ring) <= Capacity
        /\ NumberedUpTo(ring, pushed)
    BY SizesAssumption DEF QueueInv
  <2>3. Live(ring') = Queue!Newest(Append(Live(ring), pushed + 1))
    BY <2>1, <2>2, EnqueuedProperties, Zenon
  <2> QED BY <2>1, <2>3, Zenon DEF Queue!Push, Live
<1>4. ASSUME NEW c \in Consumers, DequeueTake(c)
      PROVE  Queue!Pop
  <2>1. ~eof /\ eof' = eof /\ pushed' = pushed
    BY <1>4 DEF DequeueTake
  <2>2. /\ Live(ring) # <<>>
        /\ Live(ring') = Tail(Live(ring))
        /\ taken' = Head(Live(ring))
    BY <1>4, DequeueTakeQueue, Zenon
  <2> QED BY <2>1, <2>2, Zenon DEF Queue!Pop, Live
<1> QED BY <1>1, <1>2, <1>3, <1>4, QueueStep, Zenon DEF Queue!Next

\* The class implements DroppingQueue: seen from outside it is a FIFO queue
\* that pays for a new frame with its oldest one and is silent once closed.
THEOREM ImplementsQueue == Spec => QueueSpec
<1>1. Init => Queue!Init
  BY LiveProperties DEF Init, Queue!Init, Live
<1>2. Inv => QueueInv
  BY InvParts
<1>3. Inv /\ [Next]_vars => [Queue!Next]_(Queue!qvars)
  BY <1>2, StepRefines, Zenon
<1> QED BY <1>1, <1>3, InvariantHolds, PTL DEF Spec, QueueSpec, Queue!Spec
=============================================================================
