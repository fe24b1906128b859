-------------------------- MODULE GstOutputProofs ---------------------------
(***************************************************************************)
(* What the GStreamer output guarantees for every length of its queue, any *)
(* number of frames in its elements, and every set of buffers.             *)
(***************************************************************************)
EXTENDS GstOutput, SequenceTheorems, FiniteSetTheorems, TLAPS

-----------------------------------------------------------------------------
(* The inductive invariant.                                                *)

\* The buffers in a queue.
Queued(q) == {q[i] : i \in DOMAIN q}

Distinct(q) == \A i, j \in DOMAIN q : q[i] = q[j] => i = j

\* Each frame is in one place.
PlaceInv ==
  /\ Distinct(appsrc)
  /\ Queued(appsrc) \cap inside = {} /\ Queued(appsrc) \cap hand = {} /\ inside \cap hand = {}
  /\ lent = hand \cup inside \cup Queued(appsrc)

\* How many there are.
BoundInv ==
  /\ Len(appsrc) <= Capacity
  /\ IsFiniteSet(inside) /\ Cardinality(inside) <= Depth
  /\ hand = {} \/ \E b \in Buffers : hand = {b}

\* The pipeline was not made, or build() failed.
Unmade == elements \in {"none", "unbuilt"}

\* One object has the pipeline, until it has given it up in its destructor.
ObjectsInv ==
  /\ Unmade => objects = {} /\ holders = {} /\ unrefs = 0
  /\ ~Unmade => \E o \in {"made", "moved"} : holders = {o} /\ (unrefs = 0 <=> o \in objects)
  /\ dying # {} => dying = holders /\ hand = {} /\ unrefs = 0 /\ elements = "paused"
  /\ unrefs \in {0, 1}
  /\ unrefs = 1 => lent = {}

IInv == TypeOK /\ PlaceInv /\ BoundInv /\ ObjectsInv

-----------------------------------------------------------------------------
(* The queue of the appsrc.                                                *)

\* Appending a buffer that is not queued, and taking the oldest out.
LEMMA QueueProperties ==
  ASSUME NEW q \in Seq(Buffers), Distinct(q)
  PROVE  /\ Queued(q) \subseteq Buffers /\ Len(q) \in Nat
         /\ Queued(<<>>) = {} /\ Distinct(<<>>) /\ <<>> \in Seq(Buffers) /\ Len(<<>>) = 0
         /\ \A b \in Buffers \ Queued(q) :
              LET r == Append(q, b) IN
                /\ r \in Seq(Buffers) /\ Len(r) = Len(q) + 1
                /\ Distinct(r) /\ Queued(r) = Queued(q) \cup {b}
         /\ q # <<>> =>
              /\ Tail(q) \in Seq(Buffers) /\ Len(Tail(q)) = Len(q) - 1 /\ Distinct(Tail(q))
              /\ Head(q) \in Buffers /\ Head(q) \notin Queued(Tail(q))
              /\ Queued(q) = {Head(q)} \cup Queued(Tail(q))
<1>1. Len(q) \in Nat /\ DOMAIN q = 1 .. Len(q) /\ \A i \in 1 .. Len(q) : q[i] \in Buffers
  BY LenProperties, ElementOfSeq
<1>2. /\ Queued(<<>>) = {} /\ Distinct(<<>>) /\ <<>> \in Seq(Buffers) /\ Len(<<>>) = 0
      /\ Queued(q) \subseteq Buffers
  BY <1>1, EmptySeq DEF Queued, Distinct
<1>3. ASSUME NEW b \in Buffers \ Queued(q)
      PROVE  LET r == Append(q, b) IN
               /\ r \in Seq(Buffers) /\ Len(r) = Len(q) + 1
               /\ Distinct(r) /\ Queued(r) = Queued(q) \cup {b}
  <2> DEFINE r == Append(q, b)
             n == Len(q)
  <2>1. /\ r \in Seq(Buffers) /\ Len(r) = n + 1 /\ DOMAIN r = 1 .. n + 1
        /\ r[n + 1] = b /\ \A i \in 1 .. n : r[i] = q[i]
    BY AppendProperties, LenProperties
  <2>2. \A i \in 1 .. n : q[i] # b
    BY <1>1, <1>3 DEF Queued
  <2>3. \A i \in 1 .. n + 1 : i \in 1 .. n \/ i = n + 1
    BY <1>1
  <2>4. n + 1 \in 1 .. n + 1 /\ \A i \in 1 .. n : i \in 1 .. n + 1
    BY <1>1
  <2> HIDE DEF r, n
  <2>5. Distinct(r)
    <3> SUFFICES ASSUME NEW i \in DOMAIN r, NEW j \in DOMAIN r, r[i] = r[j] PROVE i = j
      BY DEF Distinct
    <3> QED BY <1>1, <2>1, <2>2, <2>3 DEF Distinct, n
  <2>6. Queued(r) = Queued(q) \cup {b}
    BY <1>1, <2>1, <2>3, <2>4 DEF Queued, n
  <2> QED BY <2>1, <2>5, <2>6 DEF r, n
<1>4. ASSUME q # <<>>
      PROVE  /\ Tail(q) \in Seq(Buffers) /\ Len(Tail(q)) = Len(q) - 1 /\ Distinct(Tail(q))
             /\ Head(q) \in Buffers /\ Head(q) \notin Queued(Tail(q))
             /\ Queued(q) = {Head(q)} \cup Queued(Tail(q))
  <2> DEFINE t == Tail(q)
             n == Len(q)
  <2>1. /\ n \in Nat \ {0} /\ Head(q) \in Buffers /\ Head(q) = q[1]
        /\ t \in Seq(Buffers) /\ Len(t) = n - 1 /\ DOMAIN t = 1 .. n - 1
        /\ \A i \in 1 .. n - 1 : t[i] = q[i + 1] /\ i + 1 \in 1 .. n /\ i + 1 # 1
    BY <1>1, <1>4, EmptySeq, LenProperties, HeadTailProperties
  <2>2. \A i \in 1 .. n : i = 1 \/ (i - 1 \in 1 .. n - 1 /\ (i - 1) + 1 = i)
    BY <2>1
  <2>3. 1 \in 1 .. n /\ DOMAIN q = 1 .. n
    BY <1>1, <2>1
  <2> HIDE DEF t, n
  <2>4. Distinct(t)
    <3> SUFFICES ASSUME NEW i \in 1 .. n - 1, NEW j \in 1 .. n - 1, t[i] = t[j] PROVE i = j
      BY <2>1 DEF Distinct
    <3>1. q[i + 1] = q[j + 1] /\ i + 1 \in DOMAIN q /\ j + 1 \in DOMAIN q
      BY <2>1, <2>3
    <3>2. i + 1 = j + 1
      BY <3>1 DEF Distinct
    <3> QED BY <3>2
  <2>5. Head(q) \notin Queued(t)
    BY <1>1, <2>1, <2>3 DEF Distinct, Queued, n
  <2>6. Queued(q) = {Head(q)} \cup Queued(t)
    <3>1. ASSUME NEW x \in Queued(q) PROVE x \in {Head(q)} \cup Queued(t)
      <4>1. PICK i \in 1 .. n : x = q[i]
        BY <2>3, <3>1 DEF Queued
      <4>2. i = 1 \/ (i - 1 \in DOMAIN t /\ t[i - 1] = x)
        BY <2>1, <2>2, <4>1
      <4> QED BY <2>1, <4>1, <4>2 DEF Queued
    <3>2. ASSUME NEW x \in {Head(q)} \cup Queued(t) PROVE x \in Queued(q)
      <4>1. CASE x = Head(q)
        BY <2>1, <2>3, <4>1 DEF Queued
      <4>2. CASE x \in Queued(t)
        <5>1. PICK i \in 1 .. n - 1 : x = t[i]
          BY <2>1, <4>2 DEF Queued
        <5> QED BY <2>1, <2>3, <5>1 DEF Queued
      <4> QED BY <3>2, <4>1, <4>2
    <3> QED BY <3>1, <3>2
  <2> QED BY <2>1, <2>4, <2>5, <2>6 DEF t, n
<1> QED BY <1>1, <1>2, <1>3, <1>4

\* As many buffers are queued as the queue is long.
LEMMA QueuedCardinality ==
  ASSUME NEW q \in Seq(Buffers), Distinct(q)
  PROVE  IsFiniteSet(Queued(q)) /\ Cardinality(Queued(q)) = Len(q)
<1> DEFINE n == Len(q)
           f == [i \in 1 .. n |-> q[i]]
<1>1. n \in Nat /\ DOMAIN q = 1 .. n
  BY LenProperties
<1> HIDE DEF n
<1>2. IsFiniteSet(1 .. n) /\ Cardinality(1 .. n) = n
  BY <1>1, FS_Interval
<1>3. f \in Surjection(1 .. n, Queued(q))
  BY <1>1 DEF Surjection, Queued
<1>4. f \in Injection(1 .. n, Queued(q))
  BY <1>1, <1>3 DEF Injection, Surjection, IsInjective, Distinct
<1> QED BY <1>2, <1>3, <1>4, FS_Surjection DEF n

-----------------------------------------------------------------------------
(* The invariant is inductive.                                             *)

\* The initial states satisfy the invariant.
LEMMA InvInit == Init => IInv
<1> SUFFICES ASSUME Init PROVE IInv
  OBVIOUS
<1>1. TypeOK
  BY EmptySeq DEF Init, TypeOK
<1>2. PlaceInv
  BY EmptySeq DEF Init, PlaceInv, Distinct, Queued
<1>3. BoundInv
  BY GstAssumption, FS_EmptySet, EmptySeq DEF Init, BoundInv
<1>4. ObjectsInv
  BY DEF Init, ObjectsInv, Unmade
<1> QED BY <1>1, <1>2, <1>3, <1>4 DEF IInv

\* What the queue is in a state that satisfies the invariant.
LEMMA AppsrcProperties ==
  ASSUME IInv
  PROVE  /\ appsrc \in Seq(Buffers) /\ Distinct(appsrc) /\ Queued(appsrc) \subseteq Buffers
         /\ Len(appsrc) \in Nat /\ lent = hand \cup inside \cup Queued(appsrc)
BY QueueProperties DEF IInv, TypeOK, PlaceInv

\* Making, moving and destroying the output keep the invariant.
LEMMA ObjectSteps ==
  ASSUME IInv,
         \/ Build \/ BuildFails \/ Move
         \/ \E o \in objects : DestroyBegin(o) \/ DestroyEmpty(o)
  PROVE  IInv'
<1> USE DEF IInv, objectVars
<1>1. UNCHANGED <<appsrc, inside, hand, lent>>
  BY DEF Build, BuildFails, Move, DestroyBegin, DestroyEmpty
<1>2. PlaceInv' /\ BoundInv'
  BY <1>1 DEF PlaceInv, BoundInv
<1>3. CASE Build
  BY <1>1, <1>2, <1>3 DEF Build, Started, TypeOK, ObjectsInv, Unmade
<1>4. CASE BuildFails
  BY <1>1, <1>2, <1>4 DEF BuildFails, TypeOK, ObjectsInv, Unmade
<1>5. CASE Move
  BY <1>1, <1>2, <1>5 DEF Move, Moved, TypeOK, ObjectsInv, Unmade
<1>6. ASSUME NEW o \in objects, DestroyBegin(o) PROVE IInv'
  BY <1>1, <1>2, <1>6 DEF DestroyBegin, TypeOK, ObjectsInv, Unmade
<1>7. ASSUME NEW o \in objects, DestroyEmpty(o) PROVE IInv'
  BY <1>1, <1>2, <1>7 DEF DestroyEmpty, TypeOK, ObjectsInv, Unmade
<1> QED BY <1>3, <1>4, <1>5, <1>6, <1>7

\* pushFrame() keeps it.
LEMMA PushSteps ==
  ASSUME IInv, (\E b \in Buffers : PushFrame(b)) \/ PushReturns \/ PushThrows
  PROVE  IInv'
<1> USE DEF IInv, objectVars
<1>0. /\ appsrc \in Seq(Buffers) /\ Distinct(appsrc) /\ Queued(appsrc) \subseteq Buffers
      /\ Len(appsrc) \in Nat /\ lent = hand \cup inside \cup Queued(appsrc)
  BY AppsrcProperties
<1>1. ASSUME NEW b \in Buffers, PushFrame(b) PROVE IInv'
  <2>1. TypeOK'
    BY <1>1 DEF PushFrame, TypeOK
  <2>2. PlaceInv'
    BY <1>0, <1>1 DEF PushFrame, PlaceInv
  <2>3. BoundInv'
    BY <1>1 DEF PushFrame, BoundInv
  <2>4. unrefs = 0 /\ unrefs' = 0 /\ dying' = {} /\ ObjectsInv'
    BY <1>1 DEF PushFrame, ObjectsInv, Unmade
  <2> QED BY <2>1, <2>2, <2>3, <2>4
<1>2. CASE PushReturns
  <2>1. PICK b \in Buffers : hand = {b} /\ appsrc' = Append(appsrc, b)
    BY <1>2 DEF PushReturns, BoundInv
  <2>2. /\ Len(appsrc) < Capacity /\ hand' = {} /\ lent' = lent /\ hand # {}
        /\ UNCHANGED <<elements, inside, objects, holders, dying, unrefs>>
    BY <1>2 DEF PushReturns, HasRoom, DestroyedAtReturn
  <2>3. b \in Buffers \ Queued(appsrc)
    BY <2>1 DEF PlaceInv
  <2>4. /\ appsrc' \in Seq(Buffers) /\ Len(appsrc') = Len(appsrc) + 1
        /\ Distinct(appsrc') /\ Queued(appsrc') = Queued(appsrc) \cup {b}
    BY <1>0, <2>1, <2>3, QueueProperties
  <2>5. TypeOK'
    BY <2>2, <2>4 DEF TypeOK
  <2>6. PlaceInv'
    BY <1>0, <2>1, <2>2, <2>4 DEF PlaceInv
  <2>7. BoundInv'
    BY <1>0, <2>2, <2>4, GstAssumption DEF BoundInv
  <2>8. ObjectsInv'
    BY <2>2 DEF ObjectsInv, Unmade
  <2> QED BY <2>5, <2>6, <2>7, <2>8
<1>3. CASE PushThrows
  <2>1. /\ lent' = lent \ hand /\ hand' = {} /\ elements = "failed"
        /\ UNCHANGED <<elements, appsrc, inside, objects, holders, dying, unrefs>>
    BY <1>3 DEF PushThrows
  <2>2. TypeOK'
    BY <2>1 DEF TypeOK
  <2>3. PlaceInv'
    BY <1>0, <2>1 DEF PlaceInv
  <2>4. BoundInv' /\ ObjectsInv'
    BY <2>1 DEF BoundInv, ObjectsInv, Unmade
  <2> QED BY <2>2, <2>3, <2>4
<1> QED BY <1>1, <1>2, <1>3

\* So do the threads of the pipeline.
LEMMA PipelineSteps ==
  ASSUME IInv, Drain \/ Drop \/ PipelineFails
  PROVE  IInv'
<1> USE DEF IInv, objectVars
<1>0. /\ appsrc \in Seq(Buffers) /\ Distinct(appsrc) /\ Queued(appsrc) \subseteq Buffers
      /\ Len(appsrc) \in Nat /\ lent = hand \cup inside \cup Queued(appsrc)
  BY AppsrcProperties
<1>1. CASE Drain
  <2> DEFINE h == Head(appsrc)
  <2>1. /\ appsrc # <<>> /\ appsrc' = Tail(appsrc) /\ inside' = inside \cup {h}
        /\ Cardinality(inside) < Depth
        /\ UNCHANGED <<elements, hand, lent, objects, holders, dying, unrefs>>
    BY <1>1 DEF Drain
  <2>2. /\ appsrc' \in Seq(Buffers) /\ Len(appsrc') = Len(appsrc) - 1 /\ Distinct(appsrc')
        /\ h \in Buffers /\ h \notin Queued(appsrc')
        /\ Queued(appsrc) = {h} \cup Queued(appsrc')
    BY <1>0, <2>1, QueueProperties
  <2> HIDE DEF h
  <2>3. TypeOK'
    BY <2>1, <2>2 DEF TypeOK
  <2>4. PlaceInv'
    BY <1>0, <2>1, <2>2 DEF PlaceInv
  <2>5. BoundInv'
    <3>1. IsFiniteSet(inside) /\ Cardinality(inside) \in Nat /\ Depth \in Nat /\ Capacity \in Nat
      BY FS_CardinalityType, GstAssumption DEF BoundInv
    <3>2. IsFiniteSet(inside') /\ Cardinality(inside') <= Cardinality(inside) + 1
      BY <2>1, <3>1, FS_AddElement
    <3>3. IsFiniteSet(inside') /\ Cardinality(inside') \in Nat
      BY <3>2, FS_CardinalityType
    <3> QED BY <1>0, <2>1, <2>2, <3>1, <3>2, <3>3 DEF BoundInv
  <2>6. ObjectsInv'
    BY <2>1 DEF ObjectsInv, Unmade
  <2> QED BY <2>3, <2>4, <2>5, <2>6
<1>2. CASE Drop
  <2>1. PICK b \in inside : inside' = inside \ {b} /\ lent' = lent \ {b}
    BY <1>2 DEF Drop
  <2>2. UNCHANGED <<elements, appsrc, hand, objects, holders, dying, unrefs>>
    BY <1>2 DEF Drop
  <2>3. TypeOK'
    BY <2>1, <2>2 DEF TypeOK
  <2>4. PlaceInv'
    BY <1>0, <2>1, <2>2 DEF PlaceInv
  <2>5. BoundInv'
    <3>1. IsFiniteSet(inside') /\ Cardinality(inside') <= Cardinality(inside)
      BY <2>1, FS_Subset DEF BoundInv
    <3>2. Cardinality(inside) \in Nat /\ Cardinality(inside') \in Nat /\ Depth \in Nat
      BY <3>1, FS_CardinalityType, GstAssumption DEF BoundInv
    <3> QED BY <2>2, <3>1, <3>2 DEF BoundInv
  <2>6. ObjectsInv'
    BY <2>1, <2>2 DEF ObjectsInv, Unmade
  <2> QED BY <2>3, <2>4, <2>5, <2>6
<1>3. CASE PipelineFails
  BY <1>3 DEF PipelineFails, TypeOK, PlaceInv, BoundInv, ObjectsInv, Unmade
<1> QED BY <1>1, <1>2, <1>3

\* The destructor drops all frames that the pipeline has.
LEMMA DestroySteps ==
  ASSUME IInv, DestroyPipeline
  PROVE  IInv' /\ lent' = {} /\ unrefs' = 1 /\ dying' = {}
<1> USE DEF IInv
<1>1. /\ appsrc' = <<>> /\ inside' = {} /\ hand = {} /\ hand' = {} /\ elements' = "null"
      /\ objects' = objects \ dying /\ dying' = {} /\ dying = holders /\ dying # {}
      /\ unrefs = 0 /\ unrefs' = 1 /\ holders' = holders /\ elements = "paused"
  BY DEF DestroyPipeline, ObjectsInv
<1>2. lent' = {}
  <2>1. lent = hand \cup inside \cup Queued(appsrc) /\ lent' = lent \ Stopped
    BY AppsrcProperties DEF DestroyPipeline
  <2> QED BY <1>1, <2>1 DEF Stopped, Queued
<1>3. TypeOK'
  BY <1>1, <1>2, EmptySeq DEF TypeOK
<1>4. PlaceInv'
  BY <1>1, <1>2, EmptySeq DEF PlaceInv, Distinct, Queued
<1>5. BoundInv'
  BY <1>1, FS_EmptySet, EmptySeq, GstAssumption DEF BoundInv
<1>6. ObjectsInv'
  BY <1>1, <1>2 DEF ObjectsInv, Unmade
<1> QED BY <1>1, <1>2, <1>3, <1>4, <1>5, <1>6

\* Every step keeps the invariant.
LEMMA InvNext == IInv /\ [Next]_vars => IInv'
<1>1. ASSUME IInv, Next PROVE IInv'
  <2>1. CASE Finished
    BY <1>1, <2>1 DEF Finished, vars, IInv, TypeOK, PlaceInv, BoundInv, ObjectsInv, Unmade
  <2> QED BY <1>1, <2>1, ObjectSteps, PushSteps, PipelineSteps, DestroySteps DEF Next
<1>2. ASSUME IInv, UNCHANGED vars PROVE IInv'
  BY <1>2 DEF vars, IInv, TypeOK, PlaceInv, BoundInv, ObjectsInv, Unmade
<1> QED BY <1>1, <1>2

-----------------------------------------------------------------------------

\* The invariant holds in every state of the output.
THEOREM InvariantHolds == Spec => []IInv
BY InvInit, InvNext, PTL DEF Spec

\* Every frame of the stream that the pipeline was given is in one place until
\* it is destroyed, and there are so few of them that the stream has a buffer
\* for the next one: the queue of the appsrc is bounded, because pushFrame()
\* waits for room.
THEOREM FramesAreKept == Spec => []FramesInv
<1>1. IInv => FramesInv
  <2> SUFFICES ASSUME IInv PROVE FramesInv
    OBVIOUS
  <2> DEFINE Q == Queued(appsrc)
             HI == hand \cup inside
  <2>1. /\ appsrc \in Seq(Buffers) /\ Distinct(appsrc) /\ Len(appsrc) \in Nat
        /\ lent = HI \cup Q
    BY AppsrcProperties
  <2>2. IsFiniteSet(Q) /\ Cardinality(Q) = Len(appsrc)
    BY <2>1, QueuedCardinality
  <2>3. IsFiniteSet(inside) /\ Cardinality(inside) \in Nat /\ Cardinality(inside) <= Depth
    BY FS_CardinalityType DEF IInv, BoundInv
  <2>4. IsFiniteSet(hand) /\ Cardinality(hand) \in {0, 1}
    BY FS_EmptySet, FS_Singleton DEF IInv, BoundInv
  <2>5. Q \cap inside = {} /\ Q \cap hand = {} /\ inside \cap hand = {}
    BY DEF IInv, PlaceInv
  <2>6. IsFiniteSet(HI) /\ Cardinality(HI) = Cardinality(hand) + Cardinality(inside)
    BY <2>3, <2>4, <2>5, FS_Union, FS_EmptySet
  <2> HIDE DEF Q
  <2>7. HI \cap Q = {} /\ HI \cup Q = lent
    BY <2>1, <2>5
  <2> HIDE DEF HI
  <2>8. IsFiniteSet(lent) /\ Cardinality(lent) = Cardinality(HI) + Cardinality(Q)
    <3>1. Cardinality(HI \cap Q) = 0 /\ Cardinality(HI) \in Nat /\ Cardinality(Q) \in Nat
      BY <2>2, <2>6, <2>7, FS_EmptySet, FS_CardinalityType
    <3>2. IsFiniteSet(HI \cup Q)
          /\ Cardinality(HI \cup Q) = Cardinality(HI) + Cardinality(Q) - Cardinality(HI \cap Q)
      BY <2>2, <2>6, FS_Union
    <3>3. IsFiniteSet(lent) /\ Cardinality(HI \cup Q) = Cardinality(lent)
      BY <2>7, <3>2, Zenon
    <3> QED BY <3>1, <3>2, <3>3
  <2>9. LentAreHeld
    BY <2>1, <2>2, <2>6, <2>8 DEF LentAreHeld, HI, Q, Queued
  <2>10. StreamNotStarved
    <3>1. Cardinality(lent) <= Capacity + Depth + 1
      BY <2>1, <2>2, <2>3, <2>4, <2>6, <2>8, GstAssumption DEF IInv, BoundInv
    <3>2. Cardinality(Buffers) > Capacity + Depth + 1 /\ Cardinality(Buffers) \in Nat
          /\ Cardinality(lent) \in Nat /\ Capacity \in Nat /\ Depth \in Nat
      BY <2>8, GstAssumption, FS_CardinalityType
    <3>3. lent \subseteq Buffers /\ lent # Buffers
      BY <3>1, <3>2 DEF IInv, TypeOK
    <3> QED BY <3>3 DEF StreamNotStarved
  <2> QED BY <2>9, <2>10 DEF IInv, FramesInv
<1> QED BY <1>1, InvariantHolds, PTL

\* However the output was moved, its pipeline is given up exactly once, with its
\* last object.
THEOREM PipelineGivenUpOnce == Spec => []GivenUpOnce
<1>1. IInv => GivenUpOnce
  BY DEF IInv, ObjectsInv, Unmade, GivenUpOnce
<1> QED BY <1>1, InvariantHolds, PTL

-----------------------------------------------------------------------------
(* The output is a FrameSink.                                              *)

Status == IF unrefs > 0 THEN "closed" ELSE IF dying # {} THEN "closing" ELSE "open"

\* Every step of the output is a step of a FrameSink, or changes nothing that one
\* has.
LEMMA StepImplements ==
  ASSUME IInv, Next
  PROVE  [Sink!Next]_<<lent, Status>>
<1> USE DEF Status, objectVars
<1>0. unrefs \in Nat
  BY DEF IInv, TypeOK
<1>1. ASSUME NEW b \in Buffers, PushFrame(b) PROVE [Sink!Next]_<<lent, Status>>
  <2>1. /\ b \notin lent /\ lent' = lent \cup {b}
        /\ unrefs = 0 /\ unrefs' = 0 /\ dying = {} /\ dying' = {}
    BY <1>1 DEF PushFrame
  <2>2. Sink!Push(b)
    BY <2>1 DEF Sink!Push
  <2> QED BY <2>2 DEF Sink!Next
<1>2. CASE PushThrows \/ Drop
  <2>1. lent' \subseteq lent /\ UNCHANGED <<unrefs, dying>> /\ elements # "null"
    BY <1>2 DEF PushThrows, Drop
  <2>2. unrefs = 0
    BY <1>0, <2>1 DEF IInv, TypeOK
  <2>3. Sink!Release
    BY <2>1, <2>2 DEF Sink!Release
  <2> QED BY <2>3 DEF Sink!Next
<1>3. ASSUME NEW o \in objects, DestroyBegin(o) PROVE [Sink!Next]_<<lent, Status>>
  <2>1. lent' = lent /\ unrefs' = unrefs /\ dying = {} /\ dying' = {o}
    BY <1>3 DEF DestroyBegin
  <2>2. unrefs = 0
    BY <1>3 DEF DestroyBegin, IInv, ObjectsInv, Unmade
  <2>3. Sink!BeginClose
    BY <2>1, <2>2 DEF Sink!BeginClose
  <2> QED BY <2>3 DEF Sink!Next
<1>4. CASE DestroyPipeline
  <2>1. lent' = {} /\ unrefs' = 1 /\ unrefs = 0 /\ dying # {}
    BY <1>4, DestroySteps DEF DestroyPipeline, IInv, ObjectsInv
  <2>2. Sink!Close
    BY <2>1 DEF Sink!Close
  <2> QED BY <2>2 DEF Sink!Next
<1>5. CASE UNCHANGED <<lent, unrefs, dying>>
  BY <1>5
<1>6. \/ Build \/ BuildFails \/ Move \/ PushReturns \/ Drain \/ PipelineFails \/ Finished
      \/ (\E o \in objects : DestroyEmpty(o))
      => UNCHANGED <<lent, unrefs, dying>>
  BY DEF Build, BuildFails, Move, PushReturns, DestroyedAtReturn, Drain, PipelineFails, Finished,
         vars, DestroyEmpty
<1> QED BY <1>1, <1>2, <1>3, <1>4, <1>5, <1>6 DEF Next

\* To the program the output is a FrameSink: pushFrame() alone borrows a buffer,
\* and when the pipeline has been given up none is borrowed.
THEOREM ImplementsFrameSink == Spec => SinkSpec
<1>1. Init => Sink!Init
  BY DEF Init, Sink!Init
<1>2. IInv /\ [Next]_vars => [Sink!Next]_<<lent, Status>>
  <2>1. UNCHANGED vars => UNCHANGED <<lent, Status>>
    BY DEF vars, Status
  <2> QED BY <2>1, StepImplements
<1> QED BY <1>1, <1>2, InvariantHolds, PTL DEF Spec, SinkSpec, Sink!Spec, Status
=============================================================================
