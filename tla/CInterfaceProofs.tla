-------------------------- MODULE CInterfaceProofs --------------------------
(***************************************************************************)
(* What the C interface guarantees for every set of buffers.               *)
(***************************************************************************)
EXTENDS CInterface, TLAPS

-----------------------------------------------------------------------------
(* The inductive invariant.                                                *)

\* A C frame has the callback that deletes C++ frames of its own kind.
CallbackInv ==
  \A f \in cFrames : \E kind \in Kinds, b \in Buffers : f = CFrame(kind, b)

IInv == TypeOK /\ FramesTakenOver /\ CallbackInv

\* What a C frame is made of.
LEMMA FrameProperties ==
  \A kind, b :
    /\ CFrame(kind, b).kind = kind /\ CFrame(kind, b).onFrameDone = kind
    /\ CFrame(kind, b).opaque = CppFrame(kind, b)
    /\ CppFrame(kind, b).kind = kind /\ CppFrame(kind, b).buffer = b
BY DEF CFrame, CppFrame, OnFrameDone

\* So the callback of a C frame deletes the C++ frame that it has taken over,
\* although it gets an untyped pointer.
LEMMA CallbackDeletesOwn ==
  ASSUME IInv, NEW f \in cFrames
  PROVE  /\ CppFrame(f.onFrameDone, f.opaque.buffer) = f.opaque
         /\ f.opaque.buffer \in Buffers
<1>1. PICK kind \in Kinds, b \in Buffers : f = CFrame(kind, b)
  BY DEF IInv, CallbackInv
<1> QED BY <1>1, FrameProperties

-----------------------------------------------------------------------------
(* The invariant is inductive.                                             *)

\* The initial states satisfy the invariant.
LEMMA InvInit == Init => IInv
BY DEF Init, IInv, TypeOK, FramesTakenOver, CallbackInv, NoFormat

\* A frame that the C program receives is taken over by a new C frame.
LEMMA FrameReceivedSteps ==
  ASSUME IInv, NEW kind \in Kinds, NEW b \in Buffers, FrameReceived(kind, b)
  PROVE  IInv'
<1> DEFINE c == CFrame(kind, b)
           p == CppFrame(kind, b)
<1>1. /\ cppFrames' = cppFrames \cup {p} /\ cFrames' = cFrames \cup {c}
      /\ \A f \in cppFrames : f.buffer # b
      /\ event' = [type |-> kind, frame |-> c] /\ result' = 1 /\ told # NoFormat
      /\ UNCHANGED <<screen, stream, told>>
  BY DEF FrameReceived, Given
<1>2. c.opaque = p /\ p.buffer = b /\ c.kind = kind /\ p \in CppFrames
  BY FrameProperties DEF CppFrames
<1>3. event'.type = kind /\ kind # "disconnected"
  BY <1>1 DEF Kinds
<1> HIDE DEF c, p
<1>4. TypeOK'
  BY <1>1, <1>2, <1>3 DEF IInv, TypeOK
<1>5. FramesTakenOver'
  <2>1. cppFrames' = {f.opaque : f \in cFrames'}
    BY <1>1, <1>2 DEF IInv, FramesTakenOver
  <2>2. ASSUME NEW f \in cFrames', NEW g \in cFrames', f.opaque.buffer = g.opaque.buffer
        PROVE  f = g
    BY <1>1, <1>2, <2>2 DEF IInv, FramesTakenOver
  <2> QED BY <2>1, <2>2 DEF FramesTakenOver
<1>6. CallbackInv'
  BY <1>1 DEF IInv, CallbackInv, c
<1> QED BY <1>4, <1>5, <1>6 DEF IInv

\* Freeing a C frame frees the C++ frame in it, and no other.
LEMMA FreeFrameSteps ==
  ASSUME IInv, NEW f \in cFrames, FreeFrame(f)
  PROVE  IInv' /\ cppFrames' = cppFrames \ {f.opaque}
<1>1. /\ cppFrames' = cppFrames \ {f.opaque} /\ cFrames' = cFrames \ {f}
      /\ UNCHANGED <<screen, stream, told, event, result>>
  BY CallbackDeletesOwn DEF FreeFrame
<1>2. TypeOK' /\ CallbackInv'
  BY <1>1 DEF IInv, TypeOK, CallbackInv
<1>3. FramesTakenOver'
  BY <1>1 DEF IInv, FramesTakenOver
<1> QED BY <1>1, <1>2, <1>3 DEF IInv

\* The other steps leave the frames alone.
LEMMA OtherSteps ==
  ASSUME IInv,
         \/ RequestShare \/ DropSharedScreen \/ Connect \/ Free \/ NoEvent \/ NextEventFails
         \/ (\E f \in DOMAIN CppFormat : Connected(f)) \/ Disconnected \/ Finished
         \/ UNCHANGED vars
  PROVE  IInv' /\ UNCHANGED <<cppFrames, cFrames>>
<1> USE DEF IInv
<1>1. UNCHANGED <<cppFrames, cFrames>>
  BY DEF RequestShare, DropSharedScreen, Connect, Free, NoEvent, NextEventFails, Connected,
         Disconnected, Finished, vars
<1>2. FramesTakenOver' /\ CallbackInv'
  BY <1>1 DEF FramesTakenOver, CallbackInv
<1>3. CASE RequestShare \/ DropSharedScreen \/ Connect \/ Free
  BY <1>2, <1>3 DEF RequestShare, DropSharedScreen, Connect, Free, TypeOK
<1>4. CASE NoEvent \/ NextEventFails
  BY <1>2, <1>4 DEF NoEvent, NextEventFails, TypeOK
<1>5. ASSUME NEW f \in DOMAIN CppFormat, Connected(f) PROVE IInv'
  <2>1. f # NoFormat
    BY DEF CppFormat, NoFormat
  <2>2. event'.type = "connected" /\ told' = f /\ result' = 1
        /\ UNCHANGED <<screen, stream, cppFrames, cFrames>>
    BY <1>5 DEF Connected
  <2> QED BY <1>2, <2>1, <2>2 DEF TypeOK
<1>6. CASE Disconnected
  <2>1. event'.type = "disconnected" /\ told' = NoFormat /\ result' = 1
        /\ UNCHANGED <<screen, stream, cppFrames, cFrames>>
    BY <1>6 DEF Disconnected
  <2> QED BY <1>2, <2>1 DEF TypeOK
<1>7. CASE Finished \/ UNCHANGED vars
  BY <1>2, <1>7 DEF Finished, vars, TypeOK
<1> QED BY <1>1, <1>3, <1>4, <1>5, <1>6, <1>7

\* Every step keeps the invariant.
LEMMA InvNext == IInv /\ [Next]_vars => IInv'
BY FrameReceivedSteps, FreeFrameSteps, OtherSteps DEF Next

-----------------------------------------------------------------------------

\* The invariant holds in every state that a C program can bring about.
THEOREM InvariantHolds == Spec => []IInv
BY InvInit, InvNext, PTL DEF Spec

\* Each C++ frame is in exactly one C frame until that is freed, which deletes it
\* as the kind of frame it is; and what nextEvent() says it filled in is there.
THEOREM FramesAreTakenOver == Spec => []FramesInv
<1>1. IInv => FramesInv
  BY DEF IInv, FramesInv
<1> QED BY <1>1, InvariantHolds, PTL

\* The buffers of the C++ frames that exist, and whether the stream does.
Held == {f.buffer : f \in cppFrames}
Open == stream # "freed"

\* Every step of a C program is a step of an EventStream and of a client that
\* keeps to its rules, or changes nothing that one sees.
LEMMA StepImplements ==
  ASSUME IInv, [Next]_vars
  PROVE  [Stream!Next]_<<told, Held, Open>>
<1> USE DEF Open
<1>1. ASSUME NEW kind \in Kinds, NEW b \in Buffers, FrameReceived(kind, b)
      PROVE  [Stream!Next]_<<told, Held, Open>>
  <2>1. /\ cppFrames' = cppFrames \cup {CppFrame(kind, b)} /\ CppFrame(kind, b).buffer = b
        /\ \A f \in cppFrames : f.buffer # b
        /\ told # NoFormat /\ Open /\ UNCHANGED <<told, stream>>
    BY <1>1, FrameProperties DEF FrameReceived, Given
  <2>2. Held' = Held \cup {b} /\ b \notin Held
    BY <2>1 DEF Held
  <2>3. Stream!Frame(b)
    BY <2>1, <2>2 DEF Stream!Frame, Held
  <2> QED BY <2>3 DEF Stream!Next
<1>2. ASSUME NEW f \in cFrames, FreeFrame(f) PROVE [Stream!Next]_<<told, Held, Open>>
  <2> DEFINE b == f.opaque.buffer
  <2>1. cppFrames' = cppFrames \ {f.opaque} /\ UNCHANGED <<told, stream>> /\ b \in Buffers
    BY <1>2, FreeFrameSteps, CallbackDeletesOwn DEF FreeFrame
  <2>2. f.opaque \in cppFrames /\ \A g \in cppFrames : g.buffer = b => g = f.opaque
    BY DEF IInv, FramesTakenOver
  <2>3. Held' = Held \ {b} /\ b \in Held
    BY <2>1, <2>2 DEF Held
  <2> HIDE DEF b
  <2>4. Stream!Release(b)
    BY <2>1, <2>3 DEF Stream!Release, Held
  <2> QED BY <2>1, <2>4 DEF Stream!Next
<1>3. CASE Free
  <2>1. cppFrames = {} /\ UNCHANGED <<told, cppFrames>> /\ Open /\ ~Open'
    BY <1>3 DEF Free, IInv, FramesTakenOver
  <2>2. Stream!Close
    BY <2>1 DEF Stream!Close, Held
  <2> QED BY <2>2 DEF Stream!Next
<1>4. ASSUME NEW f \in DOMAIN CppFormat, Connected(f) PROVE [Stream!Next]_<<told, Held, Open>>
  <2>1. Stream!Connected(f)
    BY <1>4 DEF Connected, Stream!Connected, Held
  <2> QED BY <2>1 DEF Stream!Next
<1>5. CASE Disconnected
  <2>1. Stream!Disconnected
    BY <1>5 DEF Disconnected, Stream!Disconnected, Held
  <2> QED BY <2>1 DEF Stream!Next
<1>6. CASE RequestShare \/ DropSharedScreen \/ Connect \/ NoEvent \/ NextEventFails \/ Finished
           \/ UNCHANGED vars
  <2>1. UNCHANGED <<told, cppFrames>> /\ Open' = Open
    BY <1>6 DEF RequestShare, DropSharedScreen, Connect, NoEvent, NextEventFails, Finished, vars
  <2> QED BY <2>1 DEF Held
<1> QED BY <1>1, <1>2, <1>3, <1>4, <1>5, <1>6 DEF Next

\* A C program, too, gets an EventStream, and one that frees the frames before
\* the stream keeps to its rules: every callback gives one buffer back, its own.
THEOREM ImplementsEventStream == Spec => StreamSpec
<1>1. Init => Stream!Init
  BY DEF Init, Stream!Init
<1>2. IInv /\ [Next]_vars => [Stream!Next]_<<told, Held, Open>>
  BY StepImplements
<1> QED BY <1>1, <1>2, InvariantHolds, PTL DEF Spec, StreamSpec, Stream!Spec, Held, Open
=============================================================================
