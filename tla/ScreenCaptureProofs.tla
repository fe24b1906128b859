------------------------ MODULE ScreenCaptureProofs -------------------------
(***************************************************************************)
(* What the whole program guarantees for every number of buffers, all      *)
(* formats and every length of the queue.                                  *)
(***************************************************************************)
EXTENDS ScreenCapture, SequenceTheorems, TLAPS

\* What is proved of the stream holds of the stream of the program.
SP == INSTANCE PipeWireStreamProofs

\* Both names of the stream's operators mean the same.
LEMMA SameActions ==
  /\ Stream!Construct <=> SP!Construct
  /\ Stream!ConstructFails <=> SP!ConstructFails
  /\ \A f : Stream!StreamParamChanged(f) <=> SP!StreamParamChanged(f)
  /\ \A new : Stream!StreamStateChanged(new) <=> SP!StreamStateChanged(new)
  /\ Stream!CoreError <=> SP!CoreError
  /\ \A b : Stream!ProcessFrame(b) <=> SP!ProcessFrame(b)
  /\ Stream!EnqueueEvent <=> SP!EnqueueEvent
  /\ Stream!RunInvoked <=> SP!RunInvoked
  /\ \A c : Stream!Poll(c) <=> SP!Poll(c)
  /\ \A c : Stream!NextEventCheck(c) <=> SP!NextEventCheck(c)
  /\ \A c : Stream!NextEventPop(c) <=> SP!NextEventPop(c)
  /\ \A b : Stream!ReleaseFrame(b) <=> SP!ReleaseFrame(b)
  /\ \A c : Stream!StopPolling(c) <=> SP!StopPolling(c)
  /\ Stream!DestroyBegin <=> SP!DestroyBegin
  /\ Stream!DestroyQuit <=> SP!DestroyQuit
  /\ Stream!DestroyJoin <=> SP!DestroyJoin
  /\ Stream!DestroyClear <=> SP!DestroyClear
  /\ Stream!DestroyStream <=> SP!DestroyStream
<1>1. Stream!Construct <=> SP!Construct
  BY DEF Stream!Construct, SP!Construct, Stream!Constructor, SP!Constructor, Stream!StartsLoop,
         SP!StartsLoop, Stream!queueVars, SP!queueVars, Stream!clientVars, SP!clientVars
<1>2. Stream!ConstructFails <=> SP!ConstructFails
  BY DEF Stream!ConstructFails, SP!ConstructFails, Stream!Constructor, SP!Constructor,
         Stream!queueVars, SP!queueVars, Stream!clientVars, SP!clientVars
<1>3. \A f : Stream!StreamParamChanged(f) <=> SP!StreamParamChanged(f)
  BY DEF Stream!StreamParamChanged, SP!StreamParamChanged, Stream!queueVars, SP!queueVars,
         Stream!clientVars, SP!clientVars
<1>4. \A new : Stream!StreamStateChanged(new) <=> SP!StreamStateChanged(new)
  BY DEF Stream!StreamStateChanged, SP!StreamStateChanged, Stream!Transitions, SP!Transitions,
         Stream!NoFormat, SP!NoFormat, Stream!Report, SP!Report, Stream!Reaction, SP!Reaction,
         Stream!ConnectedEvent, SP!ConnectedEvent, Stream!DisconnectedEvent,
         SP!DisconnectedEvent, Stream!queueVars, SP!queueVars, Stream!clientVars, SP!clientVars
<1>5. Stream!CoreError <=> SP!CoreError
  BY DEF Stream!CoreError, SP!CoreError, Stream!queueVars, SP!queueVars, Stream!clientVars,
         SP!clientVars
<1>6. \A b : Stream!ProcessFrame(b) <=> SP!ProcessFrame(b)
  BY DEF Stream!ProcessFrame, SP!ProcessFrame, Stream!BufferTypes, SP!BufferTypes,
         Stream!Report, SP!Report, Stream!FrameEvent, SP!FrameEvent, Stream!queueVars,
         SP!queueVars, Stream!clientVars, SP!clientVars
<1>7. Stream!EnqueueEvent <=> SP!EnqueueEvent
  BY DEF Stream!EnqueueEvent, SP!EnqueueEvent, Stream!Report, SP!Report, Stream!clientVars,
         SP!clientVars
<1>8. Stream!RunInvoked <=> SP!RunInvoked
  BY DEF Stream!RunInvoked, SP!RunInvoked, Stream!queueVars, SP!queueVars, Stream!clientVars,
         SP!clientVars
<1>9. \A c : Stream!Poll(c) <=> SP!Poll(c)
  BY DEF Stream!Poll, SP!Poll, Stream!queueVars, SP!queueVars
<1>10. \A c : Stream!NextEventCheck(c) <=> SP!NextEventCheck(c)
  BY DEF Stream!NextEventCheck, SP!NextEventCheck, Stream!queueVars, SP!queueVars
<1>11. \A c : Stream!NextEventPop(c) <=> SP!NextEventPop(c)
  BY DEF Stream!NextEventPop, SP!NextEventPop, Stream!IsFrame, SP!IsFrame, Stream!StaysReadable,
         SP!StaysReadable, Stream!queueVars, SP!queueVars
<1>12. \A b : Stream!ReleaseFrame(b) <=> SP!ReleaseFrame(b)
  BY DEF Stream!ReleaseFrame, SP!ReleaseFrame, Stream!queueVars, SP!queueVars,
         Stream!clientVars, SP!clientVars
<1>13. \A c : Stream!StopPolling(c) <=> SP!StopPolling(c)
  BY DEF Stream!StopPolling, SP!StopPolling, Stream!queueVars, SP!queueVars
<1>14. Stream!DestroyBegin <=> SP!DestroyBegin
  BY DEF Stream!DestroyBegin, SP!DestroyBegin, Stream!Unused, SP!Unused,
         Stream!InvokeDeactivate, SP!InvokeDeactivate, Stream!queueVars, SP!queueVars,
         Stream!clientVars, SP!clientVars
<1>15. Stream!DestroyQuit <=> SP!DestroyQuit
  BY DEF Stream!DestroyQuit, SP!DestroyQuit, Stream!queueVars, SP!queueVars, Stream!clientVars,
         SP!clientVars
<1>16. Stream!DestroyJoin <=> SP!DestroyJoin
  BY DEF Stream!DestroyJoin, SP!DestroyJoin, Stream!queueVars, SP!queueVars, Stream!clientVars,
         SP!clientVars
<1>17. Stream!DestroyClear <=> SP!DestroyClear
  BY DEF Stream!DestroyClear, SP!DestroyClear, Stream!IsFrame, SP!IsFrame, Stream!clientVars,
         SP!clientVars
<1>18. Stream!DestroyStream <=> SP!DestroyStream
  BY DEF Stream!DestroyStream, SP!DestroyStream, Stream!Reaction, SP!Reaction,
         Stream!ConnectedEvent, SP!ConnectedEvent, Stream!DisconnectedEvent,
         SP!DisconnectedEvent, Stream!queueVars, SP!queueVars, Stream!clientVars, SP!clientVars
<1> QED BY <1>1, <1>2, <1>3, <1>4, <1>5, <1>6, <1>7, <1>8, <1>9, <1>10,
           <1>11, <1>12, <1>13, <1>14, <1>15, <1>16, <1>17, <1>18

\* So do the names of its data.
LEMMA SameData ==
  /\ Stream!vars = SP!vars /\ SP!vars = streamVars
  /\ Stream!Offered = SP!Offered
  /\ Stream!NoFormat = SP!NoFormat
  /\ Stream!DisconnectedEvent = SP!DisconnectedEvent
  /\ \A f : Stream!ConnectedEvent(f) = SP!ConnectedEvent(f)
  /\ \A e : Stream!IsFrame(e) <=> SP!IsFrame(e)
  /\ Stream!Events = SP!Events
<1>1. Stream!vars = SP!vars /\ SP!vars = streamVars
  BY DEF Stream!vars, SP!vars, streamVars
<1>2. Stream!Offered = SP!Offered
  BY DEF Stream!Offered, SP!Offered
<1>3. /\ Stream!NoFormat = SP!NoFormat
      /\ Stream!DisconnectedEvent = SP!DisconnectedEvent
      /\ \A f : Stream!ConnectedEvent(f) = SP!ConnectedEvent(f)
      /\ \A e : Stream!IsFrame(e) <=> SP!IsFrame(e)
  BY DEF Stream!NoFormat, SP!NoFormat, Stream!DisconnectedEvent, SP!DisconnectedEvent,
         Stream!ConnectedEvent, SP!ConnectedEvent, Stream!IsFrame, SP!IsFrame
<1>4. Stream!Events = SP!Events
  BY <1>2, <1>3 DEF Stream!Events, SP!Events, Stream!FrameEvent, SP!FrameEvent
<1> QED BY <1>1, <1>2, <1>3, <1>4

\* So does the stream as a whole.
LEMMA SameStream ==
  /\ Stream!Init <=> SP!Init
  /\ Stream!LoopThread <=> SP!LoopThread
  /\ Stream!Next <=> SP!Next
<1>1. Stream!Finished <=> SP!Finished
  BY SameData DEF Stream!Finished, SP!Finished, Stream!vars, SP!vars
<1>2. Stream!Init <=> SP!Init
  BY DEF Stream!Init, SP!Init, Stream!NoFormat, SP!NoFormat, Stream!Constructor, SP!Constructor
<1>3. Stream!LoopThread <=> SP!LoopThread
  BY SameActions, SameData DEF Stream!LoopThread, SP!LoopThread
<1>4. \A c : Stream!Client(c) <=> SP!Client(c)
  BY SameActions DEF Stream!Client, SP!Client
<1>5. Stream!Owner <=> SP!Owner
  BY SameActions DEF Stream!Owner, SP!Owner
<1>6. Stream!Next <=> SP!Next
  BY <1>1, <1>3, <1>4, <1>5, SameActions DEF Stream!Next, SP!Next
<1> QED BY <1>2, <1>3, <1>6

-----------------------------------------------------------------------------
(* The inductive invariant.                                                *)

\* The main thread is the client of the stream while it is in the loop, and its
\* owner before and after it.
Holds ==
  /\ main = "request" => owner = "eventfd" /\ share = "none"
  /\ main = "construct" =>
       owner \in {"eventfd", "core", "stream", "connect", "thread"} /\ share = "open"
  /\ main \in {"request", "construct"} => client[Main] = "polling" /\ status = "none"
  /\ main \in {"poll", "event", "handle", "thrown"} =>
       owner = "alive" /\ share = "open" /\ status \in {"none", "open"}
  /\ main \in {"poll", "handle", "thrown"} => client[Main] = "polling"
  /\ main = "event" => client[Main] \in {"check", "pop"} /\ eventQueue # <<>>
  /\ main = "unwind" =>
       /\ share = "open"
       /\ owner \in {"alive", "quit", "join", "clear", "disconnect", "destroyed", "failed"}
       /\ owner # "failed" => client[Main] \in {"threw", "stopped"}
       /\ owner # "alive" => status \in {"none", "closed"}
  /\ main = "exited" => status \in {"none", "closed"} /\ loop \notin {"idle", "enqueue"}

\* Only an output that is not destroyed yet has frames, and the one that the
\* main thread has in hand is not among them.
LentInv ==
  /\ status \in {"none", "closed"} => lent = {}
  /\ main = "handle" /\ Stream!IsFrame(hand[1]) => hand[1].buffer \notin lent

\* What the main thread knows of the stream, and the output it made of it.
OutputInv ==
  /\ status = "none" <=> built = <<>>
  /\ Len(built) <= 1
  /\ announced.kind = "none" => built = <<>> /\ main \notin {"handle", "thrown"}
  /\ announced.kind = "connected" /\ main \in {"poll", "event"} =>
       built = <<announced.format>>
  /\ announced.kind = "disconnected" =>
       main \in {"poll", "unwind", "exited"} /\ (main = "poll" => shouldStop)
  /\ main = "handle" =>
       \/ hand[1].kind = "connected" /\ announced = hand[1] /\ built = <<>>
       \/ /\ Stream!IsFrame(hand[1]) /\ built = <<hand[1].format>>
          /\ announced = Stream!ConnectedEvent(hand[1].format)
          /\ hand[1].kind = "dmabuf" => hand[1].format.modifier

SInv ==
  /\ SP!IInv
  /\ TypeOK
  /\ FramesAccountedFor
  /\ Holds
  /\ LentInv
  /\ OutputInv

-----------------------------------------------------------------------------
(* What the steps of the stream do, as far as main() is concerned.         *)

\* The invariant of the stream, spelled out.
LEMMA StreamFacts ==
  ASSUME SP!IInv
  PROVE  /\ where \in [Buffers -> {"pipewire", "event", "client"}]
         /\ client[Main] \in {"polling", "check", "pop", "threw", "stopped"}
         /\ client \in [Clients -> {"polling", "check", "pop", "threw", "stopped"}]
         /\ eventQueue \in Seq(Stream!Events) /\ pending \in Seq(Stream!Events)
         /\ owner \in {"eventfd", "core", "stream", "connect", "thread", "alive", "failed",
                       "quit", "join", "clear", "disconnect", "destroyed"}
         /\ owner \in {"eventfd", "core", "stream", "connect", "thread", "failed"} =>
              /\ loop = "none" /\ announced = [kind |-> "none"]
              /\ client[Main] = "polling"
              /\ \A b \in Buffers : where[b] = "pipewire"
         /\ owner = "destroyed" => loop = "ended"
         /\ owner = "alive" => (readable <=> eventQueue # <<>>)
<1>1. SP!TypeOK /\ SP!LifeInv /\ SP!ReadableIffQueued
  BY DEF SP!IInv
<1>2. Main \in Clients
  BY DEF Clients
<1>3. SP!Unborn <=> owner \in {"failed", "eventfd", "core", "stream", "connect", "thread"}
  BY SP!ConstructorSteps, CaptureAssumption DEF SP!Unborn
<1>4. owner \in {"eventfd", "core", "stream", "connect", "thread", "alive", "failed",
                 "quit", "join", "clear", "disconnect", "destroyed"}
  BY <1>1, SP!ConstructorSteps, CaptureAssumption DEF SP!TypeOK
<1>5. where \in [Buffers -> {"pipewire", "event", "client"}]
  BY <1>1 DEF SP!TypeOK
<1>6. client \in [Clients -> {"polling", "check", "pop", "threw", "stopped"}]
  BY <1>1 DEF SP!TypeOK
<1>7. eventQueue \in Seq(Stream!Events) /\ pending \in Seq(Stream!Events)
  BY <1>1, SameData DEF SP!TypeOK
<1>8. owner \in {"eventfd", "core", "stream", "connect", "thread", "failed"} =>
              /\ loop = "none" /\ announced = [kind |-> "none"]
              /\ client[Main] = "polling"
              /\ \A b \in Buffers : where[b] = "pipewire"
  BY <1>1, <1>2, <1>3 DEF SP!LifeInv
<1>9. owner = "destroyed" => loop = "ended"
  BY <1>1 DEF SP!LifeInv
<1>10. owner = "alive" => (readable <=> eventQueue # <<>>)
  BY <1>1 DEF SP!ReadableIffQueued
<1> QED BY <1>2, <1>4, <1>5, <1>6, <1>7, <1>8, <1>9, <1>10

\* The oldest event of the queue: a frame is in a buffer that is in this event,
\* and has the format that was announced last; a connection is news.
LEMMA OldestEvent ==
  ASSUME SP!IInv, eventQueue # <<>>
  PROVE  LET e == Head(eventQueue) IN
           /\ e \in Stream!Events
           /\ Stream!IsFrame(e) =>
                /\ e.buffer \in Buffers /\ where[e.buffer] = "event"
                /\ announced = Stream!ConnectedEvent(e.format)
                /\ e.kind = "dmabuf" => e.format.modifier
           /\ e.kind = "connected" => announced.kind \in {"none", "disconnected"}
<1> DEFINE e == Head(eventQueue)
<1>1. SP!TypeOK /\ SP!BuffersAccountedFor /\ SP!FramesAreAnnounced /\ SP!ConnectsAlternate
  BY DEF SP!IInv
<1>2. e \in SP!Events /\ 1 \in DOMAIN SP!Unseen /\ SP!Unseen[1] = e
  <2>1. eventQueue \in Seq(SP!Events) /\ pending \in Seq(SP!Events)
    BY <1>1 DEF SP!TypeOK
  <2>2. Len(eventQueue) \in Nat \ {0} /\ Len(pending) \in Nat
    BY <2>1, EmptySeq, LenProperties
  <2>3. DOMAIN SP!Unseen = 1 .. Len(eventQueue) + Len(pending) /\ SP!Unseen[1] = eventQueue[1]
    BY <2>1, <2>2, ConcatProperties, LenProperties DEF SP!Unseen
  <2> QED BY <2>1, <2>2, <2>3
<1>3. \A S : SP!ToldLast(SP!Unseen, announced, 1, S) => announced \in S
  BY DEF SP!ToldLast
<1>4. ASSUME Stream!IsFrame(e)
      PROVE  /\ e.buffer \in Buffers /\ where[e.buffer] = "event"
             /\ announced = Stream!ConnectedEvent(e.format)
             /\ e.kind = "dmabuf" => e.format.modifier
  <2>1. SP!IsFrame(e) /\ e.buffer \in Buffers
    BY <1>2, <1>4, SameData, SP!EventForms, CaptureAssumption
  <2>2. where[e.buffer] = "event"
    <3>1. PICK b \in Buffers : b = e.buffer
      BY <2>1
    <3>2. where[b] = "event"
      BY <1>1, <1>2, <2>1, <3>1 DEF SP!BuffersAccountedFor
    <3> QED BY <3>1, <3>2
  <2>3. announced = SP!ConnectedEvent(e.format) /\ (e.kind = "dmabuf" => e.format.modifier)
    BY <1>1, <1>2, <1>3, <2>1 DEF SP!FramesAreAnnounced
  <2> QED BY <2>1, <2>2, <2>3, SameData
<1>5. ASSUME e.kind = "connected" PROVE announced.kind \in {"none", "disconnected"}
  <2>1. announced \in SP!Unconnected
    BY <1>1, <1>2, <1>3, <1>5 DEF SP!ConnectsAlternate
  <2> QED BY <2>1 DEF SP!Unconnected, SP!DisconnectedEvent
<1> QED BY <1>2, <1>4, <1>5, SameData

\* The kinds of events.
LEMMA EventKinds ==
  ASSUME NEW e \in Stream!Events
  PROVE  /\ e.kind \in {"disconnected", "connected", "memory", "dmabuf"}
         /\ Stream!IsFrame(e) <=> e.kind \in {"memory", "dmabuf"}
         /\ Stream!IsFrame(e) => e.format \in Stream!Offered /\ e.buffer \in Buffers
         /\ e.kind = "connected" => e.format \in Stream!Offered
BY DEF Stream!Events, Stream!IsFrame, Stream!ConnectedEvent, Stream!DisconnectedEvent,
       Stream!FrameEvent

-----------------------------------------------------------------------------
(* The steps.                                                              *)

\* What SInv says of main().
MainInv == TypeOK /\ FramesAccountedFor /\ Holds /\ LentInv /\ OutputInv

\* The buffers of the frames in a sequence of events.
FrameBuffers(h) == {h[i].buffer : i \in {j \in DOMAIN h : Stream!IsFrame(h[j])}}

\* At most one frame is in hand.
LEMMA FramesInHand ==
  /\ FrameBuffers(<<>>) = {}
  /\ \A e : FrameBuffers(<<e>>) = IF Stream!IsFrame(e) THEN {e.buffer} ELSE {}
  /\ FramesAccountedFor <=> {b \in Buffers : where[b] = "client"} = lent \cup FrameBuffers(hand)
<1>1. FrameBuffers(<<>>) = {}
  BY DEF FrameBuffers
<1>2. ASSUME NEW e PROVE FrameBuffers(<<e>>) = IF Stream!IsFrame(e) THEN {e.buffer} ELSE {}
  <2>1. DOMAIN <<e>> = {1} /\ <<e>>[1] = e
    OBVIOUS
  <2> QED BY <2>1 DEF FrameBuffers
<1>3. FramesAccountedFor <=> {b \in Buffers : where[b] = "client"} = lent \cup FrameBuffers(hand)
  BY DEF FramesAccountedFor, FrameBuffers
<1> QED BY <1>1, <1>2, <1>3

\* There is one event in hand while it is handled, and none otherwise.
LEMMA HandForms ==
  ASSUME TypeOK
  PROVE  /\ main = "handle" => hand[1] \in Stream!Events /\ hand = <<hand[1]>>
         /\ main # "handle" => hand = <<>>
<1>1. hand \in Seq(Stream!Events) /\ Len(hand) = IF main = "handle" THEN 1 ELSE 0
  BY DEF TypeOK
<1>2. ASSUME main = "handle" PROVE hand[1] \in Stream!Events /\ hand = <<hand[1]>>
  BY <1>1, <1>2
<1>3. ASSUME main # "handle" PROVE hand = <<>>
  BY <1>1, <1>3, EmptySeq
<1> QED BY <1>2, <1>3

\* A callback of the stream changes nothing that the main thread knows.
LEMMA PipeWireEffect ==
  ASSUME SP!IInv, SP!LoopThread
  PROVE  /\ loop \in {"idle", "enqueue"}
         /\ UNCHANGED <<owner, client, announced>>
         /\ {b \in Buffers : where'[b] = "client"} = {b \in Buffers : where[b] = "client"}
         /\ eventQueue # <<>> => eventQueue' # <<>>
<1>1. where \in [Buffers -> {"pipewire", "event", "client"}]
      /\ eventQueue \in Seq(Stream!Events) /\ pending \in Seq(Stream!Events)
  BY StreamFacts
<1>2. ASSUME NEW b \in Buffers, SP!ProcessFrame(b)
      PROVE  {x \in Buffers : where'[x] = "client"} = {x \in Buffers : where[x] = "client"}
  BY <1>1, <1>2 DEF SP!ProcessFrame
<1>3. CASE SP!EnqueueEvent
  <2>1. eventQueue # <<>> => eventQueue \o pending # <<>>
    BY <1>1, ConcatEqualIffEmpty, ConcatProperties, EmptySeq
  <2> QED BY <1>3, <2>1 DEF SP!EnqueueEvent, SP!clientVars
<1> QED BY <1>2, <1>3
     DEF SP!LoopThread, SP!StreamParamChanged, SP!StreamStateChanged, SP!CoreError, SP!ProcessFrame,
         SP!RunInvoked, SP!queueVars, SP!clientVars

\* So it keeps the invariant.
LEMMA PipeWireKeeps ==
  ASSUME SInv, PipeWire
  PROVE  [SP!Next]_(SP!vars) /\ MainInv'
<1>1. SP!IInv /\ MainInv
  BY DEF SInv, MainInv
<1>2. SP!LoopThread /\ UNCHANGED <<sinkVars, mainVars>>
  BY SameStream DEF PipeWire
<1>3. SP!Next
  BY <1>2 DEF SP!Next
<1>4. /\ loop \in {"idle", "enqueue"}
      /\ UNCHANGED <<owner, client, announced>>
      /\ {b \in Buffers : where'[b] = "client"} = {b \in Buffers : where[b] = "client"}
      /\ eventQueue # <<>> => eventQueue' # <<>>
  BY <1>1, <1>2, PipeWireEffect
<1>5. TypeOK' /\ FramesAccountedFor' /\ LentInv' /\ OutputInv'
  BY <1>1, <1>2, <1>4
     DEF MainInv, sinkVars, mainVars, TypeOK, FramesAccountedFor, LentInv, OutputInv
<1>6. Holds'
  BY <1>1, <1>2, <1>4 DEF MainInv, sinkVars, mainVars, Holds
<1> QED BY <1>3, <1>5, <1>6 DEF MainInv

\* The steps before the loop keep the invariant.
LEMMA StartKeeps ==
  ASSUME SInv, RequestScreen \/ Start
  PROVE  [SP!Next]_(SP!vars) /\ MainInv'
<1>1. SP!IInv /\ MainInv /\ hand = <<>> /\ main \in {"request", "construct"}
  BY HandForms DEF SInv, MainInv, RequestScreen, Start, Construct, ConstructFails
<1>2. /\ owner \in {"eventfd", "core", "stream", "connect", "thread"} /\ loop = "none"
      /\ announced = [kind |-> "none"] /\ client[Main] = "polling" /\ status = "none"
      /\ lent = {} /\ built = <<>>
  BY <1>1, StreamFacts DEF MainInv, Holds, LentInv, OutputInv
<1>3. CASE RequestScreen
  <2>1. UNCHANGED SP!vars
    BY <1>3 DEF RequestScreen, streamVars, SP!vars
  <2>2. TypeOK' /\ FramesAccountedFor' /\ LentInv' /\ OutputInv'
    BY <1>1, <1>2, <1>3
       DEF RequestScreen, MainInv, streamVars, sinkVars, TypeOK, FramesAccountedFor, LentInv, OutputInv
  <2>3. Holds'
    BY <1>1, <1>2, <1>3 DEF RequestScreen, MainInv, streamVars, sinkVars, Holds
  <2> QED BY <2>1, <2>2, <2>3 DEF MainInv
<1>4. CASE Start
  <2>1. /\ main = "construct" /\ (SP!Construct \/ SP!ConstructFails)
        /\ UNCHANGED <<sinkVars, hand, shouldStop, signalled, built, share>>
        /\ UNCHANGED <<where, client, announced>>
        /\ \/ owner' \in {"core", "stream", "connect", "thread"} /\ main' = "construct"
           \/ owner' = "alive" /\ main' = "poll"
           \/ owner' = "failed" /\ main' = "unwind"
    <3>1. CASE Construct
      <4>1. SP!Construct
        BY <3>1, SameActions DEF Construct
      <4>2. owner' \in {"core", "stream", "connect", "thread", "alive"}
        <5>1. PICK i \in DOMAIN SP!Constructor :
                owner' = IF i = Len(SP!Constructor) THEN "alive" ELSE SP!Constructor[i + 1]
          BY <4>1 DEF SP!Construct
        <5> DEFINE steps == SP!Constructor
        <5>2. /\ i \in {1, 2, 3, 4, 5} /\ Len(steps) = 5
              /\ steps[2] = "core" /\ steps[3] = "stream" /\ steps[4] = "connect"
              /\ steps[5] = "thread"
          BY SP!ConstructorSteps, CaptureAssumption
        <5>3. owner' = IF i = Len(steps) THEN "alive" ELSE steps[i + 1]
          BY <5>1
        <5> HIDE DEF steps
        <5> QED BY <5>2, <5>3
      <4> QED BY <3>1, <4>1, <4>2 DEF Construct, SP!Construct, SP!clientVars
    <3>2. CASE ConstructFails
      <4>1. SP!ConstructFails
        BY <3>2, SameActions DEF ConstructFails
      <4> QED BY <3>2, <4>1 DEF ConstructFails, SP!ConstructFails, SP!clientVars
    <3> QED BY <1>4, <3>1, <3>2 DEF Start
  <2>2. SP!Next
    BY <2>1 DEF SP!Next, SP!Owner
  <2>3. TypeOK' /\ FramesAccountedFor' /\ LentInv' /\ OutputInv'
    BY <1>1, <1>2, <2>1
       DEF MainInv, sinkVars, TypeOK, FramesAccountedFor, LentInv, OutputInv
  <2>4. Holds'
    BY <1>1, <1>2, <2>1 DEF MainInv, sinkVars, Holds
  <2> QED BY <2>2, <2>3, <2>4 DEF MainInv
<1> QED BY <1>3, <1>4

\* So do poll(), the steps of nextEvent() that take no event, and the end of the loop.
LEMMA PollKeeps ==
  ASSUME SInv,
         Signal \/ PollStream \/ PollSignal \/ PollFails \/ NextEventCheck \/ LeaveLoop
  PROVE  [SP!Next]_(SP!vars) /\ MainInv'
<1>1. SP!IInv /\ MainInv /\ Main \in Clients
  BY DEF SInv, MainInv, Clients
<1>2. /\ hand \in Seq(Stream!Events) /\ client \in [Clients -> {"polling", "check", "pop", "threw", "stopped"}]
      /\ owner = "alive" => (readable <=> eventQueue # <<>>)
  BY <1>1, StreamFacts DEF MainInv, TypeOK
<1>3. CASE Signal \/ PollSignal
  <2>1. UNCHANGED SP!vars
    BY <1>3 DEF Signal, PollSignal, streamVars, SP!vars
  <2>2. /\ UNCHANGED <<where, announced, sinkVars, main, hand, built, share>>
        /\ shouldStop' \in BOOLEAN /\ (shouldStop => shouldStop') /\ signalled' \in BOOLEAN
    BY <1>1, <1>3 DEF Signal, PollSignal, streamVars, MainInv, TypeOK
  <2>4. TypeOK' /\ FramesAccountedFor' /\ LentInv' /\ OutputInv'
    <3>1. TypeOK' /\ OutputInv'
      BY <1>1, <2>2 DEF MainInv, sinkVars, TypeOK, OutputInv
    <3>2. FramesAccountedFor' /\ LentInv'
      BY <1>1, <2>2 DEF MainInv, sinkVars, FramesAccountedFor, LentInv
    <3> QED BY <3>1, <3>2
  <2>3. Holds'
    BY <1>1, <1>3 DEF Signal, PollSignal, MainInv, streamVars, sinkVars, Holds
  <2> QED BY <2>1, <2>3, <2>4 DEF MainInv
<1>4. CASE PollStream
  <2>1. SP!Poll(Main)
    BY <1>4, SameActions DEF PollStream
  <2>2. SP!Next
    BY <1>1, <2>1 DEF SP!Next, SP!Client
  <2>3. UNCHANGED <<where, announced, owner, loop, eventQueue>> /\ client'[Main] = "check" /\ readable
    BY <1>1, <1>2, <2>1 DEF SP!Poll, SP!queueVars
  <2>4. TypeOK' /\ FramesAccountedFor' /\ LentInv' /\ OutputInv'
    BY <1>1, <1>4, <2>3
       DEF PollStream, MainInv, sinkVars, TypeOK, FramesAccountedFor, LentInv, OutputInv, StopRequested
  <2>5. Holds'
    BY <1>1, <1>2, <1>4, <2>3 DEF PollStream, MainInv, sinkVars, Holds
  <2> QED BY <2>2, <2>4, <2>5 DEF MainInv
<1>5. CASE NextEventCheck
  <2>1. SP!NextEventCheck(Main)
    BY <1>5, SameActions DEF NextEventCheck
  <2>2. SP!Next
    BY <1>1, <2>1 DEF SP!Next, SP!Client
  <2>3. UNCHANGED <<where, announced, owner, loop, eventQueue>> /\ client'[Main] \in {"threw", "pop"}
    BY <1>1, <1>2, <2>1 DEF SP!NextEventCheck, SP!queueVars
  <2>4. TypeOK' /\ FramesAccountedFor' /\ LentInv' /\ OutputInv'
    BY <1>1, <1>5, <2>3
       DEF NextEventCheck, MainInv, sinkVars, TypeOK, FramesAccountedFor, LentInv, OutputInv
  <2>5. Holds'
    BY <1>1, <1>2, <1>5, <2>3 DEF NextEventCheck, MainInv, sinkVars, Holds
  <2> QED BY <2>2, <2>4, <2>5 DEF MainInv
<1>6. CASE PollFails \/ LeaveLoop
  <2>1. SP!StopPolling(Main)
    BY <1>6, SameActions DEF PollFails, LeaveLoop
  <2>2. SP!Next
    BY <1>1, <2>1 DEF SP!Next, SP!Client
  <2>3. UNCHANGED <<where, announced, owner, loop, eventQueue>> /\ client'[Main] = "stopped"
    BY <1>1, <1>2, <2>1 DEF SP!StopPolling, SP!queueVars
  <2>4. TypeOK' /\ FramesAccountedFor' /\ LentInv' /\ OutputInv'
    BY <1>1, <1>6, <2>3
       DEF PollFails, LeaveLoop, MainInv, sinkVars, TypeOK, FramesAccountedFor, LentInv, OutputInv
  <2>5. Holds'
    BY <1>1, <1>2, <1>6, <2>3 DEF PollFails, LeaveLoop, MainInv, sinkVars, Holds
  <2> QED BY <2>2, <2>4, <2>5 DEF MainInv
<1> QED BY <1>3, <1>4, <1>5, <1>6

\* nextEvent() returns an event that fits what main() knows.
LEMMA NextEventKeeps ==
  ASSUME SInv, NextEvent
  PROVE  [SP!Next]_(SP!vars) /\ MainInv'
<1>1. SP!IInv /\ MainInv /\ Main \in Clients
  BY DEF SInv, MainInv, Clients
<1>2. SP!NextEventPop(Main)
  BY SameActions DEF NextEvent
<1>3. SP!Next
  BY <1>1, <1>2 DEF SP!Next, SP!Client
<1>4. /\ main = "event" /\ eventQueue # <<>> /\ owner = "alive" /\ share = "open" /\ hand = <<>>
      /\ where \in [Buffers -> {"pipewire", "event", "client"}]
      /\ client \in [Clients -> {"polling", "check", "pop", "threw", "stopped"}]
      /\ status \in {"none", "open"}
  BY <1>1, StreamFacts, HandForms DEF NextEvent, MainInv, Holds
<1>5. PICK e \in Stream!Events : e = Head(eventQueue)
  BY <1>1, <1>4, OldestEvent
<1>6. /\ Stream!IsFrame(e) =>
           /\ e.buffer \in Buffers /\ where[e.buffer] = "event" /\ e.format \in Stream!Offered
           /\ announced = Stream!ConnectedEvent(e.format)
           /\ e.kind = "dmabuf" => e.format.modifier
      /\ e.kind = "connected" => announced.kind \in {"none", "disconnected"}
      /\ e.kind \in {"disconnected", "connected", "memory", "dmabuf"}
      /\ Stream!IsFrame(e) <=> e.kind \in {"memory", "dmabuf"}
  BY <1>1, <1>4, <1>5, OldestEvent, EventKinds
<1>7. /\ client'[Main] = "polling" /\ UNCHANGED <<owner, loop, sinkVars, signalled, built, share>>
      /\ IF Stream!IsFrame(e)
         THEN where' = [where EXCEPT ![e.buffer] = "client"] /\ UNCHANGED announced
         ELSE announced' = e /\ UNCHANGED where
      /\ shouldStop' = (shouldStop \/ e.kind = "disconnected")
      /\ IF e.kind = "disconnected" THEN main' = "poll" /\ hand' = <<>>
         ELSE main' = "handle" /\ hand' = <<e>>
  BY <1>1, <1>2, <1>4, <1>5, SameData DEF NextEvent, StopsAt, SP!NextEventPop
<1>8. CASE e.kind = "disconnected"
  <2>1. /\ announced' = e /\ UNCHANGED where /\ shouldStop' = TRUE
        /\ main' = "poll" /\ hand' = <<>>
    BY <1>6, <1>7, <1>8
  <2>2. TypeOK' /\ OutputInv'
    BY <1>1, <1>4, <1>7, <1>8, <2>1 DEF MainInv, TypeOK, OutputInv, sinkVars
  <2>3. FramesAccountedFor' /\ LentInv'
    BY <1>1, <1>4, <1>7, <2>1 DEF MainInv, FramesAccountedFor, LentInv, sinkVars
  <2>4. Holds'
    BY <1>1, <1>4, <1>7, <2>1 DEF MainInv, Holds, sinkVars
  <2> QED BY <1>3, <2>2, <2>3, <2>4 DEF MainInv
<1>9. CASE e.kind # "disconnected"
  <2>1. main' = "handle" /\ hand' = <<e>> /\ hand'[1] = e /\ hand' \in Seq(Stream!Events) /\ Len(hand') = 1
    <3>1. main' = "handle" /\ hand' = <<e>>
      BY <1>7, <1>9, Zenon
    <3>2. <<e>>[1] = e /\ <<e>> \in Seq(Stream!Events) /\ Len(<<e>>) = 1
      OBVIOUS
    <3> QED BY <3>1, <3>2
  <2>2. shouldStop' \in BOOLEAN
    BY <1>1, <1>7 DEF MainInv, TypeOK
  <2>3. TypeOK'
    BY <1>1, <1>4, <1>7, <2>1, <2>2 DEF MainInv, TypeOK, sinkVars
  <2>4. Holds'
    BY <1>1, <1>4, <1>7, <2>1 DEF MainInv, Holds, sinkVars
  <2>5. CASE Stream!IsFrame(e)
    <3>1. announced = Stream!ConnectedEvent(e.format) /\ announced.kind = "connected"
          /\ announced.format = e.format /\ announced' = announced
      BY <1>6, <1>7, <2>5 DEF Stream!ConnectedEvent
    <3>2. OutputInv'
      BY <1>1, <1>4, <1>6, <1>7, <2>1, <2>5, <3>1 DEF MainInv, OutputInv, sinkVars
    <3>3. {b \in Buffers : where[b] = "client"} = lent /\ FrameBuffers(hand') = {e.buffer}
      BY <1>1, <1>4, <2>1, <2>5, FramesInHand DEF MainInv
    <3>4. {b \in Buffers : where'[b] = "client"} = {b \in Buffers : where[b] = "client"} \cup {e.buffer}
      BY <1>4, <1>6, <1>7, <2>5
    <3>5. FramesAccountedFor'
      BY <1>7, <3>3, <3>4 DEF FramesAccountedFor, FrameBuffers, sinkVars
    <3>6. LentInv'
      BY <1>1, <1>6, <1>7, <2>1, <2>5, <3>3 DEF MainInv, LentInv, sinkVars
    <3> QED BY <1>3, <2>3, <2>4, <3>2, <3>5, <3>6 DEF MainInv
  <2>6. CASE ~Stream!IsFrame(e)
    <3>1. /\ e.kind = "connected" /\ announced' = e /\ UNCHANGED where
          /\ announced.kind \in {"none", "disconnected"}
      BY <1>6, <1>7, <1>9, <2>6
    <3>2. announced.kind = "none" /\ built = <<>>
      BY <1>1, <1>4, <3>1 DEF MainInv, OutputInv
    <3>3. OutputInv'
      BY <1>1, <1>4, <1>7, <2>1, <3>1, <3>2 DEF MainInv, OutputInv, sinkVars
    <3>4. FramesAccountedFor'
      <4>1. FrameBuffers(hand') = {} /\ FrameBuffers(hand) = {}
        BY <1>4, <2>1, <2>6, FramesInHand
      <4>2. {b \in Buffers : where[b] = "client"} = lent
        BY <1>1, <4>1, FramesInHand DEF MainInv
      <4> QED BY <1>7, <3>1, <4>1, <4>2 DEF FramesAccountedFor, FrameBuffers, sinkVars
    <3>5. LentInv'
      BY <1>1, <1>7, <2>1, <2>6 DEF MainInv, LentInv, sinkVars
    <3> QED BY <1>3, <2>3, <2>4, <3>3, <3>4, <3>5 DEF MainInv
  <2> QED BY <2>5, <2>6
<1> QED BY <1>8, <1>9

\* The handling of an event keeps the invariant: the output is built when there
\* is none yet, and a frame stays in hand until it is in the output or gone.
LEMMA HandleKeeps ==
  ASSUME SInv, Handle
  PROVE  [SP!Next]_(SP!vars) /\ MainInv'
<1>1. SP!IInv /\ MainInv
  BY DEF SInv, MainInv
<1>2. /\ main = "handle" /\ hand[1] \in Stream!Events /\ hand = <<hand[1]>>
      /\ where \in [Buffers -> {"pipewire", "event", "client"}]
      /\ owner = "alive" /\ share = "open" /\ client[Main] = "polling"
      /\ status \in {"none", "open"} /\ lent \subseteq Buffers
  BY <1>1, HandForms, StreamFacts
     DEF Handle, Build, BuildFails, PushFrame, PushFrameThrows, MainInv, Holds, TypeOK
<1> DEFINE e == hand[1]
<1>3. /\ Stream!IsFrame(e) => e.format \in Stream!Offered /\ e.buffer \in Buffers
      /\ e.kind = "connected" => e.format \in Stream!Offered
      /\ Stream!IsFrame(e) <=> e.kind \in {"memory", "dmabuf"}
  BY <1>2, EventKinds
<1>4. {b \in Buffers : where[b] = "client"} = lent \cup (IF Stream!IsFrame(e) THEN {e.buffer} ELSE {})
  BY <1>1, <1>2, FramesInHand DEF MainInv
<1>5. FramesAccountedFor' <=> {b \in Buffers : where'[b] = "client"} = lent' \cup FrameBuffers(hand')
  BY DEF FramesAccountedFor, FrameBuffers
<1> HIDE DEF e
<1>6. CASE Build
  <2>1. /\ e.kind = "connected" /\ announced = e /\ built = <<>> /\ status = "none" /\ lent = {}
    BY <1>1, <1>2, <1>3, <1>6 DEF MainInv, OutputInv, LentInv, Build, e
  <2>2. where' = where
    BY <1>2, <1>6, <2>1 DEF Build
  <2>3. UNCHANGED SP!vars
    BY <1>6, <2>2 DEF Build, SP!vars
  <2>4. /\ main' = "poll" /\ hand' = <<>> /\ built' = <<e.format>> /\ status' = "open" /\ lent' = {}
        /\ UNCHANGED <<shouldStop, signalled, share, client, owner, announced, loop, eventQueue>>
    BY <1>6, <2>1 DEF Build, e
  <2>5. TypeOK' /\ LentInv'
    BY <1>1, <1>3, <2>1, <2>4 DEF MainInv, TypeOK, LentInv
  <2>6. Holds'
    BY <1>2, <2>4 DEF Holds
  <2>7. OutputInv'
    BY <2>1, <2>4 DEF OutputInv
  <2>8. FramesAccountedFor'
    BY <1>3, <1>4, <1>5, <2>1, <2>2, <2>4, FramesInHand
  <2> QED BY <2>3, <2>5, <2>6, <2>7, <2>8 DEF MainInv
<1>7. CASE BuildFails
  <2>1. UNCHANGED SP!vars
    BY <1>7 DEF BuildFails, streamVars, SP!vars
  <2>2. /\ e.kind = "connected" /\ main' = "thrown" /\ hand' = <<>> /\ announced = e
        /\ UNCHANGED <<lent, status, built, shouldStop, signalled, share, client, owner, announced,
                       loop, eventQueue, where>>
    BY <1>1, <1>2, <1>3, <1>7 DEF BuildFails, streamVars, sinkVars, MainInv, OutputInv, e
  <2>3. TypeOK' /\ LentInv'
    BY <1>1, <2>2 DEF MainInv, TypeOK, LentInv
  <2>4. Holds'
    BY <1>2, <2>2 DEF Holds
  <2>5. OutputInv'
    BY <1>1, <2>2 DEF MainInv, OutputInv
  <2>6. FramesAccountedFor'
    BY <1>3, <1>4, <1>5, <2>2, FramesInHand
  <2> QED BY <2>1, <2>3, <2>4, <2>5, <2>6 DEF MainInv
<1>8. CASE PushFrame \/ PushFrameThrows
  <2>1. /\ Stream!IsFrame(e) /\ e.buffer \in Buffers /\ e.buffer \notin lent
        /\ built = <<e.format>> /\ status = "open"
        /\ announced = Stream!ConnectedEvent(e.format)
    BY <1>1, <1>2, <1>3, <1>8 DEF PushFrame, PushFrameThrows, MainInv, OutputInv, LentInv, e
  <2>2. announced.kind = "connected" /\ announced.format = e.format
    BY <2>1 DEF Stream!ConnectedEvent
  <2>3. PICK b \in Buffers : b = e.buffer
    BY <2>1
  <2>4. /\ \/ lent' = lent \cup {b} /\ UNCHANGED streamVars
           \/ \E d \in lent \cup {b} : lent' = (lent \cup {b}) \ {d} /\ SP!ReleaseFrame(d)
        /\ hand' = <<>> /\ main' \in {"poll", "thrown"} /\ status' = status
        /\ UNCHANGED <<shouldStop, signalled, built, share>>
    <3>1. CASE PushFrame
      BY <2>3, <3>1, SameActions DEF PushFrame, Sink!Push, e
    <3>2. CASE PushFrameThrows
      <4>1. SP!ReleaseFrame(b)
        BY <2>3, <3>2, SameActions DEF PushFrameThrows, e
      <4>2. lent' = (lent \cup {b}) \ {b}
        BY <2>1, <2>3, <3>2 DEF PushFrameThrows, sinkVars
      <4> QED BY <3>2, <4>1, <4>2 DEF PushFrameThrows, sinkVars
    <3> QED BY <1>8, <3>1, <3>2
  <2>5. [SP!Next]_(SP!vars)
    <3>1. ASSUME NEW d \in lent \cup {b}, SP!ReleaseFrame(d) PROVE SP!Next
      BY <1>2, <3>1 DEF SP!Next
    <3> QED BY <2>4, <3>1 DEF streamVars, SP!vars
  <2>6. UNCHANGED <<announced, client, owner, loop, eventQueue>>
    BY <2>4 DEF streamVars, SP!ReleaseFrame, SP!queueVars, SP!clientVars
  <2>7. {x \in Buffers : where'[x] = "client"} = lent'
    <3>1. {x \in Buffers : where[x] = "client"} = lent \cup {b}
      BY <1>4, <2>1, <2>3
    <3>2. CASE lent' = lent \cup {b} /\ UNCHANGED streamVars
      BY <3>1, <3>2 DEF streamVars
    <3>3. ASSUME NEW d \in lent \cup {b}, lent' = (lent \cup {b}) \ {d}, SP!ReleaseFrame(d)
          PROVE  {x \in Buffers : where'[x] = "client"} = lent'
      BY <1>2, <3>1, <3>3 DEF SP!ReleaseFrame
    <3> QED BY <2>4, <3>2, <3>3
  <2>8. lent' \subseteq Buffers
    BY <2>7
  <2>9. TypeOK' /\ LentInv'
    BY <1>1, <2>1, <2>4, <2>8 DEF MainInv, TypeOK, LentInv
  <2>10. Holds'
    BY <1>2, <2>4, <2>6 DEF Holds
  <2>11. OutputInv'
    BY <1>1, <2>1, <2>2, <2>4, <2>6 DEF MainInv, OutputInv
  <2>12. FramesAccountedFor'
    BY <1>5, <2>4, <2>7, FramesInHand
  <2> QED BY <2>5, <2>9, <2>10, <2>11, <2>12 DEF MainInv
<1> QED BY <1>6, <1>7, <1>8 DEF Handle

\* The end of the program keeps the invariant: the destructor of the stream
\* begins when no frame is left.
LEMMA UnwindKeeps ==
  ASSUME SInv, Unwind
  PROVE  [SP!Next]_(SP!vars) /\ MainInv'
<1>1. SP!IInv /\ MainInv /\ main = "unwind" /\ hand = <<>> /\ share = "open"
  BY HandForms
     DEF SInv, MainInv, Holds, Unwind, CloseOutput, DestroyStream, Exit
<1>2. {b \in Buffers : where[b] = "client"} = lent
  BY <1>1, FramesInHand DEF MainInv
<1>3. CASE CloseOutput
  <2>1. UNCHANGED SP!vars
    BY <1>3 DEF CloseOutput, streamVars, SP!vars
  <2>2. /\ status = "open" /\ status' = "closing" /\ lent' = lent
        /\ UNCHANGED <<where, announced, client, owner, loop, eventQueue, mainVars>>
    BY <1>3 DEF CloseOutput, Sink!BeginClose, streamVars
  <2>3. TypeOK' /\ FramesAccountedFor' /\ LentInv' /\ OutputInv'
    BY <1>1, <2>2 DEF MainInv, mainVars, TypeOK, FramesAccountedFor, LentInv, OutputInv
  <2>4. Holds'
    BY <1>1, <2>2 DEF MainInv, mainVars, Holds
  <2> QED BY <2>1, <2>3, <2>4 DEF MainInv
<1>4. CASE DestroyStream
  <2>1. lent = {} /\ status \in {"none", "closed"} /\ UNCHANGED <<sinkVars, mainVars>>
    BY <1>1, <1>4 DEF DestroyStream, OutputGone, MainInv, LentInv
  <2>2. SP!DestroyBegin \/ SP!DestroyQuit \/ SP!DestroyJoin \/ SP!DestroyClear \/ SP!DestroyStream
    <3>1. CASE Stream!InvokeDeactivate
      <4>1. client[Main] \in {"threw", "stopped"}
        BY <1>1, <3>1 DEF Stream!InvokeDeactivate, MainInv, Holds
      <4>2. Stream!Unused
        BY <1>2, <2>1, <4>1 DEF Stream!Unused, Clients
      <4> QED BY <3>1, <4>2, SameActions DEF Stream!DestroyBegin
    <3> QED BY <1>4, <3>1, SameActions DEF DestroyStream
  <2>3. SP!Next
    BY <2>2 DEF SP!Next, SP!Owner
  <2>4. /\ owner' \in {"quit", "join", "clear", "disconnect", "destroyed"} /\ owner # "failed"
        /\ UNCHANGED <<announced, client, loop>>
    BY <2>2 DEF SP!DestroyBegin, SP!InvokeDeactivate, SP!DestroyQuit, SP!DestroyJoin,
                SP!DestroyClear, SP!DestroyStream, SP!clientVars
  <2>5. {b \in Buffers : where'[b] = "client"} = {}
    <3>1. \A b \in Buffers : where[b] # "client"
      BY <1>2, <2>1
    <3>2. CASE SP!DestroyClear
      BY <3>1, <3>2 DEF SP!DestroyClear
    <3>3. CASE ~SP!DestroyClear
      BY <2>2, <3>1, <3>3
         DEF SP!DestroyBegin, SP!InvokeDeactivate, SP!DestroyQuit, SP!DestroyJoin, SP!DestroyStream
    <3> QED BY <3>2, <3>3
  <2>6. FramesAccountedFor'
    BY <1>1, <2>1, <2>5, FramesInHand DEF FramesAccountedFor, FrameBuffers, sinkVars, mainVars
  <2>7. TypeOK' /\ LentInv' /\ OutputInv'
    BY <1>1, <2>1, <2>4 DEF MainInv, sinkVars, mainVars, TypeOK, LentInv, OutputInv
  <2>8. Holds'
    BY <1>1, <2>1, <2>4 DEF MainInv, sinkVars, mainVars, Holds
  <2> QED BY <2>3, <2>6, <2>7, <2>8 DEF MainInv
<1>5. CASE Exit
  <2>1. UNCHANGED SP!vars
    BY <1>5 DEF Exit, streamVars, SP!vars
  <2>2. /\ status \in {"none", "closed"} /\ loop \notin {"idle", "enqueue"}
        /\ main' = "exited" /\ share' = "dropped"
        /\ UNCHANGED <<where, announced, client, owner, loop, sinkVars, hand, shouldStop, signalled, built>>
    BY <1>1, <1>5, StreamFacts DEF Exit, OutputGone, StreamGone, streamVars
  <2>3. TypeOK' /\ FramesAccountedFor' /\ LentInv' /\ OutputInv'
    BY <1>1, <2>2 DEF MainInv, sinkVars, TypeOK, FramesAccountedFor, LentInv, OutputInv
  <2>4. Holds'
    BY <1>1, <2>2 DEF MainInv, sinkVars, Holds
  <2> QED BY <2>1, <2>3, <2>4 DEF MainInv
<1> QED BY <1>3, <1>4, <1>5 DEF Unwind

\* The output's own threads keep the invariant.
LEMMA OutputKeeps ==
  ASSUME SInv, Output
  PROVE  [SP!Next]_(SP!vars) /\ MainInv'
<1>1. SP!IInv /\ MainInv
  BY DEF SInv, MainInv
<1>2. ASSUME NEW b \in Buffers, ReleaseFrame(b) PROVE [SP!Next]_(SP!vars) /\ MainInv'
  <2>1. SP!ReleaseFrame(b) /\ b \in lent /\ lent' = lent \ {b} /\ status' = status
    BY <1>2, SameActions DEF ReleaseFrame, Sink!Release
  <2>2. SP!Next
    BY <2>1 DEF SP!Next
  <2>3. UNCHANGED <<announced, client, owner, loop, eventQueue, mainVars>>
    BY <1>2, <2>1 DEF ReleaseFrame, SP!ReleaseFrame, SP!queueVars, SP!clientVars
  <2>4. b \notin FrameBuffers(hand)
    <3>1. CASE main = "handle"
      BY <1>1, <2>1, <3>1, HandForms, FramesInHand DEF MainInv, LentInv
    <3>2. CASE main # "handle"
      BY <1>1, <3>2, HandForms, FramesInHand DEF MainInv
    <3> QED BY <3>1, <3>2
  <2>5. {x \in Buffers : where'[x] = "client"} = {x \in Buffers : where[x] = "client"} \ {b}
    BY <1>1, <2>1, StreamFacts DEF SP!ReleaseFrame
  <2>6. {x \in Buffers : where'[x] = "client"} = lent' \cup FrameBuffers(hand)
    BY <1>1, <2>1, <2>4, <2>5, FramesInHand DEF MainInv
  <2>7. FramesAccountedFor'
    BY <2>3, <2>6 DEF FramesAccountedFor, FrameBuffers, mainVars
  <2>8. TypeOK' /\ LentInv' /\ OutputInv'
    BY <1>1, <2>1, <2>3 DEF MainInv, mainVars, TypeOK, LentInv, OutputInv
  <2>9. Holds'
    BY <1>1, <2>1, <2>3 DEF MainInv, mainVars, Holds
  <2> QED BY <2>2, <2>7, <2>8, <2>9 DEF MainInv
<1>3. CASE OutputClosed
  <2>1. UNCHANGED SP!vars
    BY <1>3 DEF OutputClosed, streamVars, SP!vars
  <2>2. /\ status = "closing" /\ status' = "closed" /\ lent = {} /\ lent' = {}
        /\ UNCHANGED <<where, announced, client, owner, loop, eventQueue, mainVars>>
    BY <1>3 DEF OutputClosed, Sink!Close, streamVars
  <2>3. TypeOK' /\ FramesAccountedFor' /\ LentInv' /\ OutputInv'
    BY <1>1, <2>2 DEF MainInv, mainVars, TypeOK, FramesAccountedFor, LentInv, OutputInv
  <2>4. Holds'
    BY <1>1, <2>2 DEF MainInv, mainVars, Holds
  <2> QED BY <2>1, <2>3, <2>4 DEF MainInv
<1> QED BY <1>2, <1>3 DEF Output

\* Every step of the program is a step of the stream, or leaves it alone, and
\* keeps what is known of main().
LEMMA StepKeeps == SInv /\ [Next]_vars => [SP!Next]_(SP!vars) /\ MainInv'
<1> SUFFICES ASSUME SInv, [Next]_vars PROVE [SP!Next]_(SP!vars) /\ MainInv'
  OBVIOUS
<1>1. CASE Finished \/ UNCHANGED vars
  <2>1. UNCHANGED <<streamVars, sinkVars, mainVars>>
    BY <1>1 DEF Finished, vars
  <2>2. UNCHANGED SP!vars
    BY <2>1 DEF streamVars, SP!vars
  <2>3. MainInv'
    BY <2>1 DEF SInv, MainInv, TypeOK, FramesAccountedFor, Holds, LentInv, OutputInv,
                streamVars, sinkVars, mainVars
  <2> QED BY <2>2, <2>3
<1> QED BY <1>1, PipeWireKeeps, StartKeeps, PollKeeps, NextEventKeeps, HandleKeeps, UnwindKeeps,
           OutputKeeps DEF Next, Loop

\* The invariant holds initially.
LEMMA InvInit == Init => SInv
<1> SUFFICES ASSUME Init PROVE SInv
  OBVIOUS
<1>1. SP!IInv
  BY SP!InvInit, SameStream, CaptureAssumption DEF Init
<1>2. /\ owner = "eventfd" /\ announced = [kind |-> "none"]
      /\ client[Main] = "polling" /\ \A b \in Buffers : where[b] = "pipewire"
  BY SP!ConstructorSteps, SameStream, CaptureAssumption DEF Init, SP!Init, Clients
<1>3. TypeOK /\ LentInv /\ OutputInv
  <2>1. <<>> \in Seq(Stream!Events) /\ <<>> \in Seq(Stream!Offered) /\ Len(<<>>) = 0
    BY EmptySeq
  <2>2. announced.kind = "none"
    BY <1>2
  <2>3. TypeOK
    <3>1. /\ lent = {} /\ status = "none" /\ main = "request" /\ share = "none"
          /\ hand = <<>> /\ built = <<>>
          /\ shouldStop \in BOOLEAN /\ signalled \in BOOLEAN
      BY DEF Init
    <3> QED BY <2>1, <3>1 DEF TypeOK
  <2>4. LentInv
    BY DEF Init, LentInv
  <2>5. OutputInv
    BY <2>1, <2>2 DEF Init, OutputInv
  <2> QED BY <2>3, <2>4, <2>5
<1>4. FramesAccountedFor
  BY <1>2, FramesInHand DEF Init
<1>5. Holds
  BY <1>2 DEF Init, Holds
<1> QED BY <1>1, <1>3, <1>4, <1>5 DEF SInv

\* Every step of the program keeps it.
LEMMA InvNext == SInv /\ [Next]_vars => SInv'
<1> SUFFICES ASSUME SInv, [Next]_vars PROVE SInv'
  OBVIOUS
<1>1. [SP!Next]_(SP!vars) /\ MainInv'
  BY StepKeeps
<1>2. SP!IInv'
  BY <1>1, SP!InvNext, CaptureAssumption DEF SInv
<1> QED BY <1>1, <1>2 DEF SInv, MainInv

-----------------------------------------------------------------------------
(* Theorems.                                                               *)

\* The inductive invariant on which the theorems rest holds in every state.
THEOREM InvariantHolds == Spec => []SInv
BY InvInit, InvNext, PTL DEF Spec

\* No way through main(), or out of it, loses or doubles a frame.
THEOREM FramesAreKept == Spec => []FramesInv
<1>1. SInv => FramesInv
  BY DEF SInv, FramesInv
<1> QED BY <1>1, InvariantHolds, PTL

\* Each frame meets an output that was built for its format, and takes frames
\* of its kind, except for memory frames of a format with a modifier.
THEOREM OnlyMemoryDoesNotFit == Spec => []OnlyMemoryMisfits
<1>1. SInv => OnlyMemoryMisfits
  <2> SUFFICES ASSUME SInv, main = "handle", Stream!IsFrame(hand[1])
               PROVE  /\ status = "open" /\ built[Len(built)] = hand[1].format
                      /\ \/ hand[1].kind = InputKind(hand[1].format)
                         \/ MemoryForModifier(hand[1])
    BY DEF OnlyMemoryMisfits
  <2>1. built = <<hand[1].format>> /\ (hand[1].kind = "dmabuf" => hand[1].format.modifier)
    BY DEF SInv, OutputInv, Stream!IsFrame
  <2>2. status = "open"
    BY <2>1 DEF SInv, Holds, OutputInv
  <2>3. hand[1].kind = InputKind(hand[1].format) \/ MemoryForModifier(hand[1])
    BY <2>1 DEF InputKind, MemoryForModifier, Stream!IsFrame
  <2> QED BY <2>1, <2>2, <2>3
<1> QED BY <1>1, InvariantHolds, PTL

\* At most one output is built.
THEOREM OneOutputOnly == Spec => []OneOutput
<1>1. SInv => OneOutput
  BY DEF SInv, OutputInv, OneOutput
<1> QED BY <1>1, InvariantHolds, PTL

\* The shared screen outlives its users.
THEOREM ShareOutlives == Spec => []SharedWhileUsed
<1>1. SInv => SharedWhileUsed
  <2> SUFFICES ASSUME SInv, loop \in {"idle", "enqueue"} \/ lent # {} PROVE share = "open"
    BY DEF SharedWhileUsed
  <2>1. main \notin {"request", "exited"}
    BY StreamFacts DEF SInv, Holds, LentInv
  <2> QED BY <2>1 DEF SInv, Holds, TypeOK
<1> QED BY <1>1, InvariantHolds, PTL

\* The program uses the stream as its users may, in particular it destroys the
\* stream when nothing polls it and no frame is left.
THEOREM ImplementsStream == Spec => StreamSpec
<1>1. Init => Stream!Init
  BY DEF Init
<1>2. SInv /\ [Next]_vars => [Stream!Next]_(Stream!vars)
  <2> SUFFICES ASSUME SInv, [Next]_vars PROVE [Stream!Next]_(Stream!vars)
    OBVIOUS
  <2>1. [SP!Next]_(SP!vars)
    BY StepKeeps
  <2> QED BY <2>1, SameStream DEF Stream!vars, SP!vars
<1> QED BY <1>1, <1>2, InvariantHolds, PTL DEF Spec, StreamSpec, Stream!Spec
=============================================================================
