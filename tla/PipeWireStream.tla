--------------------------- MODULE PipeWireStream ---------------------------
(***************************************************************************)
(* The receiver of a shared screen (PipeWireModule/PipeWireStream.cpp),    *)
(* from the beginning of its constructor to the end of its destructor.     *)
(*                                                                         *)
(* Three parties share it.  The loop thread runs PipeWire's callbacks, one *)
(* at a time; a callback that has something to report appends an event to  *)
(* eventQueue under eventQueueMutex and makes an eventfd readable.  The    *)
(* clients poll the eventfd, call nextEvent() and release the frames they  *)
(* are given, from any thread.  The owner runs constructor and destructor. *)
(*                                                                         *)
(* PipeWire itself is outside src/: when it changes the state of the       *)
(* stream, negotiates a format or has a buffer is left open.               *)
(***************************************************************************)
EXTENDS Integers, Sequences

CONSTANTS
  Buffers,        \* the buffers of the stream, 16 of them are asked for
  Clients,        \* the threads that call nextEvent()
  PixelFormats,   \* pixel formats offered to PipeWire
  Convertible,    \* those that spa2pixelFormat() and spa2drmFormat() know
  SupportDmaBuf,  \* argument of the constructor
  MaxQueued       \* bound: no state change while so many events are queued

ASSUME StreamAssumption ==
  /\ Convertible \subseteq PixelFormats
  /\ "none" \notin PixelFormats
  /\ SupportDmaBuf \in BOOLEAN
  /\ MaxQueued \in Nat

VARIABLES
  pw,          \* state of the pw_stream
  active,      \* FALSE once pw_stream_set_active(stream, false) was called
  invoked,     \* functions the loop thread was asked to run, oldest first
  state,       \* streamData.state
  format,      \* streamData.format and haveDmaBuf: what was negotiated
  where,       \* who has each buffer of the stream
  loop,        \* where the loop thread is
  pending,     \* the event that its callback is about to enqueue, if any
  eventQueue,
  readable,    \* the eventfd's counter is not zero
  client,      \* where each client is
  announced,   \* history: the last Connected or Disconnected that nextEvent() returned
  owner,       \* the step that the owner's constructor or destructor is at
  terminated   \* std::terminate() was called

vars == <<pw, active, invoked, state, format, where, loop, pending, eventQueue, readable,
          client, announced, owner, terminated>>

-----------------------------------------------------------------------------
(* Formats and events.                                                     *)

\* A negotiated format has a modifier if it was chosen from the first of the
\* two offers that the constructor makes, which is there for DMA-BUFs only.
Offered ==
  [pixel : PixelFormats, modifier : IF SupportDmaBuf THEN BOOLEAN ELSE {FALSE}]

\* The zeroed format of a stream that has not negotiated yet.
NoFormat == [pixel |-> "none", modifier |-> FALSE]

\* Mutant: DMA-BUFs are allowed whether or not there is a modifier.
BufferTypesAlways(f) == {"memory", "dmabuf"}

\* The kinds of memory that streamParamChanged() allows for the buffers.
BufferTypes(f) == {"memory"} \cup IF f.modifier THEN {"dmabuf"} ELSE {}

ConnectedEvent(f) == [kind |-> "connected", format |-> f]
DisconnectedEvent == [kind |-> "disconnected"]
FrameEvent(kind, f, b) == [kind |-> kind, format |-> f, buffer |-> b]

IsFrame(e) == e.kind \in {"memory", "dmabuf"}

\* Mutant: a stream that is paused does not count as disconnected.
ReactionOnlyToErrors(old, new, f) ==
  IF old = "paused" /\ new = "streaming" THEN <<ConnectedEvent(f)>>
  ELSE IF new = "error" THEN <<DisconnectedEvent>>
  ELSE <<>>

\* Mutant: the client is told of the format as soon as the stream is paused.
ReactionTooEarly(old, new, f) ==
  IF old = "connecting" /\ new = "paused" THEN <<ConnectedEvent(f)>>
  ELSE IF old = "streaming" \/ new = "error" THEN <<DisconnectedEvent>>
  ELSE <<>>

\* The event that streamStateChanged() makes of a change of state, if any.
Reaction(old, new, f) ==
  IF old = "paused" /\ new = "streaming" THEN <<ConnectedEvent(f)>>
  ELSE IF old = "streaming" \/ new = "error" THEN <<DisconnectedEvent>>
  ELSE <<>>

\* How PipeWire may change the state of the stream.
Transitions ==
  {<<"connecting", "paused">>, <<"paused", "streaming">>, <<"streaming", "paused">>}
    \cup ({"connecting", "paused", "streaming"} \X {"error", "unconnected"})

-----------------------------------------------------------------------------

\* The steps of the constructor, each of which may fail, in their order.
Constructor == <<"eventfd", "core", "stream", "connect", "thread">>

Init ==
  /\ pw = "unconnected"
  /\ active = TRUE
  /\ invoked = <<>>
  /\ state = "unconnected"
  /\ format = NoFormat
  /\ where = [b \in Buffers |-> "pipewire"]
  /\ loop = "none"
  /\ pending = <<>>
  /\ eventQueue = <<>>
  /\ readable = FALSE
  /\ client = [c \in Clients |-> "polling"]
  /\ announced = [kind |-> "none"]
  /\ owner = Constructor[1]
  /\ terminated = FALSE

clientVars == <<client, announced>>
queueVars == <<eventQueue, readable>>

-----------------------------------------------------------------------------
(* PipeWireStream(), the constructor.                                      *)

\* The step of the constructor that starts the loop thread.
StartsLoop(step) == step = "thread"

\* A step of the constructor.  pw_stream_connect() calls streamStateChanged().
Construct ==
  /\ \E i \in DOMAIN Constructor :
       /\ owner = Constructor[i]
       /\ owner' = IF i = Len(Constructor) THEN "alive" ELSE Constructor[i + 1]
  /\ loop' = IF StartsLoop(owner) THEN "idle" ELSE loop
  /\ pw' = IF owner = "connect" THEN "connecting" ELSE pw
  /\ state' = pw'
  /\ UNCHANGED <<active, invoked, format, where, pending, queueVars, clientVars,
                 terminated>>

\* A step that fails throws.  The object is gone, but what the constructor made
\* so far is not released, and refers to the object.
ConstructFails ==
  /\ \E i \in DOMAIN Constructor : owner = Constructor[i]
  /\ owner' = "failed"
  /\ UNCHANGED <<pw, active, invoked, state, format, where, loop, pending, queueVars,
                 clientVars, terminated>>

-----------------------------------------------------------------------------
(* Callbacks, on the loop thread.                                          *)

\* streamParamChanged() with a new format.  PipeWire negotiates before it
\* starts the stream.
StreamParamChanged(f) ==
  /\ ~terminated
  /\ loop = "idle"
  /\ pw \in {"connecting", "paused"}
  /\ format' = f
  /\ UNCHANGED <<pw, active, invoked, state, where, loop, pending, queueVars, clientVars,
                 owner, terminated>>

\* Mutant: an event is enqueued even if there is none.
ReportAlways(es) ==
  /\ pending' = es
  /\ loop' = "enqueue"

\* The callback goes on to enqueue the events in the sequence es, if any.
Report(es) ==
  /\ pending' = es
  /\ loop' = IF es = <<>> THEN "idle" ELSE "enqueue"

\* streamStateChanged(), up to the call of enqueueEvent().  A format that
\* cannot be converted is an exception in a noexcept function.
StreamStateChanged(new) ==
  /\ ~terminated
  /\ loop = "idle"
  /\ <<pw, new>> \in Transitions
  /\ new = "streaming" => active /\ format # NoFormat
  /\ Len(eventQueue) < MaxQueued
  /\ pw' = new
  /\ state' = new
  /\ IF new = "streaming" /\ format.pixel \notin Convertible
     THEN terminated' = TRUE /\ UNCHANGED <<loop, pending>>
     ELSE Report(Reaction(pw, new, format)) /\ UNCHANGED terminated
  /\ UNCHANGED <<active, invoked, format, where, queueVars, clientVars, owner>>

\* coreError(): the stream is deactivated.  PipeWire will pause it.
CoreError ==
  /\ ~terminated
  /\ loop = "idle"
  /\ active' = FALSE
  /\ UNCHANGED <<pw, invoked, state, format, where, loop, pending, queueVars, clientVars,
                 owner, terminated>>

\* processFrame(), up to the call of enqueueEvent(), when the stream is
\* streaming and has a buffer b; else it returns at once.
ProcessFrame(b) ==
  /\ ~terminated
  /\ loop = "idle"
  /\ pw = "streaming"
  /\ where[b] = "pipewire"
  /\ where' = [where EXCEPT ![b] = "event"]
  /\ \E kind \in BufferTypes(format) : Report(<<FrameEvent(kind, format, b)>>)
  /\ UNCHANGED <<pw, active, invoked, state, format, queueVars, clientVars, owner,
                 terminated>>

\* Mutant: a queue that is long drops the event, and the frame in it leaks.
EnqueueEventBounded ==
  /\ ~terminated
  /\ loop = "enqueue"
  /\ eventQueue' = IF Len(eventQueue) >= 2 THEN eventQueue ELSE eventQueue \o pending
  /\ readable' = TRUE
  /\ Report(<<>>)
  /\ UNCHANGED <<pw, active, invoked, state, format, where, clientVars, owner, terminated>>

\* enqueueEvent(), at the end of a callback.
EnqueueEvent ==
  /\ ~terminated
  /\ loop = "enqueue"
  /\ eventQueue' = eventQueue \o pending
  /\ readable' = TRUE
  /\ Report(<<>>)
  /\ UNCHANGED <<pw, active, invoked, state, format, where, clientVars, owner, terminated>>

\* The loop runs what ~PipeWireStream() sent to it.
RunInvoked ==
  /\ ~terminated
  /\ loop = "idle"
  /\ invoked # <<>>
  /\ invoked' = Tail(invoked)
  /\ active' = (active /\ Head(invoked) # "deactivate")
  /\ loop' = IF Head(invoked) = "quit" THEN "ended" ELSE "idle"
  /\ UNCHANGED <<pw, state, format, where, pending, queueVars, clientVars, owner,
                 terminated>>

-----------------------------------------------------------------------------
(* Clients.                                                                *)

\* poll() returns because the eventfd is readable.
Poll(c) ==
  /\ ~terminated
  /\ client[c] = "polling"
  /\ readable
  /\ client' = [client EXCEPT ![c] = "check"]
  /\ UNCHANGED <<pw, active, invoked, state, format, where, loop, pending, queueVars,
                 announced, owner, terminated>>

\* nextEvent() reads streamData.state, without a lock, and may throw.
NextEventCheck(c) ==
  /\ ~terminated
  /\ client[c] = "check"
  /\ client' = [client EXCEPT ![c] = IF state \in {"unconnected", "error"} THEN "threw" ELSE "pop"]
  /\ UNCHANGED <<pw, active, invoked, state, format, where, loop, pending, queueVars,
                 announced, owner, terminated>>

\* Mutant: the eventfd is cleared although events are left.
StaysReadableNever(q) == FALSE

\* The eventfd is cleared by nextEvent() when it takes the last event.
StaysReadable(q) == q # <<>>

\* nextEvent() takes the oldest event, if there is one, under the lock.
NextEventPop(c) ==
  /\ ~terminated
  /\ client[c] = "pop"
  /\ client' = [client EXCEPT ![c] = "polling"]
  /\ IF eventQueue = <<>>
     THEN UNCHANGED <<queueVars, where, announced>>
     ELSE LET e == Head(eventQueue) IN
            /\ eventQueue' = Tail(eventQueue)
            /\ readable' = StaysReadable(Tail(eventQueue))
            /\ IF IsFrame(e)
               THEN where' = [where EXCEPT ![e.buffer] = "client"] /\ UNCHANGED announced
               ELSE announced' = e /\ UNCHANGED where
  /\ UNCHANGED <<pw, active, invoked, state, format, loop, pending, owner, terminated>>

\* A frame that a client got is destroyed, on whatever thread it has reached
\* by then: onFrameDone() gives the buffer back.
ReleaseFrame(b) ==
  /\ ~terminated
  /\ where[b] = "client"
  /\ where' = [where EXCEPT ![b] = "pipewire"]
  /\ UNCHANGED <<pw, active, invoked, state, format, loop, pending, queueVars, clientVars,
                 owner, terminated>>

\* A client has enough of the stream.
StopPolling(c) ==
  /\ ~terminated
  /\ owner = "alive"
  /\ client[c] = "polling"
  /\ client' = [client EXCEPT ![c] = "stopped"]
  /\ UNCHANGED <<pw, active, invoked, state, format, where, loop, pending, queueVars,
                 announced, owner, terminated>>

-----------------------------------------------------------------------------
(* ~PipeWireStream().                                                      *)

\* Nobody uses a stream while it is destroyed, nor frames of it.
Unused ==
  /\ \A c \in Clients : client[c] \in {"threw", "stopped"}
  /\ \A b \in Buffers : where[b] # "client"

\* pw_loop_invoke(): the loop will deactivate the stream.
InvokeDeactivate ==
  /\ ~terminated
  /\ owner = "alive"
  /\ owner' = "quit"
  /\ invoked' = Append(invoked, "deactivate")
  /\ UNCHANGED <<pw, active, state, format, where, loop, pending, queueVars, clientVars,
                 terminated>>

DestroyBegin == Unused /\ InvokeDeactivate

\* Mutant: the loop is not told to quit.
DestroyQuitNot ==
  /\ ~terminated
  /\ owner = "quit"
  /\ owner' = "join"
  /\ UNCHANGED <<pw, active, invoked, state, format, where, loop, pending, queueVars,
                 clientVars, terminated>>

\* pw_main_loop_quit()
DestroyQuit ==
  /\ ~terminated
  /\ owner = "quit"
  /\ owner' = "join"
  /\ invoked' = Append(invoked, "quit")
  /\ UNCHANGED <<pw, active, state, format, where, loop, pending, queueVars, clientVars,
                 terminated>>

\* Mutant: the destructor does not wait for the loop thread.
DestroyJoinNot ==
  /\ ~terminated
  /\ owner = "join"
  /\ owner' = "clear"
  /\ UNCHANGED <<pw, active, invoked, state, format, where, loop, pending, queueVars,
                 clientVars, terminated>>

\* mainLoopThread.join()
DestroyJoin ==
  /\ ~terminated
  /\ owner = "join"
  /\ loop = "ended"
  /\ owner' = "clear"
  /\ UNCHANGED <<pw, active, invoked, state, format, where, loop, pending, queueVars,
                 clientVars, terminated>>

\* The events left in the queue are destroyed, the frames in them as well.
DestroyClear ==
  /\ ~terminated
  /\ owner = "clear"
  /\ owner' = "disconnect"
  /\ eventQueue' = <<>>
  /\ where' = [b \in Buffers |->
                 IF \E i \in DOMAIN eventQueue :
                      IsFrame(eventQueue[i]) /\ eventQueue[i].buffer = b
                 THEN "pipewire" ELSE where[b]]
  /\ UNCHANGED <<pw, active, invoked, state, format, loop, pending, readable, clientVars,
                 terminated>>

\* pw_stream_disconnect() changes the state, and so calls streamStateChanged()
\* on this thread; then the stream and everything else is destroyed.
DestroyStream ==
  /\ ~terminated
  /\ owner = "disconnect"
  /\ owner' = "destroyed"
  /\ pw' = "unconnected"
  /\ IF pw = "unconnected"
     THEN UNCHANGED <<state, queueVars>>
     ELSE /\ state' = "unconnected"
          /\ eventQueue' = eventQueue \o Reaction(pw, "unconnected", format)
          /\ readable' = (readable \/ Reaction(pw, "unconnected", format) # <<>>)
  /\ UNCHANGED <<active, invoked, format, where, loop, pending, clientVars, terminated>>

\* Nothing happens any more.
Finished == (owner \in {"failed", "destroyed"} \/ terminated) /\ UNCHANGED vars

LoopThread ==
  \/ \E f \in Offered : StreamParamChanged(f)
  \/ \E new \in {"paused", "streaming", "error", "unconnected"} : StreamStateChanged(new)
  \/ CoreError
  \/ \E b \in Buffers : ProcessFrame(b)
  \/ EnqueueEvent
  \/ RunInvoked

Client(c) == Poll(c) \/ NextEventCheck(c) \/ NextEventPop(c) \/ StopPolling(c)

Owner ==
  Construct \/ ConstructFails
    \/ DestroyBegin \/ DestroyQuit \/ DestroyJoin \/ DestroyClear \/ DestroyStream

Next ==
  \/ LoopThread
  \/ \E c \in Clients : Client(c)
  \/ \E b \in Buffers : ReleaseFrame(b)
  \/ Owner
  \/ Finished

Spec == Init /\ [][Next]_vars

\* The loop thread finishes a callback it is in, and however many callbacks it
\* runs, it also runs what it was asked to run (an iteration of the loop serves
\* everything that is ready).  A client that polls goes on with every event,
\* and a destructor that runs goes on.  Nobody must release a frame, stop
\* polling or destroy the stream, and PipeWire need not do anything.
Fairness ==
  /\ WF_vars(EnqueueEvent)
  /\ SF_vars(RunInvoked)
  /\ \A c \in Clients : WF_vars(Poll(c) \/ NextEventCheck(c) \/ NextEventPop(c))
  /\ WF_vars(DestroyQuit \/ DestroyJoin \/ DestroyClear \/ DestroyStream)

FairSpec == Spec /\ Fairness

-----------------------------------------------------------------------------
(* Properties                                                              *)

Events ==
  {DisconnectedEvent}
    \cup {ConnectedEvent(f) : f \in Offered}
    \cup {FrameEvent(kind, f, b) : kind \in {"memory", "dmabuf"}, f \in Offered, b \in Buffers}

\* Types of the variables.
TypeOK ==
  /\ pw \in {"connecting", "paused", "streaming", "error", "unconnected"}
  /\ state = pw
  /\ active \in BOOLEAN
  /\ invoked \in Seq({"deactivate", "quit"})
  /\ format \in Offered \cup {NoFormat}
  /\ where \in [Buffers -> {"pipewire", "event", "client"}]
  /\ loop \in {"none", "idle", "enqueue", "ended"}
  /\ pending \in Seq(Events) /\ Len(pending) = IF loop = "enqueue" THEN 1 ELSE 0
  /\ eventQueue \in Seq(Events)
  /\ readable \in BOOLEAN
  /\ client \in [Clients -> {"polling", "check", "pop", "threw", "stopped"}]
  /\ announced \in {[kind |-> "none"], DisconnectedEvent} \cup {ConnectedEvent(f) : f \in Offered}
  /\ owner \in {Constructor[i] : i \in DOMAIN Constructor}
       \cup {"alive", "failed", "quit", "join", "clear", "disconnect", "destroyed"}
  /\ terminated \in BOOLEAN

\* As long as the stream is in use, the eventfd is readable just when an event
\* is queued.  So poll() does not sleep on a queued event, and the read() that
\* nextEvent() makes while it holds the lock never blocks.
ReadableIffQueued ==
  owner \in {"alive", "quit", "join", "clear"} => (readable <=> eventQueue # <<>>)

\* All events that clients have not seen yet, oldest first.
Unseen == eventQueue \o pending

\* When a client that knows of news gets the i-th event of q, the last news that
\* it got is in S.
ToldLast(q, news, i, S) ==
  \/ news \in S /\ \A j \in 1 .. i - 1 : IsFrame(q[j])
  \/ \E j \in 1 .. i - 1 : q[j] \in S /\ \A k \in j + 1 .. i - 1 : IsFrame(q[k])

\* A client that gets a frame is connected at that moment, and knows the
\* format of the frame: main() has made its FFmpegOutput, for this format.  A
\* DMA-BUF comes only if that was announced, and so never if the constructor
\* was told that they are not supported.
FramesAreAnnounced ==
  \A i \in DOMAIN Unseen :
    IsFrame(Unseen[i]) =>
      /\ ToldLast(Unseen, announced, i, {ConnectedEvent(Unseen[i].format)})
      /\ Unseen[i].kind = "dmabuf" => Unseen[i].format.modifier /\ SupportDmaBuf

\* A buffer that was taken from PipeWire and not handed to a client is in
\* exactly one event, and no other buffer is in one: none is lost, and none
\* is given back twice.
BuffersAccountedFor ==
  \A b \in Buffers :
    LET holders == {i \in DOMAIN Unseen : IsFrame(Unseen[i]) /\ Unseen[i].buffer = b} IN
      IF where[b] = "event" THEN \E i \in holders : holders = {i} ELSE holders = {}

\* When the stream is gone nothing can refer to it: its thread does not run, or
\* never did if the constructor failed, although it registered its callbacks
\* before; and every buffer has been given back.
UnusedWhenGone ==
  owner \in {"failed", "destroyed"} =>
    loop \in {"none", "ended"} /\ \A b \in Buffers : where[b] = "pipewire"

\* Seen from its clients the stream is an EventStream: they are told of each
\* connection and of its end in turn, and get frames only in between.
Promise ==
  INSTANCE EventStream WITH
    Formats <- Offered,
    told <- IF announced.kind = "connected" THEN announced.format ELSE NoFormat,
    held <- {b \in Buffers : where[b] = "client"},
    open <- owner = "alive" \/ \E i \in DOMAIN Constructor : owner = Constructor[i]

PromiseSpec == Promise!Spec

SomeClientPolls == \E c \in Clients : client[c] \in {"polling", "check", "pop"}

\* Clients that keep polling learn that a connected stream stopped: nextEvent()
\* returns Disconnected, or it throws.
DisconnectIsSeen ==
  announced.kind = "connected" /\ pw # "streaming"
    ~> announced.kind = "disconnected" \/ ~SomeClientPolls \/ terminated

\* The destructor ends: it is never stuck in join(), whatever the callbacks do.
DestructorEnds == owner = "quit" ~> owner = "destroyed"

\* PipeWireStream.hpp says of nextEvent(): "@throw std::exception In case you
\* called this method again after it returned a disconnected event".
ThrowsOnlyAfterDisconnected ==
  [][\A c \in Clients :
       client'[c] = "threw" /\ client[c] # "threw" => announced.kind = "disconnected"]_vars

\* PipeWireStream.hpp says of the stream: "negotiates a suitable frame format
\* and starts receiving frames".  No format that it offers ends the program.
SuitableFormat == ~terminated
=============================================================================
