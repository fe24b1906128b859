# Verification of libscreencapture-wayland

These are TLA+ models of libscreencapture-wayland, with the TLC runs that
check them on small instances and the proofs that TLAPS checks for all
instances. `PROJECT.json` relates every definition to the lines it models.

Run a check with `tlc -config MCX.cfg MCX.tla` (`Portal.tla` is its own model
module), and a proof with `tlapm XProofs.tla`.

## 1. The system

A program that records a shared screen does three things, each with a module of
the library: it asks xdg-desktop-portal for the screen, receives frames from
PipeWire, and encodes and writes them with FFmpeg (or GStreamer).

```
 D-Bus thread       loop thread            caller of nextEvent()/pushFrame()
      |                  |                              |
  Response        state, format, frames                 |
      v                  v                              v
 [ Portal ]--fd-->[ PipeWireStream ]--events-->[ main ]--frames-->[ FFmpegOutput ]
                     ^   eventQueue, eventfd                        scaler thread
                     |                                              encoder thread
                     +------------- onFrameDone() <-----------------+  muxer
```

| Component | State | Operations | Talks to |
|---|---|---|---|
| `BlockingRingbuffer` | vector, index of the oldest live slot, `eof`, mutex, condition variable | `enqueue`, `dequeue`, `signalEOF` | used by two or more threads at once |
| `ThreadedWrapper` | a ring buffer, a thread, `threadException` | thread loop, `processFrame`, destructor | calls the wrapped processor and its callback |
| `VAAPIScaler`, `VAAPIEncoder` | a filter graph, a codec; frames inside them | `scaleFrame`, `encodeFrame` | the callback of the next stage |
| `Muxer` | the open output | `writePacket`, destructor | FFmpeg |
| `FFmpegOutput` (+ `Builder`) | the three stages, `lastPts` | `pushFrame`, destructor, `build` | scaler, encoder, muxer |
| `PipeWireStream` | `streamData`, event queue, eventfd, loop thread | callbacks, `nextEvent`, `getEventPollFd`, constructor, destructor | PipeWire, clients |
| C interface | ownership of frames | `PipeWireStream_*`, `free*Frame`, `requestPipeWireShareFromPortal`, `dropSharedScreen` | `PipeWireStream`, portal |
| Portal | request in progress, promise, signal handler, D-Bus connection | `requestPipeWireShare`, `dropSharedScreen` | portal, D-Bus |
| `GstOutput` | a GStreamer pipeline | `pushFrame`, destructor, `build` | GStreamer |
| `main` | the stream, the output, a signalfd | poll loop | all of the above |

What is hard here:

* Concurrency. Four or more threads: PipeWire's loop, the caller, the scaler's,
  the encoder's, and the D-Bus connection's. They share queues, an eventfd and
  unsynchronised fields (`streamData.state`, `threadException`).
* Ownership. A frame is a buffer of PipeWire. It is given back by destroying
  the frame, which may happen in an event queue, a client, two queues, a filter
  graph, an exception or a destructor, on any thread, and must happen once and
  before the stream is destroyed.
* Loss on purpose. A full ring buffer discards frames, so order, timestamps and
  buffers must survive discarding.
* Failure. Any FFmpeg call may throw on a thread of its own; a stage dies and
  the rest goes on. Any step of a constructor or of `build()` may throw, with
  threads already running.
* Ordering. Events against the state they report; destruction of stages that
  call each other through raw pointers; a D-Bus signal against the subscription
  to it, and against the promise that it keeps.

What makes each component correct is the list of properties in section 3. The
hazards, each at its line and with its properties, are in `PROJECT.json`.

## 2. Modules

```
 DroppingQueue <-- BlockingRingbuffer      (queue of a stage)
                         :
 FrameSink <------ FFmpegOutput <== OutputBuilder
    |  ^---------- GstOutput
    v
 ScreenCapture ==> PipeWireStream --> EventStream <-- CInterface
    :
 Portal

 A --> B  A implements B: B's specification is a property of A
 A ==> B  A is composed of B's steps
 A ... B  A takes for granted what is checked of B
```

### DroppingQueue and BlockingRingbuffer

`DroppingQueue` is the promise of the class: a FIFO queue that discards its
oldest frame for a new one and hands out nothing once closed.
`BlockingRingbuffer` is the code. `ring` is `ringBuffer` with `tailIndex`; `eof`
is `eof`; `pc` tells where each thread is. One step is one critical section,
since every access is made under the mutex; `notify_all()` comes after the
unlock and is a step of its own, and so is a spurious wakeup. Waiting is part
of `DequeueWait`, as a condition variable releases the mutex and waits in one
step. `pushed` and `taken` are history: frames are numbered.

`size()` is public and reads without the mutex, but nobody in the repository
calls it from outside.

### EventStream and PipeWireStream

`EventStream` is what a client may rely on: it is told a format before the first
frame and again after each Disconnected, gets frames only in between, each in
a buffer that nobody else has, and all frames are back when the stream closes.
`PipeWireStream` is the code, with two or more clients.

The constructor is `Construct`, one step for each thing that it makes, and
`ConstructFails`. The loop thread is `StreamParamChanged`, `StreamStateChanged`,
`CoreError`, `ProcessFrame`, `EnqueueEvent` and `RunInvoked`; the clients are
`Poll`, `NextEventCheck`, `NextEventPop`, `StopPolling` and `ReleaseFrame`; the
destructor is `DestroyBegin` ... `DestroyStream`. A callback is split where it
takes the lock: what it does before is one step, `EnqueueEvent` the other. So
is `nextEvent()`: the look at `streamData.state` is not locked, and is a step
before the one that takes the event. `where[b]` is the owner of buffer `b`.

PipeWire is left open within its interface: `Transitions` lists the changes of
state it may make, negotiation comes before streaming, and the kinds of buffers
are those that `streamParamChanged()` allows. A call of the destructor is only
made when nobody uses the stream or a frame any more, as the documentation asks.

A format is a pair of a pixel format and whether it has a modifier; sizes,
timestamps, planes and the cursor tell nothing apart and are left out.

A client that keeps frames is `ReleaseFrame`, on whatever thread.

### FrameSink and FFmpegOutput

`FrameSink` is what a program needs to know of an output: which buffers of the
stream it has, and that its destructor gives them all back. `FFmpegOutput` is
the code once it is built.

The two `ThreadedWrapper`s are functions of the stage: `queue`, `eof`, `thread`,
`cur` (the frame in hand), `inner` (frames in the filter graph or codec) and
`exc`. The actions of `StageThread` are those of `processFramesLoop()` with
`scaleFrame()` or `encodeFrame()` unrolled into it; each external call either
works or throws. `queue` behaves as `DroppingQueue` does, which
`ImplementsQueue` proves of the class. `closing` counts the members that the
destructor turned to, in the reverse order of their declaration. `lent` is the
set of buffers of the stream whose frames exist. `Wrapped` is
`wrapInAVFrame()`, as far as timestamps and ownership go. A frame that leaves the
filter graph is a GPU surface, and its buffer is free.

The check of `threadException` and the enqueueing after it are one step: the
thread writes the exception at its end and touches the queue no more, so the
steps commute. Setting the exception (`Catch`) is separate from throwing it, so
a caller may look just before. Reading the pointer while it is written is a
data race; on the platforms the library is for it is one word and is read old or
new, and these are the outcomes in the model.

`TimeBase` is a rational number of seconds, as an `AVRational` is. A packet has
microseconds, the time base of the codec, and `Rescaled` is the nearest unit of
the output's time base. The instances have that of MPEG-TS (1/90000 s, strict) and
that of Matroska (1/1000 s, not strict).

An encoder is taken to hand out packets in the order of its frames: a timestamp
is a decoding timestamp, which is what a muxer wants in order.

### OutputBuilder

The life of an output from `build()` to the end of its destructor. `Steps` is
the sequence of things that `build()` and the constructors of encoder, muxer and
scaler make; a step makes some things for an object, and says what stays in the
members of the object if it fails. `has` is what each object has to free, `lost`
what nobody can free any more: a constructor that throws runs no destructor,
and the members are plain pointers. `BuildStepFails` starts the unwinding, which
destroys the objects that are complete, in the reverse order, and for the encoder
stops its thread. `file` is the output file. Once built the steps are those
of `FFmpegOutput` (`Pipeline`), whose threads run from `started` on: the
encoder's thread already waits for frames when the muxer is made. For a container
that opens its output itself (`AVFMT_NOFILE`) the "file" of the model is that output;
the step that opens a file can then not fail in the code, and may in the model.

### GstOutput

The other output. `appsrc` is the queue of the appsrc, `inside` the frames in
the elements after it, `hand` the frame in `pushFrame()`. `holders` are the
objects whose pointer to the pipeline is not null: a move leaves the source
without. What GStreamer does is external: `Drain` and `Drop` on its threads,
`PipelineFails`, and that a push takes the buffer over whether or not it works.
An error of the pipeline does not reach `pushFrame()`, which blocks for ever if
the queue is full then (`Stuck`); `PushEnds` has the exception. As
`FFmpegOutput` does, `GstOutput` implements `FrameSink`. The repository's program
does not use it.

### CInterface

The functions of `include/` that wrap stream and portal. A C frame has the
pointer to the C++ frame that it took over (`opaque`) and the function that
deletes it (`onFrameDone`, a function for each kind). `event` is the structure
that the C program passes to `nextEvent()`, with what an earlier call left in it;
`result` is what the call returned. `CInterface` implements `EventStream`: it
keeps the promises of the C++ stream although frames, formats and events are
converted. The two enumerations of pixel formats, which differ in
order, are written out.

### ScreenCapture

`main()` from the blocking of the signals on: it requests a screen
(`RequestScreen`, whose outcomes are those of `Portal`), makes the stream,
polls, and takes everything down. It composes `PipeWireStream`, with the
main thread as its client, and a `FrameSink`, which `FFmpegOutput` implements
(`SinkSpec`), also as `build()` returns it (`BuiltOutputIsSink`).
Each step of the composition is a step of `main()`, of PipeWire, of
the output or of the user; where two of them interact (`PollStream`, `NextEvent`,
`PushFrame`, `ReleaseFrame`) it is the conjunction of a step of each. `main` is
where the main thread is, `hand` the event in its hand, `share` the shared
screen with its connection. An exception leaves the loop by `thrown`; from
there, and from the regular end, `unwind` destroys the locals in reverse order.

`PipeWireStream` assumes of its users that nobody uses the stream any more when
it is destroyed (`Unused` guards `DestroyBegin`). `ScreenCapture` has the
destructor without that guard (`InvokeDeactivate`), and `StreamSpec` shows that
the program meets the assumption. The replacement of an output in `Build`
destroys the old one in the same step; `OneOutput` shows that it never happens.

`built` holds the formats that outputs were built for, and `InputKind` is what the
scaler of such an output takes: DMA-BUFs if the format has a modifier, memory
otherwise. `OnlyMemoryMisfits` compares both with the frame in hand. It does not
say that every frame fits: the stream may deliver memory frames in a format
with a modifier, `main()` hands these to an output that takes DMA-BUFs only, and the
property names them (`MemoryForModifier`). What the output does with such a frame
is among the failures that `FFmpegOutput` allows in each call.

### Portal

The caller's steps through `getPipeWireShareInfo()`: it reads the properties of
the portal, goes through `portalRequest()` three times, and through
`openPipeWireRemoteFd()`; the portal's steps; and `Dispatch`, the thread of the
connection. `subscribed` holds the paths that have a handler. The portal
answers each call once, after it returned from it; the code relies on both.
Old portals do not derive the path of the answer from the token: that is
`Predictable = FALSE`. `CallTimesOut` is a call that D-Bus gives up although
the portal gets to it later. `Leave` is the end of `portalRequest()`, where
the promise is destroyed before the handler is unregistered: between `Continue`
or `CallFails` and `Leave` a signal would find a handler without a promise
(`astray`). Both subscriptions may throw: the first ends the request before the
call (`SubscribeFails`); the second leaves it with the call made, the old handler
still there or none (`Moves`), and the answer that is due finds neither.

## 3. Runs

| Run | Instance | States | Shows |
|---|---|---|---|
| `ring` | 2 producers, 2 consumers, capacity 2, threshold 3, 12 frames | about 17 000 | contents, order, bounds, wakeups, refinement, `signalEOF()` releases every consumer |
| `pw` | 2 buffers, 2 clients, 3 queued events | about 56 000 | eventfd, announcements, buffers, construction and destruction, refinement of `EventStream`; events are seen, the destructor ends |
| `pw_throw`, `pw_format` | violations | | see findings |
| `ffmpeg` | 5 buffers, capacity 2, one frame in graph and codec, 7 timestamps, strict, units of 1/90000 s | about 94 000 | buffers, lifetimes, timestamps, refinement of `FrameSink` |
| `ffmpeg_mux` | violation | | equal timestamps in the output |
| `build` | 4 buffers, capacity 1, not strict, DMA-BUF frames | about 47 000 | what a failure of any step leaves behind, threads and file at the end; `build()` and the destructor end, failures are reported |
| `capture` | 2 buffers, 2 queued events, formats that can be converted | about 46 000 | contract of the stream, one output, no lost buffer, the shared screen outlives the stream, the program ends |
| `portal` | predictable path | about 240 | answers reach their request and find the promise; the call ends |
| `portal_old` | violation | | an answer that is lost |
| `gst` | 5 buffers, capacity 2, one frame in the elements | about 2 700 | buffers, the pipeline given up once, refinement of `FrameSink`, `pushFrame()` returns |
| `capi` | 2 buffers | about 1 000 | frames taken over and freed once, what the event holds, refinement of `EventStream` |

In the smaller modules the type invariant is a conjunct of the invariant that
is checked (`ObjectsInv`, `HandlerInv`, `FramesInv`), beside the named parts that
say what it is about. `LiveAreNewest` and `SizeBounded` of the ring buffer are
proved, and are not checked again by `ring`: what `QueueSpec` says implies them
for the instance.

**Bounds.** The threshold of compaction is 128 in the code; only that it is
passed matters, so 3 does, with 12 frames the vector is compacted more than once,
with discards in between. Capacity 2 (4 in the code) has a queue that is empty,
partly full and full, and an oldest frame that is not the newest; in `build` the
queues hold one frame, since what is asked there is what becomes of objects and
threads. In `pw`, `MaxQueued = 3` lets the state change while up to two events
wait, and frames may still come then: Connected, frame and Disconnected are
queued at once, and what was queued before they were. Two buffers (16 in the
code) are one in an event or under way and one with a client. In `capture` two
buffers and two events let a frame be in the output while another one or
Disconnected waits behind it; formats that cannot be converted are left to
`pw_format`. Five buffers satisfy `BuffersAssumption`
(Capacity + Depth + 1 < Buffers), as 16 do with a capacity of 4 and a filter
graph that keeps up to ten; `GstAssumption` is the same for an appsrc of eight.
The timestamps, two of which are in one microsecond, let every
queue overflow. Steps of `build()` are not bounded: the sequence is that of the
code. The theorems of section 4 free the safety properties from these bounds; the liveness
properties hold of the instances.

**Symmetry** is used for buffers in `ffmpeg`, which has no liveness property.

**Deadlock** is checked everywhere but in `portal` and `portal_old`, where a
call that waits forever is for `RequestEnds` to find; in
every module `Finished` is a step of a state in which all is through, so any
other state without a step is an error. `Finished` of `GstOutput` includes
the caller that a failed pipeline leaves waiting, `Stuck`.

**Fairness.** A thread that is in a library call finishes it, as the operating
system schedules it and grants it the mutex: weak fairness of its own steps.
PipeWire's loop runs what it was asked to run however many callbacks it also
runs, as each iteration serves everything that is ready: strong fairness of
`RunInvoked`. Calls into FFmpeg return, and so do `build()`, the threads and
the destructor of `OutputBuilder`. A GStreamer pipeline that plays goes on taking
and dropping buffers. In `capture` the main
thread goes on, and an output that is being destroyed gets there, which is
`OutputEnds` of `OutputBuilder`; the user need not answer the request.
`FailureIsReported` further assumes
that frames go on coming, since only `pushFrame()` can throw. No fairness is
assumed of users, of failures, of callers of `enqueue()`, of PipeWire delivering a
frame, or of anyone destroying an object; `portal` assumes that the portal answers.

## 4. Proofs

Every safety invariant, action property and refinement that a passing run
checks is also a theorem, for every value of the constants that the assumptions
admit. Each module `XProofs` extends `X`, has an inductive invariant (`Inv`,
`IInv`, `SInv`, `BInv`), a lemma that it holds initially, one that every step keeps
it, and theorems that read the properties off it. Where an invariant has parts, one
lemma shows for all actions that one part is kept, or for some actions that all are.

The assumptions are those that the modules state, and no more:

| Module | Assumption | Why the code justifies it |
|---|---|---|
| `BlockingRingbuffer` | the kinds of threads differ; sizes are numbers | a thread does one of these things |
| `PipeWireStream`, `ScreenCapture` | convertible formats are formats; no format is called "none" | how formats are written here |
| `FFmpegOutput`, `OutputBuilder` | sizes and timestamps are numbers, a time base is a quotient of positive ones; `BuffersAssumption` | `AVRational`; 16 buffers against 4 + 10 + 1, see the bounds |
| `GstOutput` | the same for an appsrc of eight | 16 buffers |
| `Portal` | `Predictable` is a truth value | both kinds of portals |

That there are more buffers than the output has room for is used for
`StreamNotStarved` alone. The bounds of the models
(`MaxFrames`, `MaxQueued`) are arbitrary numbers in the theorems.

**BlockingRingbuffer.** `TypeCorrect`, `LiveAreNewestHolds`, `BoundsHold`,
`NoLostWakeupHolds`, the action property `OrderAndFreshness`, and `ImplementsQueue`:
the class implements `DroppingQueue` under `queue <- Live(ring)`, `closed <- eof`.
The numbering of the live slots alone is not inductive: that `taken` is older than
every live frame has to be carried along, and the type of `taken` (at most
`pushed`) follows from it after a compaction only with the length of the vector
known. What `PushBack`, `MoveOut` and `EraseDead` do to `Live` and to the numbering
are lemmas; `EnqueuedProperties` and `DequeuedProperties` compose them; `StepRefines`
reads the refinement off the same lemmas.

**PipeWireStream.** `Readability`, `Announcement`, `BufferAccounting`,
`GoneIsUnused`, `ImplementsEventStream`. `FramesAreAnnounced` is about the events
that no client has seen yet, the one that a callback is about to enqueue included
(`Unseen`), and is not inductive: a frame may follow a format because the stream
is streaming now, which says nothing of the queue. `StreamTold` adds that the last
news on the way is the state and the format of the stream, and `ConnectsAlternate`
that connections and ends alternate. Each is "the last news before position i is
one of these" (`ToldLast`), and the lemmas say what happens to that at either
end of a sequence: `FrameIsAppended`, `ReactionIsAppended`, `OldestIsTaken`. A frame
and an announcement that are queued when the state changes keep their order, so
these three cover every callback. `LifeInv` is what the progress of the owner says
about the rest, which makes the destructor safe.

**FFmpegOutput.** `BuffersGivenBack`, `StreamGoesOn`, `TimestampsIncrease`,
`CalleesAreThere`, `ImplementsFrameSink`. That the buffers of the scaler's
frames are exactly the lent ones (`LentInv`) is kept only if no two frames have
the same buffer, as one is given back when its frame leaves. Both that and the order
of timestamps are relations of frames that are ahead of each other: `Ahead` is
their conjunction, and `OrderInv` says that frames in the codec, in hand, and queued
are ahead of those behind them, in each stage and from stage to stage. Then a
step takes a frame off one sequence and puts it, or one with its timestamp, on
the next one. The theorems follow from lemmas about the invariant (`CalleesFollow`,
`LentFollows`, `OrderFollows`, `RoomFollows`), which `OutputBuilderProofs` cites.

`ffmpeg_mux` refutes that what a strict muxer is given is strictly monotonic.
Two theorems say what is left of it: `OutputMonotonic`, it never decreases, for
any rational time base of the output; and `OutputStrictInFineUnits`, it is strict if
its unit is no coarser than the microsecond that `pushFrame()` compares
(`FineUnit`). Their invariant is `WrittenInv`: what was written is not after any
frame in the pipeline. `RescaledProperties` is what both need of the conversion.

**OutputBuilder.** `NothingIsLeft`, `FileHasTrailer`: the invariant says for the step
that `build()` has reached which objects exist, what each has and what the file is;
and for the step that failed what is left to undo. It is kept along the
sequence of steps because each step makes things for the object that is being
made (`StepFits`). `BuiltOutputWorks` and `BuiltOutputIsSink` join the models: from
`build()` to the end of the destructor an output is the pipeline of `FFmpegOutput`,
with its invariants, and the `FrameSink` that `ScreenCapture` composes the
program with. The encoder's thread runs before the output is built, so the
invariant of the pipeline is part of this one in every phase.

**ScreenCapture.** `FramesAreKept`, `OnlyMemoryDoesNotFit`, `OneOutputOnly`,
`ShareOutlives`, `ImplementsStream`. The stream's invariant is part of the
program's. Every step of the program is first shown to be a step of the stream with its one client
(`StepKeeps`), also the destruction of the stream, whose guard `Unused` the
program does not have; then the stream keeps its invariant by `InvNext` of
`PipeWireStreamProofs`, and the rest of the proof is about what `main()` knows of the
stream (`OutputInv`) and where it is (`Holds`). `OnlyMemoryMisfits` rests on
`FramesAreAnnounced` of the stream, which says that a DMA-BUF has a format with a
modifier.

**GstOutput.** `FramesAreKept`, `PipelineGivenUpOnce`, `ImplementsFrameSink`. A frame
is in one place (`PlaceInv`); one object has the pipeline until it has given it up
(`ObjectsInv`). That nothing is lent when it is given up needs that no push goes on
while an object dies.

**CInterface.** `FramesAreTakenOver`, `ImplementsEventStream`. `CallbackInv` is what
`FramesTakenOver` needs to be inductive: a frame has the function that deletes
frames of its kind.

**Portal.** `HandlerIsSafe`, `AnswersFit`, `AnswersAreNotLost`. All
requests use one path, so an answer fits its request only because no other one is
due: `AnswersInv` says that during a request one answer at most is still to come,
on its way, or in the promise, and that none is between requests. `TimeoutInv` is
the exception: a request whose call timed out is the last one. `AnswersAreNotLost` is
the safety part of `RequestEnds`: a caller that waits has its answer or is due to get
one, if the portal is predictable. `portal_old` shows that it is not so otherwise.

A module that is composed of another one's steps instantiates that one's proofs
(`SP` in `ScreenCaptureProofs`, `PP` in `OutputBuilderProofs`). Since it has instances
of the model itself too, both have names for the same operators, and the lemmas
named `Same...` say that they mean the same.

**Only model-checked** are the liveness properties: `EofReleases`,
`DisconnectIsSeen`, `DestructorEnds`, `OutputEnds`, `FailureIsReported`,
`RequestEnds`, `LostStreamEnds`, `SignalEnds` and `PushEnds`. They need fairness, and so
ENABLED, which the provers do not reason about. So are the four violations: they
are behaviours that TLC finds.

## 5. Findings

* **`nextEvent()` throws early**: it reads the state of the stream, which is
  ahead of the queue. A client may get the exception before any Disconnected
  event and with frames still queued (`pw_throw`).
* **NV12 is offered but not convertible**, and the conversion throws in a
  noexcept callback (`pw_format`).
* **Equal timestamps**: monotonicity is enforced in microseconds, the output
  has its own unit (`ffmpeg_mux`).
* **A lost answer**: with a portal that makes up the path of a request, the
  answer may come before the second subscription, and
  `requestPipeWireShare()` never returns (`portal_old`).

Noticed on the way, without a run of their own:

* `main()` processes Disconnected with frames still in its output
  (main.cpp:172), which PipeWireStream.hpp:54-56 forbids. They are given back
  before the stream is destroyed, as `StreamSpec` of `ScreenCapture` shows.
* A full queue discards its oldest frame (BlockingRingbuffer.hpp:35-40), where
  ThreadedWrapper.hpp:63 says that the frame given to `processFrame()` is dropped.
* `isDmaBuf` of a Connected event says whether the format has a modifier, while
  memory buffers stay allowed then (PipeWireStream.cpp:220, 232-234), against
  PipeWireStream.hpp:50. `main()` builds its output by `isDmaBuf` (main.cpp:162), so a
  memory frame that comes then is handed to a filter graph that takes DRM PRIME
  frames only (VAAPIScaler.cpp:38-41, 63-88). `OnlyMemoryMisfits` shows that this
  is the only way in which a frame and the output do not fit.
* Buffers of a type that `processFrame()` does not know are never given back
  (PipeWireStream.cpp:124-180).
* SIGINT and SIGTERM are blocked before the portal is asked (main.cpp:96-121), so
  they do not end a program that waits for the user's answer: `SignalEnds` begins
  when the request is over.
* A Response that comes after its call timed out may find the handler without the
  promise: `HandlerFindsPromise` has that exception, while the comment at
  xdg-desktop-portal.cpp:68 calls the capture safe.
* The constructors of encoder, scaler, muxer, `GstOutput` and
  `PipeWireStream` leave what they made behind when they throw
  (`OnlyThrowerLoses` shows that it is not more than that). `ConstructFails` of
  `PipeWireStream` leaves callbacks registered on the object, but no loop runs.
* `avcodec_open2()` consumes the options of the builder, an empty output format
  passes the checks of `build()`, and the implicit move assignment of
  `FFmpegOutput` would destroy the muxer before the encoder that calls it.
* `GstOutput` ignores the offset of a frame, its output format and its device
  path, truncates descriptions to 600 characters, never releases its reference to
  the appsrc, ends without EOS, and `pushFrame()` blocks for ever when the pipeline
  fails with a full queue. Its move assignment is declared and not defined.
* `PipeWireStream_connect()` hands the file descriptor to PipeWire, which closes
  it: a screen can be connected to once. `dropSharedScreen()` does not tell a C
  stream. `PipeWireStream_nextEvent()` leaves the structure as it was for 0 and -1.

## 6. Not modelled, and the plan

Left out for good, since no state that a property could be about depends on
it: initialisation and stack traces (`common`), the smart pointers of
`libavcommon.hpp`, option parsing, the frame counter, logging, the
construction of format, filter and pipeline descriptions, the code under
`#if 0` in GstOutput.cpp, build files.

One hazard has no property: `onFrameDone()` calls `pw_stream_queue_buffer()` from
any thread (PipeWireStream.cpp:144), and whether that is safe is a question about
PipeWire.

What is left to do is about proofs: the safety parts of the liveness
properties, as `AnswersAreNotLost` is one of `RequestEnds` (that a thread which the
destructor joins has been told to end, that a failed stage has its exception set
where the stage before it looks).
