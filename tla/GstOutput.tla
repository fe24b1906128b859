----------------------------- MODULE GstOutput ------------------------------
(***************************************************************************)
(* The other output for frames of a shared screen (GStreamerModule/), a    *)
(* GStreamer pipeline behind an appsrc with a queue of a few buffers.  The *)
(* caller wraps each frame in a GstBuffer, which owns it from then on, and *)
(* pushes it; while the queue is full it is blocked.  A GstOutput can be   *)
(* moved, and both objects are destroyed in the end.                       *)
(*                                                                         *)
(* GStreamer is outside src/: the pipeline takes buffers out of the queue  *)
(* on threads of its own, and it may fail, of which pushFrame() learns     *)
(* nothing, or that the appsrc takes no buffers any more.                  *)
(***************************************************************************)
EXTENDS Integers, Sequences, FiniteSets

CONSTANTS
  Buffers,    \* the buffers of the PipeWire stream that frames are made of
  Capacity,   \* 8 in the code: max-buffers of the appsrc
  Depth       \* bound: frames that the elements after the appsrc hold

\* The stream has more buffers than the output can hold at a time.
ASSUME GstAssumption ==
  /\ Capacity \in Nat \ {0} /\ Depth \in Nat \ {0}
  /\ IsFiniteSet(Buffers)
  /\ Cardinality(Buffers) > Capacity + Depth + 1

VARIABLES
  elements,   \* the pipeline: "none", "playing", "failed", "paused", "null"
  appsrc,     \* the buffers in its queue, oldest first
  inside,     \* the buffers in the elements after it
  hand,       \* the buffer that pushFrame() is about to push, if it runs
  lent,       \* buffers of the stream whose frames are not destroyed yet
  objects,    \* the GstOutput objects that exist
  holders,    \* those whose pointer to the pipeline is not null
  dying,      \* those whose destructor is at work on the pipeline
  unrefs      \* how often the pipeline was given up

vars == <<elements, appsrc, inside, hand, lent, objects, holders, dying, unrefs>>

objectVars == <<objects, holders, dying, unrefs>>

Init ==
  /\ elements = "none"
  /\ appsrc = <<>> /\ inside = {} /\ hand = {} /\ lent = {}
  /\ objects = {} /\ holders = {} /\ dying = {} /\ unrefs = 0

-----------------------------------------------------------------------------
(* Construction and moves.                                                 *)

\* Mutant: the pipeline is left as it was made.
StartedNot == "paused"

Started == "playing"

\* Builder::build() makes and starts the pipeline.
Build ==
  /\ elements = "none"
  /\ elements' = Started
  /\ objects' = {"made"} /\ holders' = {"made"}
  /\ UNCHANGED <<appsrc, inside, hand, lent, dying, unrefs>>

\* It throws: no destructor runs, and what was made of a pipeline is leaked.
BuildFails ==
  /\ elements = "none"
  /\ elements' = "unbuilt"
  /\ UNCHANGED <<appsrc, inside, hand, lent, objectVars>>

\* Mutant: the source of the move is left as it is.
MovedSharing == {"made", "moved"}

\* The objects with a pointer to the pipeline after a move.
Moved == {"moved"}

\* GstOutput(GstOutput&&)
Move ==
  /\ hand = {} /\ dying = {}
  /\ objects = {"made"} /\ holders = {"made"}
  /\ objects' = {"made", "moved"}
  /\ holders' = Moved
  /\ UNCHANGED <<elements, appsrc, inside, hand, lent, dying, unrefs>>

-----------------------------------------------------------------------------
(* pushFrame()                                                             *)

\* The frame is wrapped in a GstBuffer.
PushFrame(b) ==
  /\ hand = {} /\ dying = {} /\ holders # {} /\ unrefs = 0
  /\ b \notin lent
  /\ hand' = {b}
  /\ lent' = lent \cup {b}
  /\ UNCHANGED <<elements, appsrc, inside, objectVars>>

HasRoom == Len(appsrc) < Capacity

\* Mutant: the frame is destroyed by its unique_ptr when pushFrame() returns.
DestroyedAtReturnToo == lent \ hand

\* The frames that are left when pushFrame() returns.
DestroyedAtReturn == lent

\* gst_app_src_push_buffer() takes the buffer once there is room, and messages
\* of the pipeline are printed.
PushReturns ==
  /\ hand # {}
  /\ HasRoom
  /\ \E b \in hand : appsrc' = Append(appsrc, b)
  /\ hand' = {}
  /\ lent' = DestroyedAtReturn
  /\ UNCHANGED <<elements, inside, objectVars>>

\* It does not take it, but destroys it; pushFrame() throws.
PushThrows ==
  /\ hand # {}
  /\ elements = "failed"
  /\ lent' = lent \ hand
  /\ hand' = {}
  /\ UNCHANGED <<elements, appsrc, inside, objectVars>>

-----------------------------------------------------------------------------
(* The pipeline, on threads of its own.                                    *)

\* The appsrc hands a buffer on.
Drain ==
  /\ elements = "playing"
  /\ appsrc # <<>> /\ Cardinality(inside) < Depth
  /\ appsrc' = Tail(appsrc)
  /\ inside' = inside \cup {Head(appsrc)}
  /\ UNCHANGED <<elements, hand, lent, objectVars>>

\* The frame in a buffer has been encoded: onFrameMemoryDropped().
Drop ==
  /\ elements \in {"playing", "failed", "paused"}
  /\ \E b \in inside : inside' = inside \ {b} /\ lent' = lent \ {b}
  /\ UNCHANGED <<elements, appsrc, hand, objectVars>>

\* An element fails, and the appsrc stops.
PipelineFails ==
  /\ elements = "playing"
  /\ elements' = "failed"
  /\ UNCHANGED <<appsrc, inside, hand, lent, objectVars>>

-----------------------------------------------------------------------------
(* ~GstOutput()                                                            *)

\* The pipeline is paused.
DestroyBegin(o) ==
  /\ hand = {} /\ dying = {}
  /\ o \in holders \cap objects
  /\ dying' = {o}
  /\ elements' = "paused"
  /\ UNCHANGED <<appsrc, inside, hand, lent, objects, holders, unrefs>>

\* Mutant: the pipeline is only given up.  Its appsrc, which is referred to from
\* elsewhere, keeps its queue.
StoppedNot == inside

\* The buffers that a pipeline drops when it is stopped.
Stopped == inside \cup {appsrc[i] : i \in DOMAIN appsrc}

\* It is stopped and given up.
DestroyPipeline ==
  /\ dying # {}
  /\ elements' = "null"
  /\ appsrc' = <<>> /\ inside' = {}
  /\ lent' = lent \ Stopped
  /\ objects' = objects \ dying
  /\ dying' = {}
  /\ unrefs' = unrefs + 1
  /\ UNCHANGED <<hand, holders>>

\* An object that was moved from has nothing to give up.
DestroyEmpty(o) ==
  /\ o \in objects \ holders
  /\ hand = {} /\ dying = {}
  /\ objects' = objects \ {o}
  /\ UNCHANGED <<elements, appsrc, inside, hand, lent, holders, dying, unrefs>>

-----------------------------------------------------------------------------

\* The caller waits for room in a pipeline that does not run: nobody wakes it.
Stuck == hand # {} /\ elements # "playing" /\ ~HasRoom

Finished == (Stuck \/ (objects = {} /\ elements # "none")) /\ UNCHANGED vars

Next ==
  \/ Build \/ BuildFails \/ Move
  \/ \E b \in Buffers : PushFrame(b)
  \/ PushReturns \/ PushThrows
  \/ Drain \/ Drop \/ PipelineFails
  \/ \E o \in objects : DestroyBegin(o) \/ DestroyEmpty(o)
  \/ DestroyPipeline
  \/ Finished

Spec == Init /\ [][Next]_vars

\* A pipeline that plays goes on, and so does the caller in pushFrame(); frames
\* need not come, and nobody must destroy the output.
Fairness ==
  /\ WF_vars(Drain)
  /\ WF_vars(elements = "playing" /\ Drop)
  /\ WF_vars(PushReturns)

FairSpec == Spec /\ Fairness

-----------------------------------------------------------------------------
(* Properties                                                              *)

\* Types of the variables.
TypeOK ==
  /\ elements \in {"none", "unbuilt", "playing", "failed", "paused", "null"}
  /\ appsrc \in Seq(Buffers)
  /\ inside \subseteq Buffers /\ hand \subseteq Buffers /\ lent \subseteq Buffers
  /\ objects \subseteq {"made", "moved"}
  /\ holders \subseteq {"made", "moved"}
  /\ dying \subseteq objects
  /\ unrefs \in Nat
  /\ elements = "null" <=> unrefs > 0

\* A frame lives as long as exactly one GstBuffer that owns it is in pushFrame(),
\* in the queue or in an element: it is neither destroyed while GStreamer reads
\* it, nor leaked by a push that fails or by the destructor.
LentAreHeld ==
  /\ lent = hand \cup inside \cup {appsrc[i] : i \in DOMAIN appsrc}
  /\ Cardinality(lent) = Cardinality(hand) + Cardinality(inside) + Len(appsrc)

\* However slow the pipeline is, and also when it has failed, PipeWire always
\* has a buffer for the next frame.
StreamNotStarved == Buffers \ lent # {}

\* No frame of the stream is lost in the pipeline, freed too early, or kept in such
\* numbers that none is left.
FramesInv == TypeOK /\ LentAreHeld /\ StreamNotStarved

\* Moved or not, the pipeline is given up once, when its last object is
\* destroyed, and is there until then.
GivenUpOnce ==
  /\ unrefs <= 1
  /\ elements \notin {"none", "unbuilt"} => (objects \cap holders = {} <=> unrefs = 1)

\* To the program the output would be a FrameSink as good as FFmpegOutput: all
\* its frames are gone when it is destroyed, so that the stream may be.
Sink ==
  INSTANCE FrameSink WITH
    status <- IF unrefs > 0 THEN "closed" ELSE IF dying # {} THEN "closing" ELSE "open"

SinkSpec == Sink!Spec

\* pushFrame() returns, although it blocks its caller, which polls the stream,
\* until there is room: unless the pipeline fails.
PushEnds == hand # {} ~> hand = {} \/ elements = "failed"
=============================================================================
