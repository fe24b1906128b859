---------------------------- MODULE FFmpegOutput ----------------------------
(***************************************************************************)
(* The pipeline that scales, encodes and writes the frames of a shared     *)
(* screen (FFMPEGModule/), from the end of Builder::build() to the end of  *)
(* the destructor of FFmpegOutput.                                         *)
(*                                                                         *)
(* The scaler and the encoder are each wrapped in a ThreadedWrapper: a     *)
(* BlockingRingbuffer, a thread that takes frames out of it, and the       *)
(* exception that ended the thread, if one did.  The scaler's thread calls *)
(* the encoder's processFrame(), the encoder's thread the muxer's          *)
(* writePacket().  The caller of pushFrame() also runs the destructor.     *)
(*                                                                         *)
(* A queue is what DroppingQueue says, which BlockingRingbuffer            *)
(* implements.  FFmpeg itself is outside src/: how many frames a filter    *)
(* graph or a codec keeps, and when a call fails, is left open.            *)
(***************************************************************************)
EXTENDS Integers, Sequences, FiniteSets

CONSTANTS
  Buffers,    \* the buffers of the PipeWire stream that frames are made of
  Capacity,   \* 4 in the code: length of the queues
  Depth,      \* bound: frames that the filter graph and the codec hold back
  Times,      \* bound: the timestamps of frames of the stream, in nanoseconds
  Strict,     \* requiresStrictMonotonicTimestamps() of the muxer
  TimeBase    \* the time base of the stream in the output: its unit is
              \* num / den seconds

Stages == {"scaler", "encoder"}

ASSUME PipelineAssumption ==
  /\ Capacity \in Nat
  /\ Depth \in [Stages -> Nat]
  /\ Times \subseteq Nat
  /\ Strict \in BOOLEAN
  /\ TimeBase \in [num : Nat \ {0}, den : Nat \ {0}]

\* The stream has more buffers than the output can hold at a time.
ASSUME BuffersAssumption ==
  /\ IsFiniteSet(Buffers)
  /\ Cardinality(Buffers) > Capacity + Depth["scaler"] + 1
  /\ "gpu" \notin Buffers

VARIABLES
  queue,     \* of each ThreadedWrapper: the frames that wait, oldest first
  eof,       \* signalEOF() was called on the queue
  thread,    \* where its thread is
  cur,       \* the frame that its thread took and not yet handed to FFmpeg
  inner,     \* the frames inside the wrapped filter graph or codec
  exc,       \* threadException is set
  lent,      \* buffers of the stream whose frames are not destroyed yet
  lastPts,
  written,   \* history: the last timestamp in the output, -1 before the first
  threw,     \* history: pushFrame() threw an exception
  closing    \* how many members ~FFmpegOutput() turned to, 0 while in use

vars == <<queue, eof, thread, cur, inner, exc, lent, lastPts, written, threw, closing>>

stageVars == <<queue, eof, thread, cur, inner, exc>>
outputVars == <<lastPts, written, threw, closing>>

-----------------------------------------------------------------------------
(* Helpers.                                                                *)

\* wrapInAVFrame() of a frame with timestamp t in buffer b: an AVFrame with its
\* timestamp in microseconds.  It owns the frame, which is destroyed with it.
Wrapped(b, t) == [pts |-> t \div 1000, buffer |-> b]

\* The frames that pushFrame() may get.
Frames == {Wrapped(b, t) : b \in Buffers, t \in Times}

\* Mutant: a full queue grows.
EnqueueUnbounded(q, f) == Append(q, f)

\* enqueue() of a BlockingRingbuffer: the oldest frame makes room.
Enqueue(q, f) == IF Len(q) < Capacity THEN Append(q, f) ELSE Tail(Append(q, f))

BuffersOf(q) == {q[i].buffer : i \in DOMAIN q}

\* Mutant: the scaled frame holds on to the frame it was made from.
ScaledReferencing(f) == f

\* A scaled frame is a surface on the GPU: the buffer it was made from is free.
Scaled(f) == [pts |-> f.pts, buffer |-> "gpu"]

\* Mutant: frames with the timestamp of the last one pass.
AcceptedEqual(p) == Strict => lastPts <= p

\* Whether pushFrame() goes on with a frame.
Accepted(p) == Strict => lastPts < p

\* The time base of the codec: packets have their timestamps in microseconds.
CodecTimeBase == [num |-> 1, den |-> 1000000]

\* av_packet_rescale_ts() to the time base of the output: the nearest unit.
Rescaled(p) ==
  LET n == p * (CodecTimeBase.num * TimeBase.den)
      d == CodecTimeBase.den * TimeBase.num
  IN  (2 * n + d) \div (2 * d)

\* Mutant: the members are declared, and so destroyed, the other way round.
DestructionOrderReversed == <<"muxer", "encoder", "scaler">>

\* Members are destroyed in the reverse order of their declaration.
DestructionOrder == <<"scaler", "encoder", "muxer">>

\* The member that is being destroyed, when there is one.
Destroying(m) == closing \in DOMAIN DestructionOrder /\ DestructionOrder[closing] = m

\* Member m still exists.
Exists(m) == \E i \in DOMAIN DestructionOrder : DestructionOrder[i] = m /\ closing <= i

-----------------------------------------------------------------------------

Init ==
  /\ queue = [s \in Stages |-> <<>>]
  /\ eof = [s \in Stages |-> FALSE]
  /\ thread = [s \in Stages |-> "dequeue"]
  /\ cur = [s \in Stages |-> <<>>]
  /\ inner = [s \in Stages |-> <<>>]
  /\ exc = [s \in Stages |-> FALSE]
  /\ lent = {}
  /\ lastPts = 0
  /\ written = -1
  /\ threw = FALSE
  /\ closing = 0

Goto(s, label) == thread' = [thread EXCEPT ![s] = label]

-----------------------------------------------------------------------------
(* The caller of pushFrame().  A frame that is not accepted is destroyed   *)
(* at once, which changes nothing here.  The look at threadException is    *)
(* not synchronised with the thread that sets it: it may come just before. *)

KeepPts(p) == lastPts' = IF Strict THEN p ELSE lastPts

\* Mutant: a frame that is discarded from the queue is not destroyed.
PushFrameLeaking(f) ==
  /\ closing = 0 /\ f.buffer \notin lent
  /\ Accepted(f.pts)
  /\ ~exc["scaler"]
  /\ KeepPts(f.pts)
  /\ queue' = [queue EXCEPT !["scaler"] = Enqueue(@, f)]
  /\ lent' = lent \cup {f.buffer}
  /\ UNCHANGED <<eof, thread, cur, inner, exc, written, threw, closing>>

\* pushFrame().  The frame that is discarded from the queue for frame f, if any,
\* is destroyed.
PushFrame(f) ==
  /\ closing = 0 /\ f.buffer \notin lent
  /\ Accepted(f.pts)
  /\ ~exc["scaler"]
  /\ KeepPts(f.pts)
  /\ queue' = [queue EXCEPT !["scaler"] = Enqueue(@, f)]
  /\ lent' = (lent \ BuffersOf(queue["scaler"])) \cup BuffersOf(queue'["scaler"])
  /\ UNCHANGED <<eof, thread, cur, inner, exc, written, threw, closing>>

\* pushFrame() rethrows the exception of the scaler's thread.  The frame is
\* destroyed.
PushFrameThrows(f) ==
  /\ closing = 0 /\ f.buffer \notin lent
  /\ Accepted(f.pts)
  /\ exc["scaler"]
  /\ KeepPts(f.pts)
  /\ threw' = TRUE
  /\ UNCHANGED <<stageVars, lent, written, closing>>

-----------------------------------------------------------------------------
(* The thread of stage s: processFramesLoop().  A call that fails throws   *)
(* an exception, and the frame in hand is destroyed on the way out.        *)

\* dequeue() returns a frame.
Dequeue(s) ==
  /\ thread[s] = "dequeue"
  /\ ~eof[s]
  /\ queue[s] # <<>>
  /\ cur' = [cur EXCEPT ![s] = <<Head(queue[s])>>]
  /\ queue' = [queue EXCEPT ![s] = Tail(@)]
  /\ Goto(s, "add")
  /\ UNCHANGED <<eof, inner, exc, lent, outputVars>>

\* dequeue() returns EndOfBuffer, whether frames are left or not.
DequeueEnd(s) ==
  /\ thread[s] = "dequeue"
  /\ eof[s]
  /\ Goto(s, "ended")
  /\ UNCHANGED <<queue, eof, cur, inner, exc, lent, outputVars>>

\* av_buffersrc_add_frame_flags() or avcodec_send_frame()
Add(s) ==
  /\ thread[s] = "add"
  /\ inner' = [inner EXCEPT ![s] = @ \o cur[s]]
  /\ cur' = [cur EXCEPT ![s] = <<>>]
  /\ Goto(s, "extract")
  /\ UNCHANGED <<queue, eof, exc, lent, outputVars>>

\* The same, failing.
AddFails(s) ==
  /\ thread[s] = "add"
  /\ cur' = [cur EXCEPT ![s] = <<>>]
  /\ lent' = lent \ BuffersOf(cur[s])
  /\ Goto(s, "thrown")
  /\ UNCHANGED <<queue, eof, inner, exc, outputVars>>

\* av_buffersink_get_frame() or avcodec_receive_packet() says EAGAIN, and the
\* loop dequeues again.
ExtractNothing(s) ==
  /\ thread[s] = "extract"
  /\ Len(inner[s]) <= Depth[s]
  /\ Goto(s, "dequeue")
  /\ UNCHANGED <<queue, eof, cur, inner, exc, lent, outputVars>>

\* It says something else.
ExtractFails(s) ==
  /\ thread[s] = "extract"
  /\ Goto(s, "thrown")
  /\ UNCHANGED <<queue, eof, cur, inner, exc, lent, outputVars>>

\* The oldest frame leaves the filter graph or codec.
Extract(s) ==
  /\ thread[s] = "extract"
  /\ inner[s] # <<>>
  /\ inner' = [inner EXCEPT ![s] = Tail(@)]
  /\ lent' = lent \ {Head(inner[s]).buffer}

\* Mutant: the exception of the encoder's thread is not looked at.
EncoderAcceptsAlways == TRUE

\* Whether processFrame() of the encoder takes the frame and does not rethrow.
EncoderAccepts == ~exc["encoder"]

\* The scaler's callback: processFrame() of the encoder.
ScalingDone ==
  /\ Extract("scaler")
  /\ EncoderAccepts
  /\ queue' = [queue EXCEPT !["encoder"] = Enqueue(@, Scaled(Head(inner["scaler"])))]
  /\ UNCHANGED <<eof, thread, cur, exc, outputVars>>

\* The same, when it rethrows.
ScalingDoneThrows ==
  /\ Extract("scaler")
  /\ ~EncoderAccepts
  /\ Goto("scaler", "thrown")
  /\ UNCHANGED <<queue, eof, cur, exc, outputVars>>

\* The encoder's callback: writePacket() of the muxer.
WritePacket ==
  /\ Extract("encoder")
  /\ written' = Rescaled(Head(inner["encoder"]).pts)
  /\ UNCHANGED <<queue, eof, thread, cur, exc, lastPts, threw, closing>>

\* The same, failing.
WritePacketThrows ==
  /\ Extract("encoder")
  /\ Goto("encoder", "thrown")
  /\ UNCHANGED <<queue, eof, cur, exc, outputVars>>

\* The catch block at the end of the thread.
Catch(s) ==
  /\ thread[s] = "thrown"
  /\ exc' = [exc EXCEPT ![s] = TRUE]
  /\ Goto(s, "ended")
  /\ UNCHANGED <<queue, eof, cur, inner, lent, outputVars>>

-----------------------------------------------------------------------------
(* ~FFmpegOutput()                                                         *)

DestroyBegin ==
  /\ closing = 0
  /\ closing' = 1
  /\ UNCHANGED <<stageVars, lent, lastPts, written, threw>>

\* ~ThreadedWrapper() calls signalEOF().
SignalEOF(s) ==
  /\ Destroying(s)
  /\ ~eof[s]
  /\ eof' = [eof EXCEPT ![s] = TRUE]
  /\ UNCHANGED <<queue, thread, cur, inner, exc, lent, outputVars>>

\* Mutant: the thread is not waited for.
JoinNot(s) == Destroying(s) /\ eof[s]

\* thread.join()
Join(s) == Destroying(s) /\ eof[s] /\ thread[s] = "ended"

\* After the join the filter graph or codec and the queue are destroyed, and
\* the frames in them.
DestroyStage(s) ==
  /\ Join(s)
  /\ closing' = closing + 1
  /\ inner' = [inner EXCEPT ![s] = <<>>]
  /\ queue' = [queue EXCEPT ![s] = <<>>]
  /\ lent' = lent \ (BuffersOf(inner[s]) \cup BuffersOf(queue[s]))
  /\ UNCHANGED <<eof, thread, cur, exc, lastPts, written, threw>>

\* ~Muxer() writes the trailer and closes the file.
DestroyMuxer ==
  /\ Destroying("muxer")
  /\ closing' = closing + 1
  /\ UNCHANGED <<stageVars, lent, lastPts, written, threw>>

Destroyed == closing > Len(DestructionOrder)

Finished == Destroyed /\ UNCHANGED vars

-----------------------------------------------------------------------------

StageThread(s) ==
  \/ Dequeue(s) \/ DequeueEnd(s)
  \/ Add(s) \/ AddFails(s)
  \/ ExtractNothing(s) \/ ExtractFails(s)
  \/ s = "scaler" /\ (ScalingDone \/ ScalingDoneThrows)
  \/ s = "encoder" /\ (WritePacket \/ WritePacketThrows)
  \/ Catch(s)

Caller == \E f \in Frames : PushFrame(f) \/ PushFrameThrows(f)

Destroy ==
  \/ \E s \in Stages : SignalEOF(s)
  \/ \E s \in Stages : DestroyStage(s)
  \/ DestroyMuxer

Next ==
  \/ Caller
  \/ \E s \in Stages : StageThread(s)
  \/ DestroyBegin
  \/ Destroy
  \/ Finished

Spec == Init /\ [][Next]_vars

-----------------------------------------------------------------------------
(* Properties                                                              *)

GpuFrames == {[pts |-> f.pts, buffer |-> "gpu"] : f \in Frames}

\* Types of the variables; the thread has a frame in hand just in "add".
TypeOK ==
  /\ \A s \in Stages :
       LET T == IF s = "scaler" THEN Frames ELSE GpuFrames IN
         queue[s] \in Seq(T) /\ cur[s] \in Seq(T) /\ inner[s] \in Seq(T)
  /\ eof \in [Stages -> BOOLEAN]
  /\ thread \in [Stages -> {"dequeue", "add", "extract", "thrown", "ended"}]
  /\ \A s \in Stages : Len(cur[s]) = IF thread[s] = "add" THEN 1 ELSE 0
  /\ exc \in [Stages -> BOOLEAN]
  /\ lent \subseteq Buffers
  /\ lastPts \in {f.pts : f \in Frames} \cup {0}
  /\ written \in Int
  /\ threw \in BOOLEAN
  /\ closing \in 0 .. Len(DestructionOrder) + 1

\* The frames that stage s has, oldest first.
Held(s) == inner[s] \o cur[s] \o queue[s]

\* A buffer is lent just as long as exactly one frame made of it exists in the
\* scaler: every frame that is scaled, discarded, or lost to a failure or to
\* the destructor gives its buffer back, once.
LentAreHeld ==
  /\ lent = BuffersOf(Held("scaler"))
  /\ \A i, j \in DOMAIN Held("scaler") :
       Held("scaler")[i].buffer = Held("scaler")[j].buffer => i = j

\* However slow the GPU is, a few buffers at most are withheld from the
\* stream, and PipeWire always has one for the next frame.
StreamNotStarved ==
  /\ Cardinality(lent) <= Capacity + Depth["scaler"] + 1
  /\ Buffers \ lent # {}

\* The threads call into members of the output that exist: the scaler's calls
\* the encoder, the encoder's the muxer.
CalleesExist ==
  /\ thread["scaler"] # "ended" => Exists("scaler") /\ Exists("encoder")
  /\ thread["encoder"] # "ended" => Exists("encoder") /\ Exists("muxer")

\* The output is the FrameSink that main() takes it for: a buffer is lent to it
\* by pushFrame() only, is given back for good, and when the output is destroyed
\* "all references to frames from the stream are dropped".
Sink ==
  INSTANCE FrameSink WITH
    status <- IF closing = 0 THEN "open" ELSE IF Destroyed THEN "closed" ELSE "closing"

SinkSpec == Sink!Spec

\* All frames in the pipeline, those about to be written first.
Pipeline == Held("encoder") \o Held("scaler")

\* For a muxer that is strict, timestamps strictly increase along the pipeline
\* whatever is discarded on the way, and none is later than lastPts.
PipelineOrdered ==
  Strict =>
    /\ \A i, j \in DOMAIN Pipeline : i < j => Pipeline[i].pts < Pipeline[j].pts
    /\ \A i \in DOMAIN Pipeline : Pipeline[i].pts <= lastPts

\* The destructor ends, also after failures, and with frames in the queues.
DestructorEnds == closing > 0 ~> Destroyed

\* A failure of either thread comes to the attention of the caller, if frames
\* go on coming: one of the encoder by way of the scaler.
FailureIsReported ==
  \A s \in Stages : thread[s] = "thrown" ~> threw \/ closing > 0

\* pushFrame() drops a frame when the muxer requires it: "Dropping frame with
\* non-strictly monotonic timestamp".  What the muxer gets is then strictly
\* monotonic.
OutputStrictlyMonotonic == [][Strict /\ WritePacket => written' > written]_vars
=============================================================================
