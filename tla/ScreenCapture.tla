--------------------------- MODULE ScreenCapture ----------------------------
(***************************************************************************)
(* The program (main.cpp): it asks for a shared screen, makes the stream,  *)
(* polls the stream and a signalfd, makes an FFmpegOutput when the stream  *)
(* connects, and pushes every frame into it.  When the loop ends, or an    *)
(* exception leaves it, output, stream and shared screen are given up.     *)
(*                                                                         *)
(* The request is what Portal shows it to be: it ends with a screen, with  *)
(* nothing or with an exception.                                           *)
(* The stream is PipeWireStream with the main thread as its only client.   *)
(* The output is a FrameSink, which FFmpegOutput implements; when it makes *)
(* use of that freedom, and when building it or pushing fails, is open.    *)
(***************************************************************************)
EXTENDS Integers, Sequences

CONSTANTS Buffers, PixelFormats, Convertible, SupportDmaBuf, MaxQueued,
  Main   \* the main thread

\* As in PipeWireStream.
ASSUME CaptureAssumption ==
  /\ Convertible \subseteq PixelFormats
  /\ "none" \notin PixelFormats
  /\ SupportDmaBuf \in BOOLEAN
  /\ MaxQueued \in Nat

Clients == {Main}

VARIABLES
  pw, active, invoked, state, format, where, loop, pending, eventQueue, readable,
  client, announced, owner, terminated,   \* those of PipeWireStream
  lent, status,   \* those of FrameSink; status is "none" without an output
  main,           \* where the main thread is
  hand,           \* the event it is handling, <<>> if none
  shouldStop,
  signalled,      \* the signalfd is readable: SIGINT or SIGTERM is pending
  built,          \* history: the formats that outputs were built for
  share           \* shareInfo: "none", "open" with its connection, "dropped"

Stream == INSTANCE PipeWireStream
Sink == INSTANCE FrameSink

streamVars == <<pw, active, invoked, state, format, where, loop, pending, eventQueue,
                readable, client, announced, owner, terminated>>
sinkVars == <<lent, status>>
mainVars == <<main, hand, shouldStop, signalled, built, share>>
vars == <<streamVars, sinkVars, mainVars>>

Init ==
  /\ Stream!Init
  /\ lent = {}
  /\ status = "none"
  /\ main = "request"
  /\ hand = <<>>
  /\ shouldStop = FALSE
  /\ signalled = FALSE
  /\ built = <<>>
  /\ share = "none"

-----------------------------------------------------------------------------
(* The beginning.  Signals are blocked from before the request on.         *)

\* requestPipeWireShare() returns a screen; else main() returns.
RequestScreen ==
  /\ main = "request"
  /\ \/ share' = "open" /\ main' = "construct"
     \/ main' = "exited" /\ UNCHANGED share
  /\ UNCHANGED <<streamVars, sinkVars, hand, shouldStop, signalled, built>>

\* A step of PipeWireStream()
Construct ==
  /\ main = "construct"
  /\ Stream!Construct
  /\ main' = IF owner' = "alive" THEN "poll" ELSE "construct"
  /\ UNCHANGED <<sinkVars, hand, shouldStop, signalled, built, share>>

\* The same, throwing.
ConstructFails ==
  /\ main = "construct"
  /\ Stream!ConstructFails
  /\ main' = "unwind"
  /\ UNCHANGED <<sinkVars, hand, shouldStop, signalled, built, share>>

-----------------------------------------------------------------------------
(* The loop.                                                               *)

\* The user wants the program to stop.
Signal ==
  /\ ~signalled
  /\ main # "exited"
  /\ signalled' = TRUE
  /\ UNCHANGED <<streamVars, sinkVars, main, hand, shouldStop, built, share>>

\* Mutant: the signalfd is only read when the stream has an event, too.
StopRequestedOnlyWithEvent == signalled /\ readable

\* poll() reports the signalfd, and a signal is read from it.
StopRequested == signalled

\* poll() returns for the stream, and nextEvent() is called, whether or not a
\* signal was read before.
PollStream ==
  /\ main = "poll" /\ ~shouldStop
  /\ Stream!Poll(Main)
  /\ shouldStop' = StopRequested
  /\ signalled' = (signalled /\ ~StopRequested)
  /\ main' = "event"
  /\ UNCHANGED <<sinkVars, hand, built, share>>

\* poll() returns for a signal only.
PollSignal ==
  /\ main = "poll" /\ ~shouldStop
  /\ StopRequested /\ ~readable
  /\ shouldStop' = TRUE
  /\ signalled' = FALSE
  /\ UNCHANGED <<streamVars, sinkVars, main, hand, built, share>>

\* poll() fails, and main() returns.
PollFails ==
  /\ main = "poll" /\ ~shouldStop
  /\ Stream!StopPolling(Main)
  /\ main' = "unwind"
  /\ UNCHANGED <<sinkVars, hand, shouldStop, signalled, built, share>>

\* nextEvent() looks at the state of the stream; an exception leaves the loop.
NextEventCheck ==
  /\ main = "event"
  /\ Stream!NextEventCheck(Main)
  /\ main' = IF client'[Main] = "threw" THEN "unwind" ELSE "event"
  /\ UNCHANGED <<sinkVars, hand, shouldStop, signalled, built, share>>

\* Mutant: the program waits for the stream to connect again.
StopsAtNothing(e) == FALSE

\* The loop ends with this event.
StopsAt(e) == e.kind = "disconnected"

\* nextEvent() returns an event: there is one, as only this thread takes them.
\* Disconnected is handled at once.
NextEvent ==
  /\ main = "event"
  /\ Stream!NextEventPop(Main)
  /\ LET e == Head(eventQueue) IN
       /\ shouldStop' = (shouldStop \/ StopsAt(e))
       /\ IF e.kind = "disconnected"
          THEN main' = "poll" /\ hand' = <<>>
          ELSE main' = "handle" /\ hand' = <<e>>
  /\ UNCHANGED <<sinkVars, signalled, built, share>>

\* The kind of frames that an output takes which is built for the format f:
\* the filter graph of its scaler maps DMA-BUFs, or uploads memory.
InputKind(f) == IF f.modifier THEN "dmabuf" ELSE "memory"

\* Connected: an output is built, and replaces another one, which is destroyed.
Build ==
  /\ main = "handle" /\ hand[1].kind = "connected"
  /\ status' = "open"
  /\ lent' = {}
  /\ where' = [b \in Buffers |-> IF b \in lent THEN "pipewire" ELSE where[b]]
  /\ built' = Append(built, hand[1].format)
  /\ main' = "poll"
  /\ hand' = <<>>
  /\ UNCHANGED <<pw, active, invoked, state, format, loop, pending, eventQueue, readable,
                 client, announced, owner, terminated, shouldStop, signalled, share>>

\* The output cannot be built.
BuildFails ==
  /\ main = "handle" /\ hand[1].kind = "connected"
  /\ main' = "thrown"
  /\ hand' = <<>>
  /\ UNCHANGED <<streamVars, sinkVars, shouldStop, signalled, built, share>>

\* pushFrame() keeps the frame, and may discard one for it, or this one.
PushFrame ==
  /\ main = "handle" /\ Stream!IsFrame(hand[1])
  /\ LET b == hand[1].buffer IN
       /\ \/ lent' = lent \cup {b} /\ UNCHANGED streamVars
          \/ \E d \in lent \cup {b} :
               lent' = (lent \cup {b}) \ {d} /\ Stream!ReleaseFrame(d)
       /\ Sink!Push(b)
  /\ main' = "poll"
  /\ hand' = <<>>
  /\ UNCHANGED <<shouldStop, signalled, built, share>>

\* Mutant: the frame that could not be pushed is not destroyed.
PushFrameThrowsLeaking ==
  /\ main = "handle" /\ Stream!IsFrame(hand[1])
  /\ main' = "thrown"
  /\ hand' = <<>>
  /\ UNCHANGED <<streamVars, sinkVars, shouldStop, signalled, built, share>>

\* pushFrame() throws, and destroys the frame.
PushFrameThrows ==
  /\ main = "handle" /\ Stream!IsFrame(hand[1])
  /\ Stream!ReleaseFrame(hand[1].buffer)
  /\ main' = "thrown"
  /\ hand' = <<>>
  /\ UNCHANGED <<sinkVars, shouldStop, signalled, built, share>>

\* The loop ends because it should, or because of an exception.
LeaveLoop ==
  /\ main = "thrown" \/ (main = "poll" /\ shouldStop)
  /\ Stream!StopPolling(Main)
  /\ main' = "unwind"
  /\ UNCHANGED <<sinkVars, hand, shouldStop, signalled, built, share>>

-----------------------------------------------------------------------------
(* The end.  Locals are destroyed in the reverse order of their            *)
(* declaration: the output, then the stream.                               *)

CloseOutput ==
  /\ main = "unwind"
  /\ Sink!BeginClose
  /\ UNCHANGED <<streamVars, mainVars>>

\* Mutant: the output is declared before the stream.
OutputGoneWhatever == TRUE

OutputGone == status \in {"none", "closed"}

\* ~PipeWireStream(), with its first step whether or not frames are left.
DestroyStream ==
  /\ main = "unwind"
  /\ OutputGone
  /\ \/ Stream!InvokeDeactivate
     \/ Stream!DestroyQuit
     \/ Stream!DestroyJoin
     \/ Stream!DestroyClear
     \/ Stream!DestroyStream
  /\ UNCHANGED <<sinkVars, mainVars>>

\* Mutant: the shared screen is declared after the stream.
StreamGoneWhatever == TRUE

StreamGone == owner \in {"failed", "destroyed"}

\* The end of shareInfo closes the connection, and the session with it; then
\* main() returns.
Exit ==
  /\ main = "unwind"
  /\ OutputGone
  /\ StreamGone
  /\ share' = "dropped"
  /\ main' = "exited"
  /\ UNCHANGED <<streamVars, sinkVars, hand, shouldStop, signalled, built>>

Finished == (main = "exited" \/ terminated) /\ UNCHANGED vars

-----------------------------------------------------------------------------
(* The output, on threads of its own.                                      *)

ReleaseFrame(b) ==
  /\ b \in lent
  /\ lent' = lent \ {b}
  /\ Sink!Release
  /\ Stream!ReleaseFrame(b)
  /\ UNCHANGED mainVars

OutputClosed ==
  /\ lent = {}
  /\ Sink!Close
  /\ UNCHANGED <<streamVars, mainVars>>

-----------------------------------------------------------------------------

PipeWire == Stream!LoopThread /\ UNCHANGED <<sinkVars, mainVars>>

Start == Construct \/ ConstructFails

Handle == Build \/ BuildFails \/ PushFrame \/ PushFrameThrows

Loop == PollStream \/ PollSignal \/ NextEventCheck \/ NextEvent \/ Handle \/ LeaveLoop

Unwind == CloseOutput \/ DestroyStream \/ Exit

Output == (\E b \in Buffers : ReleaseFrame(b)) \/ OutputClosed

Next ==
  \/ PipeWire
  \/ Signal
  \/ RequestScreen
  \/ Start
  \/ Loop
  \/ PollFails
  \/ Unwind
  \/ Output
  \/ Finished

Spec == Init /\ [][Next]_vars

\* The main thread goes on, but the user need not answer the request; an output
\* that is being destroyed comes to an end (DestructorEnds of FFmpegOutput); and
\* the loop thread of the stream serves what is ready, as in PipeWireStream.
Fairness ==
  /\ WF_vars(Start)
  /\ WF_vars(Loop)
  /\ WF_vars(Unwind)
  /\ WF_vars(status = "closing" /\ Output)
  /\ WF_vars(Stream!EnqueueEvent /\ UNCHANGED <<sinkVars, mainVars>>)
  /\ SF_vars(Stream!RunInvoked /\ UNCHANGED <<sinkVars, mainVars>>)

FairSpec == Spec /\ Fairness

-----------------------------------------------------------------------------
(* Properties                                                              *)

\* Types of the variables of main(); it has an event in hand just while it
\* handles it.
TypeOK ==
  /\ lent \subseteq Buffers
  /\ status \in {"none", "open", "closing", "closed"}
  /\ main \in {"request", "construct", "poll", "event", "handle", "thrown", "unwind", "exited"}
  /\ hand \in Seq(Stream!Events) /\ Len(hand) = IF main = "handle" THEN 1 ELSE 0
  /\ shouldStop \in BOOLEAN
  /\ signalled \in BOOLEAN
  /\ built \in Seq(Stream!Offered)
  /\ share \in {"none", "open", "dropped"}

\* The program keeps to what PipeWireStream.hpp asks of its users: however it
\* ends, nothing polls the stream and no frame of it is left when it is
\* destroyed.
StreamSpec == Stream!Spec

\* A frame in memory although its format has a modifier.  The stream allows
\* it, while the isDmaBuf of Connected promises that frames are DMA-BUFs.
MemoryForModifier(e) == e.kind = "memory" /\ e.format.modifier

\* main() dereferences its output for each frame, of either kind: there is one,
\* it was built for the format of the frame, and it takes frames of this kind.
\* The frames just named are the only ones that an output gets and cannot take.
OnlyMemoryMisfits ==
  main = "handle" /\ Stream!IsFrame(hand[1])
    => /\ status = "open"
       /\ built[Len(built)] = hand[1].format
       /\ \/ hand[1].kind = InputKind(built[Len(built)])
          \/ MemoryForModifier(hand[1])

\* No output is built while another one exists: both would have the file at
\* the output path open, and the old one would write its trailer into the
\* file of the new one.
OneOutput == Len(built) <= 1

\* A buffer that nextEvent() handed out is either in the output or in hand:
\* no way through the loop, or out of it, loses one.
FramesAccountedFor ==
  {b \in Buffers : where[b] = "client"}
    = lent \cup {hand[i].buffer : i \in {j \in DOMAIN hand : Stream!IsFrame(hand[j])}}

\* No step of main() loses or doubles the event in its hand, or the frame in it.
FramesInv == TypeOK /\ FramesAccountedFor

\* The connection of the shared screen, which ends the session when it closes,
\* outlives everything that gets frames of the session.
SharedWhileUsed == loop \in {"idle", "enqueue"} \/ lent # {} => share = "open"

\* Once the request is answered SIGINT or SIGTERM ends the program, whatever
\* the stream does: also if it failed in a way that makes no event.
SignalEnds == signalled /\ main # "request" ~> main = "exited" \/ terminated

\* So does the end of a stream that the program records.
LostStreamEnds ==
  status = "open" /\ pw # "streaming" ~> main = "exited" \/ terminated
=============================================================================
