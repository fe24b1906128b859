--------------------------- MODULE OutputBuilder ----------------------------
(***************************************************************************)
(* The whole life of an output (FFMPEGModule/): Builder::build() makes the *)
(* encoder, the muxer and the scaler one after the other, two of them with *)
(* a thread; FFmpegOutput uses them; its destructor, or the exception that *)
(* ends build(), gives up what they have.                                  *)
(*                                                                         *)
(* FFmpegOutput is the pipeline once it is built.  Here each object is the *)
(* set of things it has to free, and any call that build() makes may fail. *)
(* A constructor that throws runs no destructor: what it stored in its own *)
(* members, which are pointers, is lost.                                   *)
(***************************************************************************)
EXTENDS Integers, Sequences, FiniteSets

CONSTANTS
  Buffers, Capacity, Depth, Times, Strict, TimeBase,   \* those of FFmpegOutput
  IsDrmPrime   \* argument of the Builder: frames come as DMA-BUFs

\* The others are as in FFmpegOutput.
ASSUME BuilderAssumption ==
  /\ IsDrmPrime \in BOOLEAN
  /\ Capacity \in Nat
  /\ Depth \in [{"scaler", "encoder"} -> Nat]
  /\ Times \subseteq Nat
  /\ Strict \in BOOLEAN
  /\ TimeBase \in [num : Nat \ {0}, den : Nat \ {0}]
  /\ IsFiniteSet(Buffers)
  /\ Cardinality(Buffers) > Capacity + Depth["scaler"] + 1
  /\ "gpu" \notin Buffers

VARIABLES
  queue, eof, thread, cur, inner, exc, lent, lastPts, written, threw,
  closing,   \* these are the variables of FFmpegOutput
  phase,     \* "building", "unwinding" after an exception, "failed", "built"
  step,      \* the next step of build(), or the one that failed
  has,       \* the things that each object, or build() itself, has to free
  lost,      \* the things that nobody can free any more
  started,   \* the stages whose thread was started
  file       \* the output: "none", "opened", "header" written, "complete"

Pipeline == INSTANCE FFmpegOutput

pipelineVars == <<queue, eof, thread, cur, inner, exc, lent, lastPts, written, threw, closing>>
buildVars == <<phase, step, has, lost, started, file>>
vars == <<pipelineVars, buildVars>>

-----------------------------------------------------------------------------

\* A step in the making of object o: the things it makes, and the ones that it
\* leaves behind in the members of o if it fails.
Makes(o, things, leaves) == [of |-> o, makes |-> things, leaves |-> leaves, starts |-> FALSE]

\* The last step of a ThreadedWrapper.  When it fails the wrapped object, which
\* is complete, is destroyed.
StartsThread(o) == [of |-> o, makes |-> {}, leaves |-> {}, starts |-> TRUE]

\* VAAPIEncoder() makes a packet, and finds the codec; a pool of frames; and the
\* codec's context.
EncoderSteps == <<
  Makes("encoder", {"packet"}, {"packet"}),
  Makes("encoder", {"framePool"}, {"framePool"}),
  Makes("encoder", {"codec"}, {"codec"}) >>

\* Muxer() makes the context, opens the file, and writes the header.  A container
\* that opens its output itself (AVFMT_NOFILE) is only given the name in the
\* second step, which then cannot fail; its output is what "file" stands for.
MuxerSteps == <<
  Makes("muxer", {"format"}, {}),
  Makes("muxer", {"file"}, {}),
  Makes("muxer", {}, {}) >>

\* VAAPIScaler() makes the graph with its two ends, a pool for frames that come
\* as DMA-BUFs, finds the filter that uploads frames, and configures the graph.
ScalerSteps == <<
  Makes("scaler", {"graph"}, {"graph"}),
  Makes("scaler", IF IsDrmPrime THEN {"sourcePool"} ELSE {}, {}),
  Makes("scaler", {"uploadDevice"}, {}),
  Makes("scaler", {}, {}) >>

\* build() looks at its arguments, opens the devices, and makes the stages.
Steps ==
  << Makes("build", {}, {}), Makes("build", {"drmDevice"}, {}),
     Makes("build", {"vaapiDevice"}, {}) >>
    \o EncoderSteps \o <<StartsThread("encoder")>>
    \o MuxerSteps
    \o ScalerSteps \o <<StartsThread("scaler")>>

\* Mutant: the file is left to the operating system.
FreesButFile ==
  [build |-> {"drmDevice", "vaapiDevice"},
   encoder |-> {"packet", "codec", "framePool"},
   muxer |-> {"format"},
   scaler |-> {"uploadDevice", "sourcePool", "graph"}]

\* What build() frees at its end and each destructor frees.  The frame pool is
\* the codec's, and the pool and the upload device are the graph's.
Frees ==
  [build |-> {"drmDevice", "vaapiDevice"},
   encoder |-> {"packet", "codec", "framePool"},
   muxer |-> {"file", "format"},
   scaler |-> {"uploadDevice", "sourcePool", "graph"}]

\* What object o has when its constructor has thrown: it never existed.
Remains(o) == {}

\* Mutant: the file is closed without a trailer.
CompletedNot == UNCHANGED file

\* ~Muxer() writes the trailer and closes the file.
Completed == file' = "complete"

\* Mutant: the queue is not told.
SignalledNot(s) == eof

\* signalEOF() of the queue of stage s.
Signalled(s) == [eof EXCEPT ![s] = TRUE]

Init ==
  /\ Pipeline!Init
  /\ phase = "building"
  /\ step = 1
  /\ has = [o \in {"build", "encoder", "muxer", "scaler"} |-> {}]
  /\ lost = {}
  /\ started = {}
  /\ file = "none"

-----------------------------------------------------------------------------
(* Builder::build()                                                        *)

BuildStep ==
  /\ phase = "building" /\ step \in DOMAIN Steps
  /\ LET s == Steps[step] IN
       /\ has' = [has EXCEPT ![s.of] = @ \cup s.makes]
       /\ started' = IF s.starts THEN started \cup {s.of} ELSE started
       /\ file' = IF "file" \in s.makes THEN "opened"
                  ELSE IF file = "opened" THEN "header" ELSE file
  /\ step' = step + 1
  /\ UNCHANGED <<pipelineVars, phase, lost>>

\* The locals of build() drop their references to the devices; the frame pools
\* and the graph have references of their own.
Built ==
  /\ phase = "building" /\ step > Len(Steps)
  /\ phase' = "built"
  /\ has' = [has EXCEPT !["build"] = @ \ Frees["build"]]
  /\ UNCHANGED <<pipelineVars, step, lost, started, file>>

\* A step throws.
BuildStepFails ==
  /\ phase = "building" /\ step \in DOMAIN Steps
  /\ phase' = "unwinding"
  /\ LET s == Steps[step] IN
       IF s.of = "build" THEN UNCHANGED <<has, lost>>
       ELSE /\ has' = [has EXCEPT ![s.of] = Remains(s.of)]
            /\ lost' = IF s.starts THEN lost ELSE has[s.of] \cup s.leaves
  /\ UNCHANGED <<pipelineVars, step, started, file>>

\* The muxer is destroyed if it is complete: only the scaler is made later.
UnwindMuxer ==
  /\ phase = "unwinding"
  /\ has["muxer"] # {}
  /\ has' = [has EXCEPT !["muxer"] = @ \ Frees["muxer"]]
  /\ Completed
  /\ UNCHANGED <<pipelineVars, phase, step, lost, started>>

\* Then the encoder, if it is complete.  First the end of its thread, ...
UnwindEncoderSignal ==
  /\ phase = "unwinding"
  /\ has["muxer"] = {} /\ "encoder" \in started /\ ~eof["encoder"]
  /\ eof' = Signalled("encoder")
  /\ UNCHANGED <<queue, thread, cur, inner, exc, lent, lastPts, written, threw,
                 closing, buildVars>>

\* thread.join() of the encoder
EncoderJoined == "encoder" \in started /\ eof["encoder"] /\ thread["encoder"] = "ended"

\* ... then the rest.
UnwindEncoder ==
  /\ phase = "unwinding"
  /\ EncoderJoined
  /\ has["encoder"] # {}
  /\ has' = [has EXCEPT !["encoder"] = @ \ Frees["encoder"]]
  /\ UNCHANGED <<pipelineVars, phase, step, lost, started, file>>

\* The catch block drops the references to the devices and rethrows.
Rethrow ==
  /\ phase = "unwinding"
  /\ \A o \in {"encoder", "muxer"} : has[o] = {}
  /\ phase' = "failed"
  /\ has' = [has EXCEPT !["build"] = @ \ Frees["build"]]
  /\ UNCHANGED <<pipelineVars, step, lost, started, file>>

-----------------------------------------------------------------------------
(* The output in use, and its destructor.                                  *)

StageThread(s) == s \in started /\ Pipeline!StageThread(s) /\ UNCHANGED buildVars

Caller == phase = "built" /\ Pipeline!Caller /\ UNCHANGED buildVars

DestroyBegin == phase = "built" /\ Pipeline!DestroyBegin /\ UNCHANGED buildVars

\* ~FFmpegOutput() frees what each of its members has.
Destroy ==
  /\ phase = "built"
  /\ Pipeline!Destroy
  /\ IF closing' = closing THEN UNCHANGED <<has, file>>
     ELSE LET o == Pipeline!DestructionOrder[closing] IN
            /\ has' = [has EXCEPT ![o] = @ \ Frees[o]]
            /\ IF o = "muxer" THEN Completed ELSE UNCHANGED file
  /\ UNCHANGED <<phase, step, lost, started>>

\* There is no output any more.
Ended == phase = "failed" \/ (phase = "built" /\ Pipeline!Destroyed)

Finished == Ended /\ UNCHANGED vars

Build ==
  \/ BuildStep \/ Built \/ BuildStepFails
  \/ UnwindMuxer \/ UnwindEncoderSignal \/ UnwindEncoder \/ Rethrow

Next ==
  \/ Build
  \/ \E s \in Pipeline!Stages : StageThread(s)
  \/ Caller
  \/ DestroyBegin
  \/ Destroy
  \/ Finished

Spec == Init /\ [][Next]_vars

\* The calls into FFmpeg return, so build(), each thread and the destructor go
\* on; that dequeue() returns is EofReleases of BlockingRingbuffer.  The shared
\* screen goes on delivering frames.
Fairness ==
  /\ WF_vars(Build)
  /\ \A s \in Pipeline!Stages : WF_vars(StageThread(s))
  /\ WF_vars(Destroy)
  /\ WF_vars(Caller)

FairSpec == Spec /\ Fairness

-----------------------------------------------------------------------------
(* Properties                                                              *)

Things ==
  {"drmDevice", "vaapiDevice", "packet", "framePool", "codec", "format", "file", "graph",
   "sourcePool", "uploadDevice"}

\* Types of the variables; a thing is held by one object at most, or lost.
TypeOK ==
  /\ phase \in {"building", "unwinding", "failed", "built"}
  /\ step \in 1 .. Len(Steps) + 1
  /\ has \in [{"build", "encoder", "muxer", "scaler"} -> SUBSET Things]
  /\ \A o, p \in DOMAIN has : o # p => has[o] \cap has[p] = {}
  /\ lost \subseteq Things \ UNION {has[o] : o \in DOMAIN has}
  /\ started \subseteq Pipeline!Stages
  /\ file \in {"none", "opened", "header", "complete"}

\* When there is no output any more, whether build() failed or the output was
\* destroyed, the objects that had been complete have freed everything; only a
\* constructor that threw has lost something, and nothing but its own things.
OnlyThrowerLoses ==
  Ended =>
    /\ \A o \in DOMAIN has : has[o] = {}
    /\ lost # {} => step \in DOMAIN Steps /\ lost \subseteq Frees[Steps[step].of]

\* No thread outlives the output, or a build() that failed: it would use the
\* object it belongs to.
NoThreadLeft == Ended => \A s \in started : thread[s] = "ended"

\* Whatever fails, what is left at the end is what a constructor lost by throwing:
\* no thread, and nothing that a complete object had.
ObjectsInv == TypeOK /\ OnlyThrowerLoses /\ NoThreadLeft

\* A file that a complete muxer wrote a header to has a trailer at the end, also
\* when build() failed because of the scaler.
FileIsCompleted ==
  Ended =>
    \/ file \in {"none", "complete"}
    \/ step \in DOMAIN Steps /\ Steps[step].of = "muxer"

\* build() returns or throws: also when it has to stop the encoder's thread,
\* which has been waiting for frames since before the muxer was made.
BuildEnds == <>(phase \in {"built", "failed"})

\* The destructor ends, whatever the threads are doing.
DestructorEnds == Pipeline!DestructorEnds

\* Neither build() nor the destructor waits for a thread that does not end.
OutputEnds == BuildEnds /\ DestructorEnds

\* A failure of a thread reaches the caller of pushFrame().
FailureIsReported == Pipeline!FailureIsReported
=============================================================================
