----------------------------- MODULE CInterface -----------------------------
(***************************************************************************)
(* The C interface of the library (end of PipeWireStream.cpp and of        *)
(* xdg-desktop-portal.cpp, include/).  A C program asks for a screen,      *)
(* connects a stream to it, gets events, frees the frames in them, and     *)
(* gives stream and screen up.  An exception becomes NULL or -1.           *)
(*                                                                         *)
(* What the C++ stream does is an EventStream, which PipeWireStream        *)
(* implements.  A C frame is a structure with a pointer to the C++ frame   *)
(* that it takes over, and to the function that deletes that.              *)
(***************************************************************************)
EXTENDS Integers, Sequences, FiniteSets

CONSTANTS
  Buffers   \* the buffers of the stream

VARIABLES
  screen,       \* the SharedScreen_t: "none", "null", "shared", "dropped"
  stream,       \* the PipeWireStream*: "none", "null", "connected", "freed"
  told,         \* the format that the C++ stream told last, as its enumerator
  cppFrames,    \* the C++ frames that exist, each for a buffer
  cFrames,      \* the C frames that exist
  event,        \* the structure that PipeWireStream_nextEvent() fills
  result        \* what it returned

vars == <<screen, stream, told, cppFrames, cFrames, event, result>>

-----------------------------------------------------------------------------
(* Conversions.                                                            *)

\* The enumerators of common::PixelFormat and of the C enum PixelFormat, in
\* the order of their values.
CppFormat == <<"BGRA", "RGBA", "BGRX", "RGBX">>
CFormat == <<"BGRA", "BGRX", "RGBA", "RGBX">>

\* The value of the C enumerator with the name of the C++ one.
toCFormat(f) == CHOOSE c \in DOMAIN CFormat : CFormat[c] = CppFormat[f]

NoFormat == 0

Kinds == {"memory", "dmabuf"}

CppFrame(kind, b) == [kind |-> kind, buffer |-> b]

\* Mutant: both kinds of frames have the callback for memory.
OnFrameDoneMemory(kind) == "memory"

\* The kind of C++ frame that the callback of a C frame deletes.
OnFrameDone(kind) == kind

CFrame(kind, b) ==
  [kind |-> kind, opaque |-> CppFrame(kind, b), onFrameDone |-> OnFrameDone(kind)]

Init ==
  /\ screen = "none"
  /\ stream = "none" /\ told = NoFormat
  /\ cppFrames = {} /\ cFrames = {}
  /\ event = [type |-> "unset"] /\ result = 0

-----------------------------------------------------------------------------

\* requestPipeWireShareFromPortal()
RequestShare ==
  /\ screen = "none"
  /\ screen' \in {"shared", "null"}
  /\ UNCHANGED <<stream, told, cppFrames, cFrames, event, result>>

\* dropSharedScreen(), whether or not there is a stream.
DropSharedScreen ==
  /\ screen = "shared"
  /\ screen' = "dropped"
  /\ UNCHANGED <<stream, told, cppFrames, cFrames, event, result>>

\* PipeWireStream_connect()
Connect ==
  /\ screen = "shared" /\ stream = "none"
  /\ stream' \in {"connected", "null"}
  /\ UNCHANGED <<screen, told, cppFrames, cFrames, event, result>>

\* PipeWireStream_nextEvent() finds no event.
NoEvent ==
  /\ stream = "connected"
  /\ result' = 0
  /\ UNCHANGED <<screen, stream, told, cppFrames, cFrames, event>>

\* The C++ stream throws.
NextEventFails ==
  /\ stream = "connected"
  /\ result' = -1
  /\ UNCHANGED <<screen, stream, told, cppFrames, cFrames, event>>

\* It returns Connected.
Connected(f) ==
  /\ stream = "connected" /\ told = NoFormat
  /\ told' = f
  /\ event' = [type |-> "connected", format |-> toCFormat(f)]
  /\ result' = 1
  /\ UNCHANGED <<screen, stream, cppFrames, cFrames>>

\* It returns Disconnected.
Disconnected ==
  /\ stream = "connected"
  /\ told' = NoFormat
  /\ event' = [type |-> "disconnected"]
  /\ result' = 1
  /\ UNCHANGED <<screen, stream, cppFrames, cFrames>>

\* Mutant: the converter keeps the frame until it gets the next one.
GivenReplacing(f) == {f}

\* The C++ frames that exist when the event has been converted and is gone: the
\* C frame has taken its frame over.
Given(f) == cppFrames \cup {f}

\* It returns a frame.
FrameReceived(kind, b) ==
  /\ stream = "connected" /\ told # NoFormat
  /\ \A f \in cppFrames : f.buffer # b
  /\ cppFrames' = Given(CppFrame(kind, b))
  /\ cFrames' = cFrames \cup {CFrame(kind, b)}
  /\ event' = [type |-> kind, frame |-> CFrame(kind, b)]
  /\ result' = 1
  /\ UNCHANGED <<screen, stream, told>>

\* freeMemoryFrame() or freeDmaBufFrame(): the callback gets an untyped pointer,
\* and deletes the C++ frame if it is of the kind that it takes it for.
FreeFrame(f) ==
  /\ cppFrames' = cppFrames \ {CppFrame(f.onFrameDone, f.opaque.buffer)}
  /\ cFrames' = cFrames \ {f}
  /\ UNCHANGED <<screen, stream, told, event, result>>

\* PipeWireStream_free(), of a stream without frames as PipeWireStream.hpp asks.
Free ==
  /\ stream = "connected" /\ cFrames = {}
  /\ stream' = "freed"
  /\ UNCHANGED <<screen, told, cppFrames, cFrames, event, result>>

Finished ==
  (screen = "null" \/ (screen = "dropped" /\ stream # "connected")) /\ UNCHANGED vars

Next ==
  \/ RequestShare \/ DropSharedScreen
  \/ Connect \/ Free
  \/ NoEvent \/ NextEventFails
  \/ \E f \in DOMAIN CppFormat : Connected(f)
  \/ Disconnected
  \/ \E kind \in Kinds, b \in Buffers : FrameReceived(kind, b)
  \/ \E f \in cFrames : FreeFrame(f)
  \/ Finished

Spec == Init /\ [][Next]_vars

-----------------------------------------------------------------------------
(* Properties                                                              *)

CppFrames == {CppFrame(kind, b) : kind \in Kinds, b \in Buffers}

\* Types of the variables.  When a call has filled the event there is something
\* in it that fits what the stream told.
TypeOK ==
  /\ screen \in {"none", "null", "shared", "dropped"}
  /\ stream \in {"none", "null", "connected", "freed"}
  /\ told \in DOMAIN CppFormat \cup {NoFormat}
  /\ cppFrames \subseteq CppFrames
  /\ \A f \in cFrames : f.kind \in Kinds /\ f.opaque \in CppFrames
  /\ event.type \in Kinds \cup {"unset", "connected", "disconnected"}
  /\ result \in {-1, 0, 1}
  /\ result = 1 => (event.type = "disconnected" <=> told = NoFormat)

\* A C++ frame is in exactly one C frame, from nextEvent() until that is freed,
\* so that its buffer is given back once, and not before.
FramesTakenOver ==
  /\ cppFrames = {f.opaque : f \in cFrames}
  /\ \A f, g \in cFrames : f.opaque.buffer = g.opaque.buffer => f = g

\* A C program that frees what it gets frees every C++ frame once, as the kind of
\* frame it is, and reads from the event what the call says is in it.
FramesInv == TypeOK /\ FramesTakenOver

\* A C program, too, gets an EventStream, and keeps to its rules.
Stream ==
  INSTANCE EventStream WITH
    Formats <- DOMAIN CppFormat,
    held <- {f.buffer : f \in cppFrames},
    open <- stream # "freed"

StreamSpec == Stream!Spec
=============================================================================
