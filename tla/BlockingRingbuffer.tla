------------------------- MODULE BlockingRingbuffer -------------------------
(***************************************************************************)
(* The queue between the threads of the FFmpeg module                      *)
(* (FFMPEGModule/BlockingRingbuffer.hpp): a std::vector with an index of   *)
(* its oldest live element, a mutex and a condition variable.              *)
(*                                                                         *)
(* One step is one critical section: every access to the vector, the index *)
(* and eof is made while the mutex is held, so sections do not interleave  *)
(* inside.  notify_all() is called after the mutex is released and is a    *)
(* step of its own.  The n-th frame enqueued is the number n; an element   *)
(* that has been moved from is Moved.                                      *)
(***************************************************************************)
EXTENDS Integers, Sequences

CONSTANTS
  Producers,   \* threads that call enqueue()
  Consumers,   \* threads that call dequeue() in a loop until EndOfBuffer
  Closer,      \* the thread that calls signalEOF()
  Capacity,    \* template argument of the class
  MinCompact,  \* 128 in the code: dead slots tolerated before the vector is compacted
  MaxFrames    \* bound on the number of enqueue() calls

ASSUME ThreadsAssumption ==
  /\ Producers \cap Consumers = {}
  /\ Closer \notin Producers \cup Consumers

ASSUME SizesAssumption ==
  /\ Capacity \in Nat
  /\ MinCompact \in Nat
  /\ MaxFrames \in Nat

VARIABLES
  ring,     \* the fields ringBuffer and tailIndex: the first tailIndex slots
            \* of the vector are dead, the others live
  eof,
  pc,       \* where each thread is
  pushed,   \* history: number of frames enqueued
  taken     \* history: the frame that dequeue() returned last, 0 if none

vars == <<ring, eof, pc, pushed, taken>>

Threads == Producers \cup Consumers \cup {Closer}

\* The value left in a slot whose frame was moved out: a null pointer.
Moved == 0

-----------------------------------------------------------------------------
(* Operations on the vector and its index.                                 *)

Size(r) == Len(r.ringBuffer) - r.tailIndex

\* The frames that wait, oldest first.
Live(r) == SubSeq(r.ringBuffer, r.tailIndex + 1, Len(r.ringBuffer))

\* ringBuffer[tailIndex], an index that counts from 0.
Oldest(r) == r.ringBuffer[r.tailIndex + 1]

PushBack(r, f) ==
  [ringBuffer |-> Append(r.ringBuffer, f), tailIndex |-> r.tailIndex]

\* std::move out of ringBuffer[tailIndex]; ++tailIndex
MoveOut(r) ==
  [ringBuffer |-> [r.ringBuffer EXCEPT ![r.tailIndex + 1] = Moved],
   tailIndex  |-> r.tailIndex + 1]

\* Mutant: the index is not reset when the dead slots are erased.
EraseDeadKeepingIndex(r) == [r EXCEPT !.ringBuffer = Live(r)]

\* Erase the dead slots; the oldest live frame is the first slot again.
EraseDead(r) == [ringBuffer |-> Live(r), tailIndex |-> 0]

CompactAt == IF Capacity > MinCompact THEN Capacity ELSE MinCompact

\* Mutant: a full queue keeps what it has and loses the new frame.
EnqueuedDroppingNew(r, f) == IF Size(r) >= Capacity THEN r ELSE PushBack(r, f)

\* enqueue(): append, and discard the oldest live frame if that made one too
\* many.  The slot of a discarded frame is not reclaimed here.
Enqueued(r, f) ==
  IF Size(PushBack(r, f)) > Capacity
  THEN MoveOut(PushBack(r, f))
  ELSE PushBack(r, f)

\* Mutant: the vector is never compacted.
DequeuedNeverCompacting(r) == MoveOut(r)

\* dequeue(): move the oldest frame out, and compact once in a while.
Dequeued(r) ==
  IF r.tailIndex + 1 > CompactAt THEN EraseDead(MoveOut(r)) ELSE MoveOut(r)

\* Mutant: the wait loop does not look at eof.
MustWaitIgnoringEof == Size(ring) = 0

\* The condition of the wait loop in dequeue().
MustWait == Size(ring) = 0 /\ ~eof

-----------------------------------------------------------------------------

Init ==
  /\ ring = [ringBuffer |-> <<>>, tailIndex |-> 0]
  /\ eof = FALSE
  /\ pc = [t \in Threads |-> IF t \in Consumers THEN "ready" ELSE "idle"]
  /\ pushed = 0
  /\ taken = 0

Goto(t, label) == pc' = [pc EXCEPT ![t] = label]

\* The critical section of enqueue().
EnqueuePush(p) ==
  /\ pc[p] = "idle"
  /\ pushed < MaxFrames
  /\ ring' = Enqueued(ring, pushed + 1)
  /\ pushed' = pushed + 1
  /\ Goto(p, "notify")
  /\ UNCHANGED <<eof, taken>>

\* The critical section of signalEOF().
SignalEOF ==
  /\ pc[Closer] = "idle"
  /\ eof' = TRUE
  /\ Goto(Closer, "notify")
  /\ UNCHANGED <<ring, pushed, taken>>

\* Mutant: nobody is notified.
AfterNoNotify(label) == label

\* What notify_all() does to a thread: one that waits will test the condition
\* of its loop again.
AfterNotify(label) == IF label = "waiting" THEN "ready" ELSE label

\* readySignal.notify_all() at the end of enqueue() or signalEOF().
NotifyAll(t) ==
  /\ pc[t] = "notify"
  /\ pc' = [x \in Threads |->
              IF x # t THEN AfterNotify(pc[x])
              ELSE IF t = Closer THEN "done" ELSE "idle"]
  /\ UNCHANGED <<ring, eof, pushed, taken>>

\* dequeue() finds nothing: it releases the mutex and waits, in one step.
DequeueWait(c) ==
  /\ pc[c] = "ready"
  /\ MustWait
  /\ Goto(c, "waiting")
  /\ UNCHANGED <<ring, eof, pushed, taken>>

\* A condition variable may wake up without a notification.
SpuriousWakeup(c) ==
  /\ pc[c] = "waiting"
  /\ Goto(c, "ready")
  /\ UNCHANGED <<ring, eof, pushed, taken>>

\* dequeue() returns EndOfBuffer, even when frames are left.
DequeueEnd(c) ==
  /\ pc[c] = "ready"
  /\ ~MustWait
  /\ eof
  /\ Goto(c, "ended")
  /\ UNCHANGED <<ring, eof, pushed, taken>>

\* Mutant: frames are handed out although eof was signalled.
DequeueTakeAfterEof(c) ==
  /\ pc[c] = "ready"
  /\ Size(ring) > 0
  /\ taken' = Oldest(ring)
  /\ ring' = Dequeued(ring)
  /\ Goto(c, "busy")
  /\ UNCHANGED <<eof, pushed>>

\* dequeue() returns a frame.
DequeueTake(c) ==
  /\ pc[c] = "ready"
  /\ ~MustWait
  /\ ~eof
  /\ taken' = Oldest(ring)
  /\ ring' = Dequeued(ring)
  /\ Goto(c, "busy")
  /\ UNCHANGED <<eof, pushed>>

\* The consumer is done with its frame and calls dequeue() again.
CallAgain(c) ==
  /\ pc[c] = "busy"
  /\ Goto(c, "ready")
  /\ UNCHANGED <<ring, eof, pushed, taken>>

\* Every thread is through; nothing happens any more.
Finished ==
  /\ pc[Closer] = "done"
  /\ pushed = MaxFrames
  /\ \A p \in Producers : pc[p] = "idle"
  /\ \A c \in Consumers : pc[c] = "ended"
  /\ UNCHANGED vars

Next ==
  \/ \E p \in Producers : EnqueuePush(p)
  \/ SignalEOF
  \/ \E t \in Threads : NotifyAll(t)
  \/ \E c \in Consumers : DequeueWait(c)
  \/ \E c \in Consumers : SpuriousWakeup(c)
  \/ \E c \in Consumers : DequeueEnd(c)
  \/ \E c \in Consumers : DequeueTake(c)
  \/ \E c \in Consumers : CallAgain(c)
  \/ Finished

Spec == Init /\ [][Next]_vars

\* A thread inside enqueue(), dequeue() or signalEOF() finishes the section
\* it is in: the scheduler runs it and the mutex is granted to it.  Nobody is
\* obliged to call enqueue() or signalEOF(), to be done with a frame, or to
\* wake up spuriously.
Fairness ==
  /\ \A t \in Threads : WF_vars(NotifyAll(t))
  /\ \A c \in Consumers : WF_vars(DequeueWait(c) \/ DequeueEnd(c) \/ DequeueTake(c))

FairSpec == Spec /\ Fairness

-----------------------------------------------------------------------------
(* Properties                                                              *)

Labels == {"idle", "notify", "ready", "waiting", "busy", "ended", "done"}

\* Types of the variables.  The index never passes the end of the vector, so
\* that size(), an unsigned subtraction, does not wrap around.
TypeOK ==
  /\ ring \in [ringBuffer : Seq(Nat), tailIndex : Nat]
  /\ ring.tailIndex <= Len(ring.ringBuffer)
  /\ eof \in BOOLEAN
  /\ pc \in [Threads -> Labels]
  /\ \A p \in Producers : pc[p] \in {"idle", "notify"}
  /\ \A c \in Consumers : pc[c] \in {"ready", "waiting", "busy", "ended"}
  /\ pc[Closer] \in {"idle", "notify", "done"}
  /\ pushed \in 0 .. MaxFrames
  /\ taken \in 0 .. pushed

\* The live slots of r hold consecutive frames of which n is the last.
NumberedUpTo(r, n) ==
  \A i \in r.tailIndex + 1 .. Len(r.ringBuffer) :
    r.ringBuffer[i] = n - Len(r.ringBuffer) + i

\* The live slots hold the last frames enqueued, in order and without a gap,
\* and each of them is newer than any frame handed out.  So dequeue() never
\* returns a frame that was moved from, discarded or returned before.
LiveAreNewest ==
  /\ NumberedUpTo(ring, pushed)
  /\ taken <= pushed - Size(ring)

\* No more than Capacity frames are kept.
SizeBounded == Size(ring) <= Capacity

\* Dead slots are only reclaimed by dequeue().  Beyond the CompactAt slots it
\* tolerates, the vector holds one dead slot for every frame that was
\* discarded since the last one was handed out, and no other.
DeadSlotsBounded ==
  ring.tailIndex <= CompactAt + (pushed - Size(ring) - taken)

\* A thread that waits although there is something for it to do is about to be
\* notified: no wakeup is lost between a test of the condition and the wait.
NoLostWakeup ==
  (\E c \in Consumers : pc[c] = "waiting") /\ (Size(ring) > 0 \/ eof)
    => \E t \in Threads : pc[t] = "notify"

\* dequeue() hands out frames in the order they were enqueued, each at most
\* once, and never one that is Capacity or more frames behind the newest.
TakenInOrderAndFresh ==
  [][taken' # taken => taken' > taken /\ taken' > pushed - Capacity]_vars

\* Once EOF was signalled, every consumer that is inside dequeue() gets out of
\* it with EndOfBuffer.  ~ThreadedWrapper relies on it to join its thread.
EofReleases ==
  \A c \in Consumers : eof /\ pc[c] \in {"ready", "waiting"} ~> pc[c] = "ended"

\* The class implements the queue its users see.
Queue == INSTANCE DroppingQueue WITH queue <- Live(ring), closed <- eof

QueueSpec == Queue!Spec
=============================================================================
