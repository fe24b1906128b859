--------------------------- MODULE DroppingQueue ---------------------------
(***************************************************************************)
(* What a BlockingRingbuffer promises its users, without its vector, its   *)
(* index, its mutex or its condition variable: a FIFO queue of at most     *)
(* Capacity frames that makes room for a new frame by discarding the       *)
(* oldest one, and that hands out nothing any more once it is closed.      *)
(*                                                                         *)
(* Frames are numbered in the order in which they are pushed.              *)
(***************************************************************************)
EXTENDS Integers, Sequences

CONSTANTS
  Capacity,   \* how many frames the queue keeps
  MaxFrames   \* bound on the number of frames ever pushed

VARIABLES
  queue,      \* the frames waiting, oldest first
  closed,     \* no frame is handed out any more
  pushed,     \* number of frames pushed so far
  taken       \* the frame handed out last, 0 before the first one

qvars == <<queue, closed, pushed, taken>>

Init ==
  /\ queue = <<>>
  /\ closed = FALSE
  /\ pushed = 0
  /\ taken = 0

\* The new frame always enters; the oldest one pays for it.
Newest(q) == IF Len(q) > Capacity THEN Tail(q) ELSE q

Push ==
  /\ pushed < MaxFrames
  /\ pushed' = pushed + 1
  /\ queue' = Newest(Append(queue, pushed + 1))
  /\ UNCHANGED <<closed, taken>>

Pop ==
  /\ ~closed
  /\ queue # <<>>
  /\ taken' = Head(queue)
  /\ queue' = Tail(queue)
  /\ UNCHANGED <<closed, pushed>>

Close ==
  /\ closed' = TRUE
  /\ UNCHANGED <<queue, pushed, taken>>

Next == Push \/ Pop \/ Close

Spec == Init /\ [][Next]_qvars
=============================================================================
