----------------------------- MODULE FrameSink ------------------------------
(***************************************************************************)
(* What the program relies on when it hands frames of a shared screen to   *)
(* an output: a frame may stay in the output for a while, and its buffer   *)
(* is lent for so long.  Once the output is destroyed none is lent.        *)
(***************************************************************************)

CONSTANT Buffers   \* the buffers of the stream

VARIABLES
  lent,     \* the buffers whose frames the output has
  status    \* "open", "closing" while its destructor runs, "closed"

Init == lent = {} /\ status = "open"

\* The output takes a frame in buffer b.  It may destroy any of its frames for
\* that, or this one.
Push(b) ==
  /\ status = "open"
  /\ b \notin lent
  /\ lent' \in SUBSET (lent \cup {b})
  /\ UNCHANGED status

\* It is through with some frames.
Release ==
  /\ status # "closed"
  /\ lent' \in SUBSET lent
  /\ UNCHANGED status

\* Its destructor begins.
BeginClose ==
  /\ status = "open"
  /\ status' = "closing"
  /\ UNCHANGED lent

\* Its destructor ends.
Close ==
  /\ status = "closing"
  /\ status' = "closed"
  /\ lent' = {}

Next == (\E b \in Buffers : Push(b)) \/ Release \/ BeginClose \/ Close

Spec == Init /\ [][Next]_<<lent, status>>
=============================================================================
