---------------------------- MODULE EventStream ----------------------------
(***************************************************************************)
(* What a client of a shared screen can rely on, whatever PipeWire does:   *)
(* it is told the format of the stream before the first frame and told     *)
(* when the stream stops, it gets frames only in between, each in a buffer *)
(* that nobody else has, and none is left when the stream is destroyed.    *)
(***************************************************************************)
CONSTANTS
  Buffers,   \* the buffers of the stream
  Formats,   \* the formats it may have
  NoFormat   \* none of Formats: not connected

VARIABLES
  told,   \* the format that clients were told last, NoFormat after Disconnected
  held,   \* the buffers whose frames clients have
  open    \* the stream is not being destroyed

Init == told = NoFormat /\ held = {} /\ open = TRUE

Connected(f) == open /\ told = NoFormat /\ told' = f /\ UNCHANGED <<held, open>>

Disconnected == open /\ told' = NoFormat /\ UNCHANGED <<held, open>>

Frame(b) ==
  /\ open
  /\ told # NoFormat
  /\ b \notin held
  /\ held' = held \cup {b}
  /\ UNCHANGED <<told, open>>

Release(b) == b \in held /\ held' = held \ {b} /\ UNCHANGED <<told, open>>

Close == open /\ held = {} /\ open' = FALSE /\ UNCHANGED <<told, held>>

Next ==
  \/ \E f \in Formats : Connected(f)
  \/ Disconnected
  \/ \E b \in Buffers : Frame(b) \/ Release(b)
  \/ Close

Spec == Init /\ [][Next]_<<told, held, open>>
=============================================================================
