------------------------------ MODULE MotorBus ------------------------------
(***************************************************************************)
(* What a robot backend promises of the frames it puts on the motor bus.   *)
(* One writer picks a frame and then publishes it.  Once the output is     *)
(* latched off - by a stop, an emergency or a fault - it picks damping     *)
(* frames only, for good: the one active frame that may still follow is    *)
(* the one already in the writer's hands.  A frame may be lost on the way  *)
(* out, and it is never written a second time.                             *)
(***************************************************************************)

CONSTANT Nothing \* no frame

VARIABLES
  latched, \* the output is off for good
  carried, \* the frame the writer has picked and not yet published
  handed   \* the last frame the transport took

vars == <<latched, carried, handed>>

Frames == {"active", "damping"}

Init == latched = FALSE /\ carried = Nothing /\ handed = "silent"

\* The latch may close in any step and never opens.
Latch == latched' \in BOOLEAN /\ (latched => latched')

Pick ==
  /\ carried = Nothing /\ Latch
  /\ carried' \in Frames /\ (latched' => carried' = "damping")
  /\ UNCHANGED handed

Publish ==
  /\ carried # Nothing /\ Latch
  /\ handed' \in {carried, handed} /\ carried' = Nothing

Next == Pick \/ Publish \/ (Latch /\ UNCHANGED <<carried, handed>>)

Spec == Init /\ [][Next]_vars
=============================================================================
