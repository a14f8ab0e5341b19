------------------------------ MODULE Go2Robot ------------------------------
(***************************************************************************)
(* UnitreeGo2Robot (go2/robot.py): three threads share its fields under    *)
(* one condition.  The session thread calls the RobotInterface methods,    *)
(* the SDK's thread delivers LowState messages, and the command writer     *)
(* publishes one LowCmd frame per period, outside the lock.  One step is   *)
(* one critical section, or one call of the transport.                     *)
(*                                                                         *)
(* A command is a frame that moves the robot ("active") or the damping     *)
(* frame.  Clocks are left out: a sample or a command may expire at any    *)
(* time.  The writer's wake-up flag only shortens its wait, so waking is   *)
(* always possible here.  A write may fail: the frame is then lost, but it *)
(* counts as an attempt all the same.                                      *)
(***************************************************************************)

CONSTANT Nothing \* no frame

ASSUME NothingAssumption == Nothing \notin {"active", "damping"}

VARIABLES
  opened, enabled, stopped, closed, \* _opened, _enabled, _stopped, _closed
  subscribed,  \* the LowState channel delivers to _low_state_handler
  sample,      \* _latest_state: "none", or "fresh" or "stale"
  invalid,     \* _callback_error is not None
  emergency,   \* _emergency_stop
  pending,     \* _pending_command: "none", or "fresh" or "stale"
  fault,       \* _writer_error: "none", or its class
  shutdown,    \* _writer_shutdown
  wpc,         \* where the writer thread is
  leaving,     \* the writer's shutting_down
  carried,     \* the frame it has picked
  tried,       \* the frame the writer last tried to write
  handed,      \* the frame last written: what the motors go by
  attempted    \* _damping_attempts has grown since stop() read it

gates  == <<opened, enabled, stopped, closed>>
inputs == <<subscribed, sample, invalid, emergency>>
writer == <<wpc, leaving, carried, tried, handed>>
robot  == <<gates, inputs, pending, fault, shutdown, writer, attempted>>

RobotTypeOK ==
  /\ opened \in BOOLEAN /\ enabled \in BOOLEAN /\ stopped \in BOOLEAN /\ closed \in BOOLEAN
  /\ subscribed \in BOOLEAN /\ invalid \in BOOLEAN /\ emergency \in BOOLEAN
  /\ sample \in {"none", "fresh", "stale"} /\ pending \in {"none", "fresh", "stale"}
  /\ fault \in {"none", "timeout", "error"}
  /\ shutdown \in BOOLEAN /\ leaving \in BOOLEAN /\ attempted \in BOOLEAN
  /\ wpc \in {"none", "wait", "pick", "publish", "account", "dead"}
  /\ carried \in {Nothing, "active", "damping"}
  /\ tried \in {"silent", "active", "damping"} /\ handed \in {"silent", "active", "damping"}
  \* a command waits only for an output that is on, a frame only in publish
  /\ pending # "none" => enabled /\ ~stopped
  /\ carried # Nothing <=> wpc = "publish"

RobotInit ==
  /\ opened = FALSE /\ enabled = FALSE /\ stopped = FALSE /\ closed = FALSE
  /\ subscribed = FALSE /\ sample = "none" /\ invalid = FALSE /\ emergency = FALSE
  /\ pending = "none" /\ fault = "none" /\ shutdown = FALSE
  /\ wpc = "none" /\ leaving = FALSE /\ carried = Nothing
  /\ tried = "silent" /\ handed = "silent" /\ attempted = FALSE

WriterAlive == wpc \notin {"none", "dead"}

\* health()
Healthy == opened /\ ~closed /\ ~stopped /\ ~emergency /\ fault = "none"

-----------------------------------------------------------------------------
(* The watchdog.                                                           *)

\* _check_writer_health_locked finds something to latch, and what.
Expired ==
  /\ enabled /\ ~stopped /\ ~emergency
  /\ invalid \/ sample = "stale" \/ pending = "stale"
Finding == IF invalid THEN "error" ELSE "timeout"

\* _latch_writer_fault_locked keeps the first fault.
LatchFault(why) ==
  /\ fault' = IF fault = "none" THEN why ELSE fault
  /\ enabled' = FALSE /\ pending' = "none"

\* Time passes: the last sample, or the command waiting, is too old.
Age ==
  /\ \/ sample = "fresh" /\ sample' = "stale" /\ UNCHANGED pending
     \/ pending = "fresh" /\ pending' = "stale" /\ UNCHANGED sample
  /\ UNCHANGED <<gates, subscribed, invalid, emergency, fault, shutdown, writer, attempted>>

-----------------------------------------------------------------------------
(* _low_state_handler, on the SDK's thread.  A message with a wrong        *)
(* checksum changes nothing.                                               *)

LowStateInvalid ==
  /\ subscribed /\ invalid' = TRUE
  /\ UNCHANGED <<gates, subscribed, sample, emergency, pending, fault, shutdown, writer, attempted>>

\* Mutant: the emergency lasts as long as the button is pressed.
LowStateUnlatched(pressed) ==
  /\ subscribed /\ sample' = "fresh"
  /\ emergency' = pressed
  /\ pending' = IF pressed THEN "none" ELSE pending
  /\ UNCHANGED <<gates, subscribed, invalid, fault, shutdown, writer, attempted>>

LowState(pressed) ==
  /\ subscribed /\ sample' = "fresh"
  /\ emergency' = (emergency \/ pressed)
  /\ pending' = IF pressed THEN "none" ELSE pending
  /\ UNCHANGED <<gates, subscribed, invalid, fault, shutdown, writer, attempted>>

-----------------------------------------------------------------------------
(* _command_writer_loop and _publish_pending_once.                         *)

WriterWake ==
  /\ wpc = "wait" /\ wpc' = "pick" /\ leaving' = shutdown
  /\ UNCHANGED <<gates, inputs, pending, fault, shutdown, carried, tried, handed, attempted>>

\* Mutant: the writer tests the switches before the watchdog has run.
PickUnchecked ==
  /\ wpc = "pick" /\ wpc' = "publish"
  /\ IF Expired THEN LatchFault(Finding) ELSE UNCHANGED <<fault, enabled, pending>>
  /\ carried' = IF pending # "none" THEN "active" ELSE "damping"
  /\ UNCHANGED <<opened, stopped, closed, inputs, shutdown, leaving, tried, handed, attempted>>

\* The watchdog runs, then the frame is chosen in the same critical section.
WriterPick ==
  /\ wpc = "pick" /\ wpc' = "publish"
  /\ IF Expired THEN LatchFault(Finding) ELSE UNCHANGED <<fault, enabled, pending>>
  /\ carried' = IF pending' # "none" /\ enabled' /\ ~stopped /\ ~emergency /\ fault' = "none"
                THEN "active" ELSE "damping"
  /\ UNCHANGED <<opened, stopped, closed, inputs, shutdown, leaving, tried, handed, attempted>>

\* Mutant: a write that fails is passed over in silence.
WriterPublishUnlatched ==
  /\ wpc = "publish" /\ wpc' = "account"
  /\ tried' = carried /\ carried' = Nothing
  /\ handed' \in {carried, handed}
  /\ UNCHANGED <<gates, inputs, pending, fault, shutdown, leaving, attempted>>

\* The transport call, outside the lock: the frame is written, or Write raises
\* or refuses it, which is a fault.
WriterPublish ==
  /\ wpc = "publish" /\ wpc' = "account"
  /\ tried' = carried /\ carried' = Nothing
  /\ \/ handed' = carried /\ UNCHANGED <<fault, enabled, pending>>
     \/ LatchFault("error") /\ UNCHANGED handed
  /\ UNCHANGED <<opened, stopped, closed, inputs, shutdown, leaving, attempted>>

\* A damping frame counts as an attempt, written or not.
WriterAccount ==
  /\ wpc = "account" /\ wpc' = IF leaving THEN "dead" ELSE "wait"
  /\ attempted' = (attempted \/ tried = "damping")
  /\ UNCHANGED <<gates, inputs, pending, fault, shutdown, leaving, carried, tried, handed>>

Writer == WriterWake \/ WriterPick \/ WriterPublish \/ WriterAccount

-----------------------------------------------------------------------------
(* The RobotInterface methods, on the session thread.                      *)

\* open(): channels, the first valid state, then the writer.
OpenChannels ==
  /\ ~opened /\ subscribed' = TRUE
  /\ UNCHANGED <<gates, sample, invalid, emergency, pending, fault, shutdown, writer, attempted>>
OpenDone ==
  /\ sample # "none" /\ ~invalid
  /\ opened' = TRUE /\ enabled' = FALSE /\ stopped' = FALSE /\ closed' = FALSE
  /\ shutdown' = FALSE /\ wpc' = "wait"
  /\ UNCHANGED <<inputs, pending, fault, leaving, carried, tried, handed, attempted>>

Readable == ~invalid /\ ~emergency /\ fault = "none"

Enable ==
  /\ ~emergency /\ fault = "none" /\ ~stopped /\ enabled' = TRUE
  /\ UNCHANGED <<opened, stopped, closed, inputs, pending, fault, shutdown, writer, attempted>>

Write ==
  /\ ~emergency /\ ~Expired /\ fault = "none" /\ enabled /\ ~stopped
  /\ pending' = "fresh"
  /\ UNCHANGED <<gates, inputs, fault, shutdown, writer, attempted>>
\* It raises; the watchdog may latch on the way.
WriteFails ==
  /\ emergency \/ Expired \/ fault # "none" \/ ~enabled \/ stopped
  /\ IF Expired THEN LatchFault(Finding) ELSE UNCHANGED <<fault, enabled, pending>>
  /\ UNCHANGED <<opened, stopped, closed, inputs, shutdown, writer, attempted>>

\* Mutant: stop() leaves the command in its slot.
StopKeepingCommand ==
  /\ ~stopped /\ stopped' = TRUE /\ enabled' = FALSE
  /\ attempted' = FALSE
  /\ UNCHANGED <<opened, closed, inputs, pending, fault, shutdown, writer>>

\* stop(): first its critical section, then the wait for a damping attempt.
Stop ==
  /\ ~stopped /\ stopped' = TRUE /\ enabled' = FALSE /\ pending' = "none"
  /\ attempted' = FALSE
  /\ UNCHANGED <<opened, closed, inputs, fault, shutdown, writer>>

\* close(): _writer_shutdown.set(); then, the writer gone, the channels.
Shutdown ==
  /\ shutdown' = TRUE
  /\ UNCHANGED <<gates, inputs, pending, fault, writer, attempted>>
\* Mutant: the channels are closed without looking for the writer.
CloseUnjoined ==
  /\ closed' = TRUE /\ subscribed' = FALSE
  /\ UNCHANGED <<opened, enabled, stopped, sample, invalid, emergency, pending, fault, shutdown,
                 writer, attempted>>
CloseChannels ==
  /\ ~WriterAlive /\ closed' = TRUE /\ subscribed' = FALSE
  /\ UNCHANGED <<opened, enabled, stopped, sample, invalid, emergency, pending, fault, shutdown,
                 writer, attempted>>
\* The writer is still blocked when the join gives up.
JoinTimesOut ==
  /\ WriterAlive /\ LatchFault("timeout")
  /\ UNCHANGED <<opened, stopped, closed, inputs, shutdown, writer, attempted>>
=============================================================================
