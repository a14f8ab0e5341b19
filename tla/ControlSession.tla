--------------------------- MODULE ControlSession ---------------------------
(***************************************************************************)
(* ControlSession (runtime/control.py) as DeploymentRuntime._run_session   *)
(* (runtime/base.py) drives it: start, one tick per control period, and a  *)
(* stop that runs whatever happened.  The robot's part of each step is in  *)
(* the modules that put a session together with a robot backend.           *)
(***************************************************************************)

VARIABLES
  pc,       \* the call the session makes next
  reason,   \* _reason
  finished, \* _finished
  success   \* _success

session == <<pc, reason, finished, success>>

Starting == {"open", "first_state", "read", "check", "enable", "enable_check", "enable_set",
             "reread", "recheck"}
Ticking  == {"poll", "poll_check", "decide", "write", "verify"}
Cleaning == {"stop", "stop_wait", "close", "close_wait", "close_publish", "join"}

SessionTypeOK ==
  /\ pc \in Starting \cup Ticking \cup Cleaning \cup {"done"}
  /\ reason \in {"completed", "validation_error", "backend_error", "backend_enable_error",
                 "backend_read_error", "backend_write_error", "backend_unhealthy",
                 "state_timeout", "emergency_stop", "passive", "controller_error",
                 "interrupted", "cleanup_error"}
  /\ finished \in BOOLEAN /\ success \in BOOLEAN

SessionInit ==
  /\ pc = "open" /\ reason = "completed"
  /\ finished = FALSE /\ success = FALSE

\* The call at from returned, the one at to is next.
Proceed(from, to) ==
  /\ pc = from /\ pc' = to
  /\ UNCHANGED <<reason, finished, success>>

\* fail() keeps the first reason.
Blame(why) == reason' = IF reason = "completed" THEN why ELSE reason

\* The call at from raised: start or tick calls fail(), the loop is left.
Raise(from, why) ==
  /\ pc = from /\ pc' = "stop" /\ Blame(why)
  /\ UNCHANGED <<finished, success>>

\* The controller is done: the tick returns without a command.
Finish(from, ok) ==
  /\ pc = from /\ pc' = "stop"
  /\ finished' = TRUE /\ success' = ok
  /\ UNCHANGED reason

\* Ctrl-C anywhere between start and stop.
Interrupt ==
  /\ pc \in Starting \cup Ticking
  /\ Raise(pc, "interrupted")

\* A clean-up call at from raised: the next one is made all the same.
CleanupFails(from, to) ==
  /\ pc = from /\ pc' = to /\ Blame("cleanup_error")
  /\ UNCHANGED <<finished, success>>

\* result().success
Succeeded == pc = "done" /\ reason = "completed" /\ finished /\ success
=============================================================================
