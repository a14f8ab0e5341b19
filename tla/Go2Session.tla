----------------------------- MODULE Go2Session -----------------------------
(***************************************************************************)
(* A control session on a Go2: the session thread of ControlSession        *)
(* against the writer and LowState threads of Go2Robot, as HardwareRuntime *)
(* runs it.  The controller is any controller.                             *)
(***************************************************************************)
EXTENDS Go2Robot, ControlSession

vars == <<robot, session>>

Init == RobotInit /\ SessionInit

-----------------------------------------------------------------------------
(* start(): the robot is read before and after it is enabled.              *)

Open == Proceed("open", "first_state") /\ OpenChannels
OpenRefused == Raise("open", "backend_error") /\ UNCHANGED robot
FirstState == Proceed("first_state", "read") /\ OpenDone
NoFirstState == Raise("first_state", "backend_error") /\ UNCHANGED robot

EnableOutput == Proceed("enable", "reread") /\ Enable
EnableRefused ==
  /\ emergency \/ fault # "none" \/ stopped
  /\ Raise("enable", IF emergency THEN "emergency_stop" ELSE "backend_enable_error")
  /\ UNCHANGED robot

\* The calls that read the state, and the health checks that follow them.
Reads  == {<<"read", "check">>, <<"reread", "recheck">>, <<"poll", "poll_check">>}
Checks == {<<"check", "enable">>, <<"recheck", "poll">>, <<"poll_check", "decide">>,
           <<"verify", "poll">>}

\* _read_state: the sample's age is checked too.
ReadState == \E r \in Reads :
  /\ Readable /\ sample = "fresh" /\ Proceed(r[1], r[2]) /\ UNCHANGED robot
ReadFails == \E r \in Reads :
  /\ ~Readable \/ sample = "stale"
  /\ Raise(r[1], IF invalid THEN "backend_read_error"
                 ELSE IF emergency THEN "emergency_stop"
                 ELSE IF fault = "error" THEN "backend_read_error" ELSE "state_timeout")
  /\ UNCHANGED robot
CheckHealth == \E c \in Checks : Healthy /\ Proceed(c[1], c[2]) /\ UNCHANGED robot
CheckFails  == \E c \in Checks :
  ~Healthy /\ Raise(c[1], "backend_unhealthy") /\ UNCHANGED robot

-----------------------------------------------------------------------------
(* tick(): the controller gives a command, nothing, an error, or is done.  *)

Decide ==
  /\ \/ Proceed("decide", "write") \/ Proceed("decide", "verify")
     \/ Raise("decide", "controller_error")
     \/ \E ok \in BOOLEAN : Finish("decide", ok)
  /\ UNCHANGED robot

WriteCommand == Proceed("write", "verify") /\ Write
WriteRefused ==
  /\ WriteFails
  /\ Raise("write", IF emergency THEN "emergency_stop" ELSE "backend_write_error")

InterruptSession == Interrupt /\ UNCHANGED robot

-----------------------------------------------------------------------------
(* stop(): robot.stop and robot.close, each whatever the other did.  Ctrl-C *)
(* in the middle of a call counts as its failure.                          *)

\* A call of robot.stop() at from: it returns at next, or waits at wait.
StopRobot(from, wait, next) ==
  IF stopped THEN Proceed(from, next) /\ UNCHANGED robot
  ELSE Stop /\ Proceed(from, IF WriterAlive THEN wait ELSE next)

StopCall      == StopRobot("stop", "stop_wait", "close")
StopReturns   == attempted /\ Proceed("stop_wait", "close") /\ UNCHANGED robot
StopGivesUp   == ~attempted /\ CleanupFails("stop_wait", "close") /\ UNCHANGED robot
StopCancelled == CleanupFails("stop", "close") /\ UNCHANGED robot

\* close() stops first: that only matters when the stop before was cut short.
CloseCall   == ~stopped /\ StopRobot("close", "close_wait", "close")
CloseWaited ==
  /\ \/ stopped /\ Proceed("close", "join")
     \/ attempted /\ Proceed("close_wait", "join")
     \/ ~attempted /\ CleanupFails("close_wait", "join")
  /\ Shutdown
Join       == CloseChannels /\ (Proceed("join", "done") \/ CleanupFails("join", "done"))
JoinFails  == JoinTimesOut /\ CleanupFails("join", "done")

SessionStep ==
  \/ Open \/ OpenRefused \/ FirstState \/ NoFirstState
  \/ ReadState \/ ReadFails \/ CheckHealth \/ CheckFails
  \/ EnableOutput \/ EnableRefused
  \/ Decide \/ WriteCommand \/ WriteRefused \/ InterruptSession
  \/ StopCall \/ StopReturns \/ StopGivesUp \/ StopCancelled
  \/ CloseCall \/ CloseWaited \/ Join \/ JoinFails

Environment == Age \/ LowStateInvalid \/ \E pressed \in BOOLEAN : LowState(pressed)

Next ==
  \/ SessionStep
  \/ (Writer \/ Environment) /\ UNCHANGED session

\* The writer is a thread of its own and a DDS write returns in the end; the
\* session's thread goes on as well.
Fairness == WF_vars(Writer /\ UNCHANGED session) /\ WF_vars(SessionStep)

Spec == Init /\ [][Next]_vars /\ Fairness

-----------------------------------------------------------------------------
(* Properties.                                                             *)

TypeOK == RobotTypeOK /\ SessionTypeOK

(* The robot keeps the promise of MotorBus: the output is latched off by   *)
(* stop(), by the remote's emergency button and by every fault, nothing    *)
(* the session does opens it again, and from then on the writer picks      *)
(* damping frames only (go2/robot.py:346-368, 420-423, 483-494, 532-551).  *)
Bus == INSTANCE MotorBus WITH latched <- stopped \/ emergency \/ fault # "none"
RefinesBus == Bus!Spec

(* The emergency button takes the output over for good, without the       *)
(* session's help and even if it never reads again: in the end the writer  *)
(* tries damping frames only, and as long as no write has failed a damping *)
(* frame is what the motors have (go2/robot.py:420-423, 532-551).          *)
EmergencyDamps ==
  emergency ~> [](tried # "active" /\ (fault = "none" => handed # "active"))

(* A run reported as successful has closed the channels behind a writer    *)
(* that has ended, and the last frame that writer tried was damping.  It   *)
(* reached the motors unless a write failed, and then the fault is latched *)
(* (control.py:285-309, go2/robot.py:346-401, 532-551).                    *)
SuccessEndsOutput ==
  Succeeded => /\ wpc = "dead" /\ closed /\ tried = "damping"
               /\ fault = "none" => handed = "damping"
=============================================================================
