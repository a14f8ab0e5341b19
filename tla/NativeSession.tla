---------------------------- MODULE NativeSession ----------------------------
(***************************************************************************)
(* A control session on a G1 over the native backend: the session thread of *)
(* ControlSession calls UnitreeG1NativeRobot (g1/native_robot.py), which    *)
(* calls G1Backend, against the writer and LowState threads.  The           *)
(* adapter's _opened and _enabled only refuse calls a session never makes   *)
(* and are left out.  Ctrl-C is seen when a native call has returned.       *)
(***************************************************************************)
EXTENDS NativeBackend, ControlSession

VARIABLES
  stopped, closed,    \* the adapter's _stopped, _closed
  emergency, passive, \* _emergency_stop, _passive_requested
  excused             \* so far: a wrong mode, a stale state or a failed publish

adapter == <<stopped, closed, emergency, passive>>
vars == <<backend, session, adapter, excused>>

Init ==
  /\ BackendInit /\ SessionInit
  /\ stopped = FALSE /\ closed = FALSE /\ emergency = FALSE /\ passive = FALSE
  /\ excused = FALSE

-----------------------------------------------------------------------------
(* start().                                                                *)

Open == Proceed("open", "first_state") /\ OpenChannels /\ UNCHANGED adapter
OpenRefused == Raise("open", "backend_error") /\ UNCHANGED <<backend, adapter>>
FirstState == Proceed("first_state", "read") /\ OpenDone /\ UNCHANGED adapter
NoFirstState ==
  /\ Raise("first_state", "backend_error") /\ OpenGivesUp
  /\ closed' = TRUE /\ UNCHANGED <<stopped, emergency, passive>>

\* read_state(): the remote is decoded from the sample, its requests latch.
\* The session looks at the sample's age, enable() does not.
Reads == {<<"read", "check">>, <<"enable", "enable_check">>, <<"reread", "recheck">>,
          <<"poll", "poll_check">>}
ReadState == \E r \in Reads :
  /\ emergency' = (emergency \/ button = "select")
  /\ passive' = (passive \/ button = "passive")
  /\ CASE emergency' -> Raise(r[1], "emergency_stop")
       [] ~emergency' /\ passive' -> Raise(r[1], "passive")
       [] ~emergency' /\ ~passive' /\ state = "stale" /\ r[1] # "enable" ->
            Raise(r[1], "state_timeout")
       [] OTHER -> Proceed(r[1], r[2])
  /\ UNCHANGED <<backend, stopped, closed>>

\* health(), asked by the session and by enable().
Checks == {<<"check", "enable">>, <<"enable_check", "enable_set">>, <<"recheck", "poll">>,
           <<"poll_check", "decide">>, <<"verify", "poll">>}
CheckHealth == \E c \in Checks :
  /\ IF Healthy THEN Proceed(c[1], c[2])
     ELSE Raise(c[1], IF c[1] = "enable_check" THEN "backend_enable_error"
                      ELSE "backend_unhealthy")
  /\ UNCHANGED <<backend, adapter>>

EnableOutput == Proceed("enable_set", "reread") /\ SetEnabled /\ UNCHANGED adapter

-----------------------------------------------------------------------------
(* tick().                                                                 *)

Decide ==
  /\ \/ Proceed("decide", "write") \/ Proceed("decide", "verify")
     \/ Raise("decide", "controller_error")
     \/ \E ok \in BOOLEAN : Finish("decide", ok)
  /\ UNCHANGED <<backend, adapter>>
WriteOutput == Proceed("write", "verify") /\ WriteCommand /\ UNCHANGED adapter
WriteRefused == Raise("write", "backend_write_error") /\ UNCHANGED <<backend, adapter>>
InterruptSession ==
  /\ pc # "first_state" /\ Interrupt /\ UNCHANGED <<backend, adapter>>

-----------------------------------------------------------------------------
(* stop(): robot.stop, then robot.close, which stops first if it has to.    *)

StopCall == ~stopped /\ Proceed("stop", "stop_wait") /\ StopOutput /\ UNCHANGED adapter
StopReturns ==
  /\ PublishDamping
  /\ \/ Proceed("stop_wait", "close") /\ stopped' = TRUE
     \/ CleanupFails("stop_wait", "close") /\ UNCHANGED stopped
  /\ UNCHANGED <<closed, emergency, passive>>
StopCancelled == CleanupFails("stop", "close") /\ UNCHANGED <<backend, adapter>>

CloseStops ==
  /\ ~closed /\ ~stopped
  /\ Proceed("close", "close_wait") /\ StopOutput /\ UNCHANGED adapter
CloseStopped ==
  /\ Proceed("close_wait", "close") /\ PublishDamping
  /\ stopped' = TRUE /\ UNCHANGED <<closed, emergency, passive>>
CloseCall ==
  /\ ~closed
  /\ \/ stopped /\ Proceed("close", "close_publish")
     \/ CleanupFails("close", "close_publish")
  /\ CloseOutput /\ UNCHANGED adapter
ClosePublishes == Proceed("close_publish", "join") /\ PublishDamping /\ UNCHANGED adapter
Join ==
  /\ CloseChannels
  /\ closed' = TRUE /\ UNCHANGED <<stopped, emergency, passive>>
  /\ Proceed("join", "done") \/ CleanupFails("join", "done")
AlreadyClosed == closed /\ Proceed("close", "done") /\ UNCHANGED <<backend, adapter>>

SessionStep ==
  \/ Open \/ OpenRefused \/ FirstState \/ NoFirstState
  \/ ReadState \/ CheckHealth \/ EnableOutput
  \/ Decide \/ WriteOutput \/ WriteRefused \/ InterruptSession
  \/ StopCall \/ StopReturns \/ StopCancelled
  \/ CloseStops \/ CloseStopped \/ CloseCall \/ ClosePublishes \/ Join \/ AlreadyClosed

Environment ==
  \/ Age \/ FrameWrongMode \/ FrameCorrupt
  \/ \E b \in Buttons : FrameValid(b)

Next ==
  /\ \/ SessionStep
     \/ (Writer \/ Environment) /\ UNCHANGED <<session, adapter>>
  /\ excused' = (excused \/ stateError' = "mode" \/ state' = "stale" \/ publishError')

Fairness == WF_vars(Writer /\ UNCHANGED <<session, adapter>>) /\ WF_vars(SessionStep)
Spec == Init /\ [][Next]_vars /\ Fairness

-----------------------------------------------------------------------------
(* Properties.                                                             *)

\* Every variable has its type.
TypeOK ==
  /\ BackendTypeOK /\ SessionTypeOK
  /\ stopped \in BOOLEAN /\ closed \in BOOLEAN /\ emergency \in BOOLEAN
  /\ passive \in BOOLEAN /\ excused \in BOOLEAN

(* "One corrupt IMU frame must not end the session" (backend.cpp:184-185): *)
(* a session ends for an unhealthy backend only if the robot's mode, the   *)
(* age of its state or a failed publish gave a reason.                     *)
CorruptFrameSurvived ==
  reason \in {"backend_unhealthy", "backend_enable_error"} => excused
=============================================================================
