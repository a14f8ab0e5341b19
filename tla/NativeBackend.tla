---------------------------- MODULE NativeBackend ----------------------------
(***************************************************************************)
(* G1Backend (motrix_unitree_native/src/backend.cpp): the DDS subscriber's  *)
(* thread, the command writer thread and the caller share its fields under  *)
(* one mutex.  Frames are handed to DDS outside it, by the writer and by a  *)
(* caller of stop() or close().  One step is one critical section or one    *)
(* DDS write.                                                              *)
(*                                                                         *)
(* A command is "active" or "damping".  Clocks are left out: the state and  *)
(* the command may become stale at any time.  LowState frames with a wrong  *)
(* CRC change nothing.                                                     *)
(***************************************************************************)

CONSTANT Nothing \* no frame

VARIABLES
  live,         \* opened_ /\ ~closed_
  on, halted,   \* enabled_, stopped_
  state,        \* have_state_ and the age of latest_state_: "none", "fresh", "stale"
  button,       \* what the remote says in latest_state_
  modeOk,       \* mode_ok_
  wrongMode,    \* invalid_mode_at_connect_
  stateError,   \* state_error_: "none", "mode" or "imu"
  publishError, \* publish_error_ is not empty
  command,      \* command_
  recent,       \* the command is younger than command_timeout_
  wpc,          \* where the writer thread is
  writerStop,   \* writer_stop_
  carried,      \* the frame it copied
  handed        \* the frame last passed to DDS, whether or not it took it

inputs  == <<state, button, modeOk, wrongMode, stateError>>
switch  == <<live, on, halted>>
writer  == <<wpc, carried>>
backend == <<switch, inputs, publishError, command, recent, writer, writerStop, handed>>

Buttons == {"none", "select", "passive"}

BackendTypeOK ==
  /\ live \in BOOLEAN /\ on \in BOOLEAN /\ halted \in BOOLEAN
  /\ state \in {"none", "fresh", "stale"} /\ button \in Buttons
  /\ modeOk \in BOOLEAN /\ wrongMode \in BOOLEAN
  /\ stateError \in {"none", "mode", "imu"} /\ publishError \in BOOLEAN
  /\ command \in {"active", "damping"} /\ recent \in BOOLEAN
  /\ wpc \in {"none", "loop", "pick", "publish", "dead"} /\ writerStop \in BOOLEAN
  /\ carried \in {Nothing, "active", "damping"}
  /\ handed \in {"silent", "active", "damping"}

BackendInit ==
  /\ live = FALSE /\ on = FALSE /\ halted = FALSE
  /\ state = "none" /\ button = "none" /\ modeOk = FALSE /\ wrongMode = FALSE
  /\ stateError = "none" /\ publishError = FALSE
  /\ command = "damping" /\ recent = FALSE
  /\ wpc = "none" /\ writerStop = FALSE /\ carried = Nothing /\ handed = "silent"

\* healthy()
Healthy ==
  /\ live /\ ~halted /\ stateError = "none" /\ ~publishError
  /\ state = "fresh" /\ modeOk

\* Time passes.
Age ==
  /\ \/ state = "fresh" /\ state' = "stale" /\ UNCHANGED recent
     \/ recent /\ recent' = FALSE /\ UNCHANGED state
  /\ UNCHANGED <<switch, button, modeOk, wrongMode, stateError, publishError, command, writer,
                 writerStop, handed>>

-----------------------------------------------------------------------------
(* lowstate_handler.                                                       *)

FrameWrongMode ==
  /\ live /\ modeOk' = FALSE /\ stateError' = "mode"
  /\ wrongMode' = (wrongMode \/ state = "none")
  /\ UNCHANGED <<switch, state, button, publishError, command, recent, writer, writerStop, handed>>

\* The quaternion cannot be normalised: the sample is dropped, the error set.
FrameCorrupt ==
  /\ live /\ stateError' = "imu"
  /\ UNCHANGED <<switch, state, button, modeOk, wrongMode, publishError, command, recent, writer,
                 writerStop, handed>>

FrameValid(b) ==
  /\ live /\ state' = "fresh" /\ button' = b /\ modeOk' = TRUE /\ stateError' = "none"
  /\ UNCHANGED <<switch, wrongMode, publishError, command, recent, writer, writerStop, handed>>

-----------------------------------------------------------------------------
(* publish() and command_writer_loop().                                    *)

\* A success clears the error; the twentieth failure in a row sets it.
Publish(frame) ==
  /\ handed' = frame
  /\ publishError' \in BOOLEAN

WriterLoop ==
  /\ wpc = "loop" /\ wpc' = IF writerStop THEN "dead" ELSE "pick"
  /\ UNCHANGED <<switch, inputs, publishError, command, recent, carried, writerStop, handed>>

WriterPick ==
  /\ wpc = "pick" /\ wpc' = "publish"
  /\ command' = IF ~on \/ halted \/ ~modeOk \/ state # "fresh" \/ ~recent
                THEN "damping" ELSE command
  /\ carried' = command'
  /\ UNCHANGED <<switch, inputs, publishError, recent, writerStop, handed>>

WriterPublish ==
  /\ wpc = "publish" /\ wpc' = "loop"
  /\ Publish(carried) /\ carried' = Nothing
  /\ UNCHANGED <<switch, inputs, command, recent, writerStop>>

Writer == WriterLoop \/ WriterPick \/ WriterPublish

-----------------------------------------------------------------------------
(* The calls.                                                              *)

\* open(), up to the wait for the first state.
OpenChannels ==
  /\ live' = TRUE /\ halted' = FALSE /\ on' = FALSE
  /\ state' = "none" /\ button' = "none" /\ modeOk' = FALSE /\ wrongMode' = FALSE
  /\ stateError' = "none" /\ publishError' = FALSE
  /\ command' = "damping" /\ recent' = TRUE
  /\ UNCHANGED <<writer, writerStop, handed>>
\* The wait ends with a state: the writer starts.
OpenDone ==
  /\ state # "none" /\ ~wrongMode
  /\ writerStop' = FALSE /\ wpc' = "loop"
  /\ UNCHANGED <<switch, inputs, publishError, command, recent, carried, handed>>
\* It ends with a wrong mode or too late: open() closes and throws.
OpenGivesUp ==
  /\ live' = FALSE /\ halted' = TRUE /\ on' = FALSE
  /\ command' = "damping" /\ writerStop' = TRUE /\ Publish("damping")
  /\ UNCHANGED <<inputs, recent, writer>>

WriteCommand ==
  /\ live /\ command' = "active" /\ on' = TRUE /\ halted' = FALSE /\ recent' = TRUE
  /\ UNCHANGED <<live, inputs, publishError, writer, writerStop, handed>>

SetEnabled ==
  /\ on' = TRUE /\ halted' = FALSE /\ command' = "damping" /\ recent' = TRUE
  /\ UNCHANGED <<live, inputs, publishError, writer, writerStop, handed>>

\* stop(): the critical section, then the frame.
StopOutput ==
  /\ on' = FALSE /\ halted' = TRUE /\ command' = "damping" /\ recent' = TRUE
  /\ UNCHANGED <<live, inputs, publishError, writer, writerStop, handed>>
PublishDamping ==
  /\ IF live THEN Publish("damping") ELSE UNCHANGED <<publishError, handed>>
  /\ UNCHANGED <<switch, inputs, command, recent, writer, writerStop>>

\* close(): the critical section, then the frame, then the join.
CloseOutput ==
  /\ on' = FALSE /\ halted' = TRUE /\ command' = "damping" /\ writerStop' = TRUE
  /\ UNCHANGED <<live, inputs, publishError, recent, writer, handed>>
CloseChannels ==
  /\ wpc \in {"none", "dead"} /\ live' = FALSE
  /\ UNCHANGED <<on, halted, inputs, publishError, command, recent, writer, writerStop, handed>>
=============================================================================
