-------------------------- MODULE Go2SessionProofs --------------------------
(***************************************************************************)
(* Proofs about Go2Session: its types, how a session reported as           *)
(* successful leaves the robot, and that robot and session together keep   *)
(* the promise of MotorBus.                                                *)
(*                                                                         *)
(* They rest on how far the two threads can be apart: Phases says what the *)
(* session has done to the robot by the time it makes its next call,       *)
(* LastFrame that the writer, once told to leave, tries a damping frame    *)
(* last, and LossesLatched that no frame is lost without a fault.          *)
(***************************************************************************)
EXTENDS Go2Session, TLAPS

BeforeWriter == {"open", "first_state"}
AfterStop    == {"stop_wait", "close_wait", "join", "done"}

\* The writer is started when the first state has come, stays until it is told
\* to leave, and is told so only after the output was stopped.
Phases ==
  /\ pc \in Starting \cup Ticking => ~stopped /\ ~finished
  /\ pc \in BeforeWriter => wpc = "none" /\ ~enabled
  /\ pc \in (Starting \cup Ticking) \ BeforeWriter => wpc # "none"
  /\ pc \in AfterStop => stopped
  /\ finished => wpc # "none"
  /\ shutdown => pc \in {"join", "done"}

\* The frame of the writer's last round is damping: it was picked after stop().
LastFrame ==
  /\ leaving => shutdown
  /\ wpc = "dead" => leaving
  /\ leaving /\ wpc = "publish" => carried = "damping"
  /\ leaving /\ wpc \in {"account", "dead"} => tried = "damping"

\* As long as there is no fault, every frame tried was written.
LossesLatched == fault = "none" => handed = tried

\* Nothing went wrong until the end only if close() came to its end.
CleanEnd ==
  pc = "done" /\ reason = "completed" => closed /\ ~WriterAlive

IInv == TypeOK /\ Phases /\ LastFrame /\ CleanEnd /\ LossesLatched
-----------------------------------------------------------------------------
(* The types.                                                              *)

LEMMA FirstIsIInv == Init => IInv
BY NothingAssumption DEF Init, RobotInit, SessionInit, IInv, TypeOK, RobotTypeOK, SessionTypeOK, Starting, Ticking,
  Cleaning, BeforeWriter, AfterStop, Phases, LastFrame, CleanEnd,
  LossesLatched

\* What a call of the session does to the robot.  OpenDone is apart: it is the
\* only one that needs to know how far the session is.
CallStep ==
  \/ UNCHANGED robot \/ OpenChannels \/ Enable \/ Write \/ WriteFails \/ Stop \/ Shutdown
  \/ CloseChannels \/ JoinTimesOut
RobotStep == CallStep \/ Writer \/ Environment

LEMMA FaultsLatch ==
  ASSUME RobotTypeOK, NEW why \in {"timeout", "error"}, LatchFault(why) \/ UNCHANGED <<fault, enabled, pending>>
  PROVE  /\ fault' \in {"none", "timeout", "error"} /\ enabled' \in BOOLEAN
         /\ pending' \in {"none", "fresh", "stale"}
         /\ pending' # "none" => enabled' /\ ~stopped
         /\ fault # "none" => fault' # "none"
<1>1. CASE LatchFault(why)  BY <1>1 DEF LatchFault, RobotTypeOK
<1>2. CASE UNCHANGED <<fault, enabled, pending>>  BY <1>2 DEF RobotTypeOK
<1> QED  BY <1>1, <1>2

LEMMA RobotKeepsTypes ==
  ASSUME RobotTypeOK, RobotStep
  PROVE  RobotTypeOK'
<1> USE NothingAssumption DEF robot, gates, inputs, writer
<1>1. CASE UNCHANGED robot  BY <1>1 DEF RobotTypeOK
<1>2. CASE OpenChannels  BY <1>2 DEF OpenChannels, RobotTypeOK
<1>3. CASE Enable  BY <1>3 DEF Enable, RobotTypeOK
<1>4. CASE Write  BY <1>4 DEF Write, RobotTypeOK
<1>5. CASE WriteFails
  <2>1. Finding \in {"timeout", "error"} /\ (LatchFault(Finding) \/ UNCHANGED <<fault, enabled, pending>>)
    BY <1>5 DEF WriteFails, Finding
  <2> QED  BY <1>5, <2>1, FaultsLatch DEF WriteFails, RobotTypeOK
<1>6. CASE Stop
  <2>1. UNCHANGED <<wpc, carried, tried, handed, fault, sample, opened, closed, subscribed, invalid,
                    emergency, shutdown, leaving>>
    BY <1>6 DEF Stop
  <2>2. /\ stopped' \in BOOLEAN /\ enabled' \in BOOLEAN /\ attempted' \in BOOLEAN
        /\ pending' = "none"
    BY <1>6 DEF Stop
  <2> QED  BY <2>1, <2>2 DEF RobotTypeOK
<1>7. CASE Shutdown  BY <1>7 DEF Shutdown, RobotTypeOK
<1>8. CASE CloseChannels
  <2>1. closed' \in BOOLEAN /\ subscribed' \in BOOLEAN
    BY <1>8 DEF CloseChannels
  <2>2. UNCHANGED <<wpc, carried, tried, handed, fault, sample, opened, enabled, stopped, pending, invalid,
                    emergency, shutdown, leaving, attempted>>
    BY <1>8 DEF CloseChannels
  <2> QED  BY <2>1, <2>2 DEF RobotTypeOK
<1>9. CASE JoinTimesOut
  BY <1>9, FaultsLatch DEF JoinTimesOut, RobotTypeOK
<1>10. CASE Environment
  <2>1. CASE Age  BY <2>1 DEF Age, RobotTypeOK
  <2>2. CASE LowStateInvalid  BY <2>2 DEF LowStateInvalid, RobotTypeOK
  <2>3. ASSUME NEW pressed \in BOOLEAN, LowState(pressed)  PROVE RobotTypeOK'
    BY <2>3 DEF LowState, RobotTypeOK
  <2> QED  BY <1>10, <2>1, <2>2, <2>3 DEF Environment
<1>11. CASE Writer
  <2>1. CASE WriterWake  BY <2>1 DEF WriterWake, RobotTypeOK
  <2>2. CASE WriterPick
    <3>1. Finding \in {"timeout", "error"} /\ (LatchFault(Finding) \/ UNCHANGED <<fault, enabled, pending>>)
      BY <2>2 DEF WriterPick, Finding
    <3>2. carried' \in {"active", "damping"} /\ carried' # Nothing /\ wpc' = "publish"
      BY <2>2 DEF WriterPick
    <3> QED  BY <2>2, <3>1, <3>2, FaultsLatch DEF WriterPick, RobotTypeOK
  <2>3. CASE WriterPublish
    <3>1. /\ tried' \in {"active", "damping"} /\ handed' \in {"silent", "active", "damping"}
          /\ carried' = Nothing /\ wpc' = "account"
      BY <2>3 DEF WriterPublish, RobotTypeOK
    <3>2. LatchFault("error") \/ UNCHANGED <<fault, enabled, pending>>
      BY <2>3 DEF WriterPublish
    <3> QED  BY <2>3, <3>1, <3>2, FaultsLatch DEF WriterPublish, RobotTypeOK
  <2>4. CASE WriterAccount  BY <2>4 DEF WriterAccount, RobotTypeOK
  <2> QED  BY <1>11, <2>1, <2>2, <2>3, <2>4 DEF Writer
<1> QED  BY <1>1, <1>2, <1>3, <1>4, <1>5, <1>6, <1>7, <1>8, <1>9, <1>10, <1>11 DEF RobotStep, CallStep

LEMMA SessionKeepsPhases ==
  ASSUME SessionTypeOK, Phases, LastFrame, CleanEnd, SessionStep
  PROVE  SessionTypeOK' /\ Phases' /\ LastFrame' /\ CleanEnd'
<1> USE DEF SessionTypeOK, Starting, Ticking, Cleaning, BeforeWriter, AfterStop, Phases, LastFrame,
            CleanEnd, WriterAlive, robot, gates, inputs, writer
<1>1. CASE Open  BY <1>1 DEF Open, Proceed, OpenChannels
<1>2. CASE OpenRefused  BY <1>2 DEF OpenRefused, Raise, Blame
<1>3. CASE FirstState  BY <1>3 DEF FirstState, Proceed, OpenDone
<1>4. CASE NoFirstState  BY <1>4 DEF NoFirstState, Raise, Blame
<1>5. CASE ReadState  BY <1>5 DEF ReadState, Reads, Proceed
<1>6. CASE ReadFails  BY <1>6 DEF ReadFails, Reads, Raise, Blame
<1>7. CASE CheckHealth  BY <1>7 DEF CheckHealth, Checks, Proceed
<1>8. CASE CheckFails  BY <1>8 DEF CheckFails, Checks, Raise, Blame
<1>9. CASE EnableOutput  BY <1>9 DEF EnableOutput, Proceed, Enable
<1>10. CASE EnableRefused  BY <1>10 DEF EnableRefused, Raise, Blame
<1>11. CASE Decide
  <2>1. CASE Proceed("decide", "write") \/ Proceed("decide", "verify")
    BY <1>11, <2>1 DEF Decide, Proceed
  <2>2. CASE Raise("decide", "controller_error")
    BY <1>11, <2>2 DEF Decide, Raise, Blame
  <2>3. ASSUME NEW ok \in BOOLEAN, Finish("decide", ok)
        PROVE  SessionTypeOK' /\ Phases' /\ LastFrame' /\ CleanEnd'
    BY <1>11, <2>3 DEF Decide, Finish
  <2> QED  BY <1>11, <2>1, <2>2, <2>3 DEF Decide
<1>12. CASE WriteCommand  BY <1>12 DEF WriteCommand, Proceed, Write
<1>13. CASE WriteRefused  BY <1>13 DEF WriteRefused, WriteFails, LatchFault, Raise, Blame
<1>14. CASE InterruptSession  BY <1>14 DEF InterruptSession, Interrupt, Raise, Blame
<1>15. CASE StopCall  BY <1>15 DEF StopCall, StopRobot, Stop, Proceed
<1>16. CASE StopReturns  BY <1>16 DEF StopReturns, Proceed
<1>17. CASE StopGivesUp  BY <1>17 DEF StopGivesUp, CleanupFails, Blame
<1>18. CASE StopCancelled  BY <1>18 DEF StopCancelled, CleanupFails, Blame
<1>19. CASE CloseCall  BY <1>19 DEF CloseCall, StopRobot, Stop, Proceed
<1>20. CASE CloseWaited  BY <1>20 DEF CloseWaited, Shutdown, Proceed, CleanupFails, Blame
<1>21. CASE Join  BY <1>21 DEF Join, CloseChannels, Proceed, CleanupFails, Blame
<1>22. CASE JoinFails  BY <1>22 DEF JoinFails, JoinTimesOut, LatchFault, CleanupFails, Blame
<1> QED  BY <1>1, <1>2, <1>3, <1>4, <1>5, <1>6, <1>7, <1>8, <1>9, <1>10, <1>11, <1>12, <1>13, <1>14, <1>15, <1>16, <1>17, <1>18, <1>19, <1>20, <1>21, <1>22 DEF SessionStep

-----------------------------------------------------------------------------
(* The inductive invariant.                                                *)

\* What a step of the session does to the robot.
LEMMA SessionActsOnRobot ==
  ASSUME SessionStep
  PROVE  CallStep \/ (pc = "first_state" /\ OpenDone)
<1>1. CASE Open \/ EnableOutput \/ WriteCommand \/ WriteRefused
  BY <1>1 DEF Open, EnableOutput, WriteCommand, WriteRefused, CallStep
<1>2. CASE FirstState  BY <1>2 DEF FirstState, Proceed
<1>3. CASE StopCall \/ CloseCall
  BY <1>3 DEF StopCall, CloseCall, StopRobot, CallStep
<1>4. CASE CloseWaited \/ Join \/ JoinFails
  BY <1>4 DEF CloseWaited, Join, JoinFails, CallStep
<1>5. CASE \/ OpenRefused \/ NoFirstState \/ ReadState \/ ReadFails \/ CheckHealth \/ CheckFails
           \/ EnableRefused \/ Decide \/ InterruptSession
           \/ StopReturns \/ StopGivesUp \/ StopCancelled
  BY <1>5 DEF OpenRefused, NoFirstState, ReadState, ReadFails, CheckHealth, CheckFails,
     EnableRefused, Decide, InterruptSession, StopReturns, StopGivesUp, StopCancelled, CallStep
<1> QED  BY <1>1, <1>2, <1>3, <1>4, <1>5 DEF SessionStep

\* Only the writer tries frames, and no call and no message clears a fault.
LEMMA CallsLoseNothing ==
  ASSUME LossesLatched, CallStep \/ Environment \/ OpenDone
  PROVE  LossesLatched'
<1> USE DEF gates, inputs, writer
<1>1. UNCHANGED <<tried, handed>>
  <2>1. CASE CallStep
    BY <2>1 DEF CallStep, robot, OpenChannels, Enable, Write, WriteFails, Stop, Shutdown,
       CloseChannels, JoinTimesOut
  <2>2. CASE Environment  BY <2>2 DEF Environment, Age, LowStateInvalid, LowState
  <2>3. CASE OpenDone  BY <2>3 DEF OpenDone
  <2> QED  BY <2>1, <2>2, <2>3
<1>2. fault' = "none" => fault = "none"
  <2>1. CASE CallStep
    BY <2>1 DEF CallStep, robot, OpenChannels, Enable, Write, WriteFails, Stop, Shutdown,
       CloseChannels, JoinTimesOut, LatchFault, Finding
  <2>2. CASE Environment  BY <2>2 DEF Environment, Age, LowStateInvalid, LowState
  <2>3. CASE OpenDone  BY <2>3 DEF OpenDone
  <2> QED  BY <2>1, <2>2, <2>3
<1> QED  BY <1>1, <1>2 DEF LossesLatched

LEMMA SessionKeepsIInv ==
  ASSUME IInv, SessionStep
  PROVE  IInv'
<1>1. SessionTypeOK' /\ Phases' /\ LastFrame' /\ CleanEnd'
  BY SessionKeepsPhases DEF IInv, TypeOK
<1>2. RobotTypeOK'
  <2>1. CASE CallStep  BY <2>1, RobotKeepsTypes DEF IInv, TypeOK, RobotStep
  <2>2. CASE pc = "first_state" /\ OpenDone
    <3>1. wpc = "none" /\ ~enabled
      BY <2>2 DEF IInv, Phases, BeforeWriter
    <3>2. carried = Nothing /\ pending = "none"
      BY <3>1 DEF IInv, TypeOK, RobotTypeOK
    <3> QED
      BY <2>2, <3>2 DEF OpenDone, IInv, TypeOK, RobotTypeOK, inputs
  <2> QED  BY <2>1, <2>2, SessionActsOnRobot
<1>3. LossesLatched'
  BY SessionActsOnRobot, CallsLoseNothing DEF IInv
<1> QED  BY <1>1, <1>2, <1>3 DEF IInv, TypeOK

\* The writer's last round: woken by the shutdown, it finds the output stopped.
LEMMA WriterKeepsIInv ==
  ASSUME IInv, Writer, UNCHANGED session
  PROVE  IInv'
<1> USE DEF Phases, LastFrame, CleanEnd, WriterAlive, session, BeforeWriter, AfterStop, gates, inputs
<1>1. TypeOK'
  BY RobotKeepsTypes DEF IInv, TypeOK, RobotStep, SessionTypeOK
<1>2. CASE WriterWake
  <2>1. Phases' /\ LastFrame' /\ CleanEnd' /\ LossesLatched'
    BY <1>2 DEF IInv, WriterWake, LossesLatched
  <2> QED  BY <1>1, <2>1 DEF IInv
<1>3. CASE WriterPick
  <2>1. enabled' => enabled
    BY <1>3 DEF WriterPick, LatchFault
  <2>2. leaving => stopped
    BY DEF IInv
  <2>3. leaving' => carried' = "damping"
    BY <1>3, <2>2 DEF WriterPick
  <2>4. Phases' /\ LastFrame' /\ CleanEnd'
    BY <1>3, <2>1, <2>3 DEF IInv, WriterPick
  <2>5. LossesLatched'
    BY <1>3 DEF IInv, WriterPick, LossesLatched, LatchFault, Finding
  <2> QED  BY <1>1, <2>4, <2>5 DEF IInv
<1>4. CASE WriterPublish
  <2>1. enabled' => enabled
    BY <1>4 DEF WriterPublish, LatchFault
  <2>2. Phases' /\ LastFrame' /\ CleanEnd'
    BY <1>4, <2>1 DEF IInv, WriterPublish
  <2>3. LossesLatched'
    BY <1>4 DEF WriterPublish, LossesLatched, LatchFault
  <2> QED  BY <1>1, <2>2, <2>3 DEF IInv
<1>5. CASE WriterAccount
  <2>1. Phases' /\ LastFrame' /\ CleanEnd' /\ LossesLatched'
    BY <1>5 DEF IInv, WriterAccount, LossesLatched
  <2> QED  BY <1>1, <2>1 DEF IInv
<1> QED  BY <1>2, <1>3, <1>4, <1>5 DEF Writer

LEMMA EnvironmentKeepsIInv ==
  ASSUME IInv, Environment, UNCHANGED session
  PROVE  IInv'
<1>1. TypeOK'
  BY RobotKeepsTypes DEF IInv, TypeOK, RobotStep, SessionTypeOK, session
<1>2. UNCHANGED <<gates, shutdown, writer>>
  BY DEF Environment, Age, LowStateInvalid, LowState
<1>3. Phases' /\ LastFrame' /\ CleanEnd'
  BY <1>2 DEF IInv, Phases, LastFrame, CleanEnd, WriterAlive, session, gates, writer
<1>4. LossesLatched'
  BY CallsLoseNothing DEF IInv
<1> QED  BY <1>1, <1>3, <1>4 DEF IInv

LEMMA StepKeepsIInv == IInv /\ [Next]_vars => IInv'
<1> SUFFICES ASSUME IInv, [Next]_vars  PROVE IInv'
  OBVIOUS
<1>1. CASE SessionStep  BY <1>1, SessionKeepsIInv
<1>2. CASE Writer /\ UNCHANGED session  BY <1>2, WriterKeepsIInv
<1>3. CASE Environment /\ UNCHANGED session  BY <1>3, EnvironmentKeepsIInv
<1>4. CASE UNCHANGED vars
  <2>1. TypeOK'
    BY <1>4, RobotKeepsTypes DEF vars, RobotStep, CallStep, IInv, TypeOK, SessionTypeOK, session
  <2>2. Phases' /\ LastFrame' /\ CleanEnd' /\ LossesLatched'
    BY <1>4 DEF IInv, vars, Phases, LastFrame, CleanEnd, LossesLatched, WriterAlive, session, robot, gates, writer
  <2> QED  BY <2>1, <2>2 DEF IInv
<1> QED  BY <1>1, <1>2, <1>3, <1>4 DEF Next

LEMMA InvariantHolds == Spec => []IInv
<1> QED  BY FirstIsIInv, StepKeepsIInv, PTL DEF Spec

(* The fields of the robot and of the session keep their types; a command  *)
(* waits only for an output that is on.                                    *)
THEOREM TypeCorrect == Spec => []TypeOK
<1>1. IInv => TypeOK  BY DEF IInv
<1> QED  BY <1>1, InvariantHolds, PTL

(* A run reported as successful has closed the channels behind a writer    *)
(* that has ended and that tried a damping frame last; the frame was lost  *)
(* only if a fault is latched (control.py:285-309, go2/robot.py:346-401,   *)
(* 532-551).                                                               *)
THEOREM SuccessEndsWriter == Spec => []SuccessEndsOutput
<1>1. IInv => SuccessEndsOutput
  <2> SUFFICES ASSUME IInv, Succeeded
               PROVE  /\ wpc = "dead" /\ closed /\ tried = "damping"
                      /\ fault = "none" => handed = "damping"
    BY DEF SuccessEndsOutput
  <2>1. closed /\ ~WriterAlive /\ wpc # "none"
    BY DEF IInv, CleanEnd, Phases, Succeeded
  <2>2. wpc = "dead" /\ tried = "damping"
    BY <2>1 DEF IInv, LastFrame, WriterAlive
  <2> QED  BY <2>1, <2>2 DEF IInv, LossesLatched
<1> QED  BY <1>1, InvariantHolds, PTL

-----------------------------------------------------------------------------
(* The bus.                                                                *)

Latched == stopped \/ emergency \/ fault # "none"

\* A fault found by the watchdog stays the first one.
LEMMA FaultsStay ==
  ASSUME NEW why \in {"timeout", "error"}, LatchFault(why) \/ UNCHANGED <<fault, enabled, pending>>,
         UNCHANGED <<stopped, emergency>>
  PROVE  Latched => Latched'
BY DEF LatchFault, Latched

\* No call opens the latch, nor does a message, and only the writer has frames.
LEMMA CallsLatch ==
  ASSUME IInv, CallStep \/ Environment \/ (pc = "first_state" /\ OpenDone)
  PROVE  (Latched => Latched') /\ UNCHANGED <<carried, handed>>
<1> USE DEF gates, inputs, writer, Latched
<1>1. CASE UNCHANGED robot  BY <1>1 DEF robot
<1>2. CASE OpenChannels \/ Enable \/ Write \/ Shutdown \/ CloseChannels
  BY <1>2 DEF OpenChannels, Enable, Write, Shutdown, CloseChannels
<1>3. CASE WriteFails
  <2>1. Finding \in {"timeout", "error"} /\ (LatchFault(Finding) \/ UNCHANGED <<fault, enabled, pending>>)
    BY <1>3 DEF WriteFails, Finding
  <2> QED  BY <1>3, <2>1, FaultsStay DEF WriteFails
<1>4. CASE Stop  BY <1>4 DEF Stop
<1>5. CASE JoinTimesOut  BY <1>5, FaultsStay DEF JoinTimesOut
<1>6. CASE Environment
  <2>1. CASE Age \/ LowStateInvalid  BY <2>1 DEF Age, LowStateInvalid
  <2>2. ASSUME NEW pressed \in BOOLEAN, LowState(pressed)
        PROVE  (Latched => Latched') /\ UNCHANGED <<carried, handed>>
    <3>1. emergency => emergency'  BY <2>2, Zenon DEF LowState
    <3> QED  BY <2>2, <3>1 DEF LowState
  <2> QED  BY <1>6, <2>1, <2>2 DEF Environment
<1>7. CASE pc = "first_state" /\ OpenDone
  <2>1. ~stopped  BY <1>7 DEF IInv, Phases, Starting
  <2> QED  BY <1>7, <2>1 DEF OpenDone
<1> QED  BY <1>1, <1>2, <1>3, <1>4, <1>5, <1>6, <1>7 DEF CallStep

(* Whoever takes a step, it is one of the bus: the writer picks a frame    *)
(* that the latch allows or publishes the one it has, and every other step *)
(* at most closes the latch (go2/robot.py:346-368, 420-423, 483-494).      *)
THEOREM ImplementsBus == Spec => RefinesBus
<1>1. Init => Bus!Init
  BY DEF Init, RobotInit, Bus!Init
<1>2. ASSUME IInv, [Next]_vars  PROVE [Bus!Next]_(Bus!vars)
  <2> USE DEF gates, inputs, writer
  <2>1. Latched \in BOOLEAN /\ Latched' \in BOOLEAN
    BY DEF Latched
  <2>2. (Latched => Latched') /\ UNCHANGED <<carried, handed>> => Bus!Latch /\ UNCHANGED <<carried, handed>>
    BY DEF Latched, Bus!Latch
  <2>3. CASE SessionStep \/ Environment
    BY <1>2, <2>2, <2>3, SessionActsOnRobot, CallsLatch DEF Bus!Next
  <2>4. CASE WriterWake \/ WriterAccount
    <3>1. (Latched => Latched') /\ UNCHANGED <<carried, handed>>
      BY <2>4 DEF WriterWake, WriterAccount, Latched
    <3> QED  BY <2>2, <3>1 DEF Bus!Next
  <2>5. CASE WriterPick
    <3>1. Finding \in {"timeout", "error"} /\ (LatchFault(Finding) \/ UNCHANGED <<fault, enabled, pending>>)
      BY <2>5 DEF WriterPick, Finding
    <3>2. Latched => Latched'
      BY <2>5, <3>1, FaultsStay DEF WriterPick
    <3>3. carried = Nothing
      BY <1>2, <2>5 DEF WriterPick, IInv, TypeOK, RobotTypeOK
    <3>4. /\ carried' \in {"active", "damping"} /\ handed' = handed
          /\ Latched' => carried' = "damping"
      BY <2>5 DEF WriterPick, Latched
    <3>5. Bus!Pick
      BY <3>2, <3>3, <3>4 DEF Bus!Pick, Bus!Latch, Bus!Frames, Latched
    <3> QED  BY <3>5 DEF Bus!Next
  <2>6. CASE WriterPublish
    <3>1. LatchFault("error") \/ UNCHANGED <<fault, enabled, pending>>
      BY <2>6 DEF WriterPublish
    <3>2. Latched => Latched'
      BY <2>6, <3>1, FaultsStay DEF WriterPublish
    <3>3. carried # Nothing
      BY <1>2, <2>6 DEF WriterPublish, IInv, TypeOK, RobotTypeOK
    <3>4. handed' \in {carried, handed} /\ carried' = Nothing
      BY <2>6 DEF WriterPublish
    <3>5. Bus!Publish
      BY <3>2, <3>3, <3>4 DEF Bus!Publish, Bus!Latch, Latched
    <3> QED  BY <3>5 DEF Bus!Next
  <2>7. CASE UNCHANGED vars
    BY <2>7 DEF vars, robot, Bus!vars
  <2> QED  BY <1>2, <2>3, <2>4, <2>5, <2>6, <2>7 DEF Next, Writer
<1> QED  BY <1>1, <1>2, InvariantHolds, PTL DEF Spec, RefinesBus, Bus!Spec
=============================================================================
