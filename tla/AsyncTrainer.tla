---------------------------- MODULE AsyncTrainer ----------------------------
(***************************************************************************)
(* The life of an asynchronous FastSAC run with one learner (train.py,     *)
(* worker.py, transport/handshake.py and Control of transport/common.py):  *)
(* the parent process, the learner and the collectors, from spawning to    *)
(* the parent's verdict and the end of the processes it started.  They     *)
(* share a stop flag, a start event, queues and per-collector step         *)
(* counters; any of them may fail or get stuck, and the parent shuts them  *)
(* down one after the other: join, terminate, kill.                        *)
(* Rings are taken as bounded FIFOs (TransitionRing, LearnerDrain) and the *)
(* weight channel is left out (WeightChannel).                             *)
(***************************************************************************)
EXTENDS Integers, FiniteSets, Functions

CONSTANTS
  NumCollectors,   \* collector processes
  NumIterations,   \* env steps each collector is to take
  Capacity,        \* ring_capacity
  LearningStarts,  \* env steps per collector before the first update
  FirstStats,      \* first_stats_steps: steps before a collector's first report
  ErrorSlots,      \* maxsize of the error queue
  FaultKinds,      \* which of AllFaults happen
  MaxFaults        \* bound: how many of them happen

AllFaults == {"error", "interrupt", "killLearner", "killCollector", "hang", "signalFails"}

ASSUME TrainerAssumption ==
  /\ NumCollectors \in Nat \ {0} /\ NumIterations \in Nat \ {0}
  /\ Capacity \in Nat \ {0} /\ LearningStarts \in Nat /\ FirstStats \in Nat \ {0}
  /\ ErrorSlots \in Nat \ {0} /\ MaxFaults \in Nat
  /\ FaultKinds \subseteq AllFaults

Collectors == 1..NumCollectors
Learner    == 0
Workers    == Collectors \cup {Learner}

\* The ladder takes the collectors one after the other, then the learner.
LastTurn   == NumCollectors + 1
Child(t)   == IF t <= NumCollectors THEN t ELSE Learner

\* How train() ends: it returns, raises behind the whole ladder, aborts the
\* start-up, or is left by an exception before or in the middle of the ladder.
Verdicts   == {"ok", "failed", "aborted", "raised"}

VARIABLES
  ppc,         \* where the parent is, or its verdict
  wpc,         \* where each worker is
  exit,        \* how each worker's process ended, or "alive"
  stop,        \* Control's stop flag
  started,     \* the start event
  shipped,     \* the learner put every slot tensor on its one-shot queue
  ready,       \* workers that reported readiness
  errors,      \* workers whose traceback waits on the error queue
  steps,       \* collector_steps: env steps each collector published
  merged,      \* generations the learner ingested
  statsSent,   \* collectors whose first snapshot was sent
  payload,     \* what the learner's latest payload says
  checkpoint,  \* the final checkpoint is on disk
  turn,        \* whose turn it is in the shutdown ladder
  signal,      \* the last signal the ladder sent to each worker
  spared,      \* workers whose terminate() or kill() raised
  faults       \* faults so far

sync  == <<stop, started, shipped, ready, errors>>
work  == <<steps, merged, statsSent, payload, checkpoint>>
ladder == <<turn, signal, spared>>
vars  == <<ppc, wpc, exit, sync, work, ladder, faults>>

Init ==
  /\ ppc = "boot"
  /\ wpc = [w \in Workers |-> "boot"] /\ exit = [w \in Workers |-> "alive"]
  /\ stop = FALSE /\ started = FALSE /\ shipped = FALSE
  /\ ready = {} /\ errors = {}
  /\ steps = [c \in Collectors |-> 0] /\ merged = 0
  /\ statsSent = {} /\ payload = "none" /\ checkpoint = FALSE
  /\ turn = 1 /\ signal = [w \in Workers |-> "none"] /\ spared = {}
  /\ faults = 0

Alive(w)       == exit[w] = "alive"
AllSteps       == SumFunction(steps)      \* Control.collector_steps
Total          == NumIterations * NumCollectors
GlobalStep     == AllSteps \div NumCollectors

At(w, pc)      == Alive(w) /\ wpc[w] = pc
Goto(w, pc)    == wpc' = [wpc EXCEPT ![w] = pc]

\* A worker's run function returns or raises; its finally clause raises the
\* stop flag either way.
Exit(w, how) == exit' = [exit EXCEPT ![w] = how] /\ stop' = TRUE

-----------------------------------------------------------------------------
(* Start-up, the same for every worker from its readiness on.              *)

\* The learner builds its agent, ships the slots and publishes once.
BootLearner ==
  /\ At(Learner, "boot")
  /\ shipped' = TRUE
  /\ Goto(Learner, "report")
  /\ UNCHANGED <<ppc, exit, stop, started, ready, errors, work, ladder, faults>>

BootCollector(c) ==
  /\ At(c, "boot")
  /\ Goto(c, "await")
  /\ UNCHANGED <<ppc, exit, sync, work, ladder, faults>>

\* The slots arrive, the collector resets its env and loads the weights ...
AwaitSlots(c) ==
  /\ At(c, "await") /\ shipped
  /\ Goto(c, "report")
  /\ UNCHANGED <<ppc, exit, sync, work, ladder, faults>>

\* ... or SLOT_TIMEOUT_S passes first, an exception like any other.
AwaitTimeout(c) ==
  /\ At(c, "await") /\ ~shipped
  /\ Goto(c, "raise")
  /\ UNCHANGED <<ppc, exit, sync, work, ladder, faults>>

ReportReady(w) ==
  /\ At(w, "report")
  /\ ready' = ready \cup {w}
  /\ Goto(w, "wait")
  /\ UNCHANGED <<ppc, exit, stop, started, shipped, errors, work, ladder, faults>>

\* wait_for_start returns on the start event or the stop flag; a worker that
\* then finds the flag raised returns without having trained.
WaitForStart(w) ==
  /\ At(w, "wait") /\ (started \/ stop)
  /\ IF stop
       THEN Exit(w, "ok") /\ UNCHANGED wpc
       ELSE Goto(w, "loop") /\ UNCHANGED <<exit, stop>>
  /\ UNCHANGED <<ppc, started, shipped, ready, errors, work, ladder, faults>>

\* The except clause puts the traceback on the error queue, waiting while the
\* queue is full, before the finally clause runs.
RaiseError(w) ==
  /\ At(w, "raise") /\ Cardinality(errors) < ErrorSlots
  /\ errors' = errors \cup {w}
  /\ Exit(w, "error")
  /\ UNCHANGED <<ppc, wpc, started, shipped, ready, work, ladder, faults>>

-----------------------------------------------------------------------------
(* Training.                                                               *)

\* Mutant: one step too many.
StepsLeftInclusive(c) == steps[c] <= NumIterations

\* The condition of a collector's loop.
StepsLeft(c) == steps[c] < NumIterations

\* Mutant: no backpressure.
AlwaysRoom(c) == TRUE

RingHasRoom(c) == steps[c] - merged < Capacity

\* step_once, held back only by this collector's own ring; the first
\* statistics snapshot follows the step that makes it due.
CollectorStep(c) ==
  /\ At(c, "loop") /\ ~stop /\ StepsLeft(c)
  /\ RingHasRoom(c)
  /\ steps' = [steps EXCEPT ![c] = @ + 1]
  /\ statsSent' = IF steps[c] + 1 >= FirstStats THEN statsSent \cup {c} ELSE statsSent
  /\ UNCHANGED <<ppc, wpc, exit, sync, merged, payload, checkpoint, ladder, faults>>

\* The loop ends and the finally clause raises the stop flag for everyone.
CollectorDone(c) ==
  /\ At(c, "loop") /\ (stop \/ ~StepsLeft(c))
  /\ Exit(c, "ok")
  /\ UNCHANGED <<ppc, wpc, started, shipped, ready, errors, work, ladder, faults>>

\* Generations every collector has published.
Mergeable == CHOOSE g \in 0..NumIterations :
               /\ \A c \in Collectors : g <= steps[c]
               /\ \E c \in Collectors : g = steps[c]

\* One round of the learner's loop: drain, update when due, report.
LearnerRound ==
  /\ At(Learner, "loop") /\ ~stop /\ AllSteps < Total
  /\ merged' = Mergeable
  /\ payload' = IF payload = "trained" \/
                   (GlobalStep > 0 /\ merged' > 0 /\
                    AllSteps >= LearningStarts * NumCollectors)
                  THEN "trained" ELSE "warming"
  /\ UNCHANGED <<ppc, wpc, exit, sync, steps, statsSent, checkpoint, ladder, faults>>

LearnerLoopEnds ==
  /\ At(Learner, "loop") /\ (stop \/ AllSteps >= Total)
  /\ Goto(Learner, "final")
  /\ UNCHANGED <<ppc, exit, sync, work, ladder, faults>>

SaveFinal ==
  /\ At(Learner, "final")
  /\ checkpoint' = TRUE
  /\ Exit(Learner, "ok")
  /\ UNCHANGED <<ppc, wpc, started, shipped, ready, errors, steps, merged,
                 statsSent, payload, ladder, faults>>

-----------------------------------------------------------------------------
(* The parent.                                                             *)

\* Every worker reported: the barrier opens.
ReleaseBarrier ==
  /\ ppc = "boot" /\ ready = Workers
  /\ started' = TRUE
  /\ ppc' = "handoff"
  /\ UNCHANGED <<wpc, exit, stop, shipped, ready, errors, work, ladder, faults>>

\* Mutant: the barrier opens without the stop flag.
AbortWithoutStop(verdict) ==
  /\ stop' = stop /\ started' = TRUE
  /\ ppc' = verdict
  /\ UNCHANGED <<wpc, exit, shipped, ready, work, ladder, faults>>

\* A traceback or the boot deadline: stop first, then open the barrier (the
\* finally clause) so that waiting workers can leave, and raise.  No ladder.
Abort(verdict) ==
  /\ stop' = TRUE /\ started' = TRUE
  /\ ppc' = verdict
  /\ UNCHANGED <<wpc, exit, shipped, ready, work, ladder, faults>>

\* The round of the boot loop that hears the last report may still abort.
AbortBootOnError ==
  /\ ppc = "boot"
  /\ \E w \in errors : errors' = errors \ {w}
  /\ Abort("aborted")

AbortBootOnDeadline ==
  /\ ppc = "boot"
  /\ errors' = errors
  /\ Abort("aborted")

PanelDataReady ==
  /\ statsSent = Collectors
  /\ payload # "none" /\ (payload = "trained" \/ AllSteps >= Total)
  /\ AllSteps > 0

\* Mutant: the handoff waits for panel data alone.
LeaveHandoffOnData ==
  /\ ppc = "handoff" /\ PanelDataReady
  /\ ppc' = "monitor"
  /\ UNCHANGED <<wpc, exit, sync, work, ladder, faults>>

\* The handoff ends when the training panel has data or no learner is left.
LeaveHandoff ==
  /\ ppc = "handoff"
  /\ PanelDataReady \/ ~Alive(Learner)
  /\ ppc' = "monitor"
  /\ UNCHANGED <<wpc, exit, sync, work, ladder, faults>>

AbortHandoffOnError ==
  /\ ppc = "handoff" /\ ~PanelDataReady /\ Alive(Learner)
  /\ \E w \in errors : errors' = errors \ {w}
  /\ Abort("raised")

\* Mutant: only the collectors' exit codes count.
CrashedCollector == \E c \in Collectors : exit[c] \notin {"alive", "ok"}

Crashed == \E w \in Workers : exit[w] \notin {"alive", "ok"}

\* The monitor drains the tracebacks and shuts down on a crash or when the
\* learner has finished.
LeaveMonitor ==
  /\ ppc = "monitor"
  /\ Crashed \/ ~Alive(Learner)
  /\ errors' = {}
  /\ stop' = TRUE
  /\ ppc' = "shutdown"
  /\ UNCHANGED <<wpc, exit, started, shipped, ready, work, ladder, faults>>

\* The shutdown ladder, as the monitor's finally clause runs it whether the
\* monitor was left by itself or by Ctrl+C.
InLadder == ppc \in {"shutdown", "interrupted"}

Joining == InLadder /\ turn <= LastTurn

\* The join of the child whose turn it is timed out, after the signal rung.
TimedOut(rung) == Joining /\ Alive(Child(turn)) /\ signal[Child(turn)] = rung

Send(s) ==
  /\ signal' = [signal EXCEPT ![Child(turn)] = s]
  /\ UNCHANGED <<turn, spared>>

NextChild == turn' = turn + 1 /\ UNCHANGED <<signal, spared>>

JoinReturns ==
  /\ Joining /\ ~Alive(Child(turn))
  /\ NextChild
  /\ UNCHANGED <<ppc, wpc, exit, sync, work, faults>>

Terminate ==
  /\ TimedOut("none") /\ Send("term")
  /\ UNCHANGED <<ppc, wpc, exit, sync, work, faults>>

\* Mutant: SIGTERM has to do.
PassOverTerminated ==
  /\ TimedOut("term") /\ NextChild
  /\ UNCHANGED <<ppc, wpc, exit, sync, work, faults>>

Escalate ==
  /\ TimedOut("term") /\ Send("kill")
  /\ UNCHANGED <<ppc, wpc, exit, sync, work, faults>>

\* The join after SIGKILL has its limit too: the ladder goes on with the
\* child still alive.
PassOver ==
  /\ TimedOut("kill") /\ NextChild
  /\ UNCHANGED <<ppc, wpc, exit, sync, work, faults>>

\* Every child had its turn; the exit codes there are by then decide (a
\* child still alive has none, which counts as no failure).
GiveVerdict ==
  /\ InLadder /\ turn > LastTurn
  /\ ppc' = IF ppc = "interrupted" \/ Crashed THEN "failed" ELSE "ok"
  /\ UNCHANGED <<wpc, exit, sync, work, ladder, faults>>

\* A signal of the ladder takes effect, sooner or later.
Dies(w) ==
  /\ Alive(w) /\ signal[w] \in {"term", "kill"}
  /\ exit' = [exit EXCEPT ![w] = "terminated"]
  /\ UNCHANGED <<ppc, wpc, sync, work, ladder, faults>>

-----------------------------------------------------------------------------
(* Faults.                                                                 *)

Fault(kind) == kind \in FaultKinds /\ faults < MaxFaults /\ faults' = faults + 1

\* An exception anywhere in a worker's run function.
WorkerError(w) ==
  /\ Fault("error") /\ Alive(w) /\ wpc[w] \notin {"raise", "stuck"}
  /\ Goto(w, "raise")
  /\ UNCHANGED <<ppc, exit, sync, work, ladder>>

\* A worker blocks in native code for good: neither the stop flag nor its
\* SIGINT handler reaches it any more.
Hang(w) ==
  /\ Fault("hang") /\ Alive(w) /\ wpc[w] # "stuck"
  /\ Goto(w, "stuck")
  /\ UNCHANGED <<ppc, exit, sync, work, ladder>>

\* A worker is killed outright: no clause of its run function is executed.
Kill(w) ==
  /\ Alive(w) /\ Fault(IF w = Learner THEN "killLearner" ELSE "killCollector")
  /\ exit' = [exit EXCEPT ![w] = "killed"]
  /\ UNCHANGED <<ppc, wpc, sync, work, ladder>>

\* Where an interrupted parent ends up.  Only in the monitor is a Ctrl+C
\* followed by the ladder; one in the ladder is not an Exception and leaves it.
Unwound == [boot |-> "aborted", handoff |-> "raised", monitor |-> "interrupted",
            shutdown |-> "raised", interrupted |-> "raised"]

\* Ctrl+C reaches the whole process group: the workers' handlers raise the
\* stop flag, the parent unwinds from wherever it is.
Interrupt ==
  /\ Fault("interrupt") /\ ppc \in DOMAIN Unwound
  /\ stop' = TRUE
  /\ started' = (started \/ ppc = "boot")
  /\ ppc' = Unwound[ppc]
  /\ UNCHANGED <<wpc, exit, shipped, ready, errors, work, ladder>>

\* Mutant: one handler around the loop over the children.
SignalFailsForAll ==
  /\ Fault("signalFails") /\ (TimedOut("none") \/ TimedOut("term"))
  /\ spared' = spared \cup {Child(turn)} /\ turn' = LastTurn + 1
  /\ UNCHANGED <<ppc, wpc, exit, sync, work, signal>>

\* terminate() or kill() raises: this child's rungs are over, the next one
\* has its turn.
SignalFails ==
  /\ Fault("signalFails") /\ (TimedOut("none") \/ TimedOut("term"))
  /\ spared' = spared \cup {Child(turn)} /\ turn' = turn + 1
  /\ UNCHANGED <<ppc, wpc, exit, sync, work, signal>>

-----------------------------------------------------------------------------
CollectorNext(c) ==
  \/ BootCollector(c) \/ AwaitSlots(c) \/ AwaitTimeout(c) \/ ReportReady(c)
  \/ WaitForStart(c) \/ CollectorStep(c) \/ CollectorDone(c) \/ RaiseError(c)

LearnerNext ==
  \/ BootLearner \/ ReportReady(Learner) \/ WaitForStart(Learner)
  \/ LearnerRound \/ LearnerLoopEnds \/ SaveFinal \/ RaiseError(Learner)

LadderNext == JoinReturns \/ Terminate \/ Escalate \/ PassOver \/ GiveVerdict

ParentNext ==
  \/ ReleaseBarrier \/ AbortBootOnError \/ AbortBootOnDeadline
  \/ LeaveHandoff \/ AbortHandoffOnError \/ LeaveMonitor \/ LadderNext

Faults == Interrupt \/ SignalFails \/ \E w \in Workers : WorkerError(w) \/ Hang(w) \/ Kill(w)

\* The run is over, or polls for ever for a worker that is stuck.
Over == (ppc \in Verdicts \/ \E w \in Workers : At(w, "stuck")) /\ UNCHANGED vars

Next == \/ \E c \in Collectors : CollectorNext(c)
        \/ \E w \in Workers : Dies(w)
        \/ LearnerNext \/ ParentNext \/ Faults \/ Over

Spec == Init /\ [][Next]_vars

\* Every process that is not stuck keeps running, joins do time out, and
\* SIGKILL does end a process; SIGTERM need not.
FairSpec ==
  /\ Spec
  /\ \A c \in Collectors : WF_vars(CollectorNext(c))
  /\ WF_vars(LearnerNext) /\ WF_vars(ParentNext)
  /\ \A w \in Workers : WF_vars(signal[w] = "kill" /\ Dies(w))

-----------------------------------------------------------------------------
TypeOK ==
  /\ ppc \in {"boot", "handoff", "monitor", "shutdown", "interrupted"} \cup Verdicts
  /\ wpc \in [Workers -> {"boot", "await", "report", "wait", "loop", "final", "raise", "stuck"}]
  /\ exit \in [Workers -> {"alive", "ok", "error", "killed", "terminated"}]
  /\ ready \subseteq Workers /\ errors \subseteq Workers /\ statsSent \subseteq Collectors
  /\ steps \in [Collectors -> 0..NumIterations] /\ merged \in 0..NumIterations
  /\ payload \in {"none", "warming", "trained"} /\ faults \in 0..MaxFaults
  /\ turn \in 1..(LastTurn + 1) /\ spared \subseteq Workers
  /\ signal \in [Workers -> {"none", "term", "kill"}]

\* A start-up that was aborted leaves no training behind it, however late
\* its workers wake up and however many had reported ready.
AbortedBootNeverTrains == [][ppc = "aborted" => AllSteps' = 0 /\ ~checkpoint']_vars

\* One stuck child never costs another its shutdown: when the ladder is
\* through, every worker has ended, or has got SIGKILL, or is one whose own
\* signal could not be sent.
LadderReachesAll ==
  ppc \in {"ok", "failed"} =>
    \A w \in Workers : ~Alive(w) \/ signal[w] = "kill" \/ w \in spared

\* Once begun the ladder comes to a verdict and to the end of every process
\* it could signal, whichever of them are stuck, unless a Ctrl+C breaks it off.
LadderEnds ==
  InLadder ~> \/ ppc = "raised"
              \/ ppc \in Verdicts /\ \A w \in Workers \ spared : ~Alive(w)

\* The parent reports success only if the learner trained through to its
\* final checkpoint.
SuccessHasCheckpoint == ppc = "ok" => checkpoint

\* Backpressure keeps any two collectors within one ring of each other, so
\* the first one to finish, which stops the run for all, cuts the others
\* short by no more than that.
CollectorsWithinOneRing ==
  /\ \A c, d \in Collectors : steps[c] - steps[d] <= Capacity
  /\ ppc = "ok" => \A c \in Collectors : steps[c] >= NumIterations - Capacity

\* Whatever fails, train() comes to an end and so does every process it
\* started, unless one of them is stuck for good.
RunEnds == <>(\/ \E w \in Workers : wpc[w] = "stuck"
              \/ ppc \in Verdicts /\ \A w \in Workers : ~Alive(w))
=============================================================================
