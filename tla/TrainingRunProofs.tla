------------------------- MODULE TrainingRunProofs -------------------------
(***************************************************************************)
(* Proofs about a training run: its processes and its live metrics.        *)
(*                                                                         *)
(* AsyncTrainer: the shutdown ladder reaches every child, backpressure     *)
(* keeps the collectors within one ring of each other, an aborted start-up *)
(* never trains, and success means that the final checkpoint was written.  *)
(*                                                                         *)
(* LiveMetrics: types, an exit loses no record that had to be kept, and    *)
(* both sinks implement the metrics channel.                               *)
(***************************************************************************)
EXTENDS AsyncTrainer, LiveMetrics, FiniteSetTheorems, SequenceTheorems,
        WellFoundedInduction, TLAPS

\* The verdicts and the ways to them that are not success.
Failing == {"aborted", "interrupted", "failed", "raised"}

Flags == stop \in BOOLEAN /\ started \in BOOLEAN /\ checkpoint \in BOOLEAN

\* The learner is behind every collector, and no collector is more than one
\* ring ahead of it.
Backpressure == \A c \in Collectors : merged <= steps[c] /\ steps[c] <= merged + Capacity

\* Until the barrier is released for good, nobody trains: it is closed, or
\* the stop flag sends home whoever it lets go.
StartsIdle ==
  /\ ppc = "boot" => ~started
  /\ ppc = "aborted" => stop
  /\ ppc \in {"boot", "aborted"} =>
       /\ \A w \in Workers : wpc[w] \notin {"loop", "final"}
       /\ \A c \in Collectors : steps[c] = 0
       /\ ~checkpoint

\* Before its loop the learner has ingested nothing.
NothingMerged == wpc[Learner] \in {"boot", "report", "wait"} => merged = 0

\* A worker that returned raised the stop flag.
ReturnStops == \A w \in Workers : exit[w] = "ok" => stop

\* What can have ended the training: a crash, a start-up or a monitor that
\* was left, or a collector with all its steps taken.
EndHasCause ==
  stop \/ wpc[Learner] = "final" \/ checkpoint =>
    \/ Crashed \/ ppc \in Failing
    \/ \E c \in Collectors : steps[c] = NumIterations

\* A learner that returned without a checkpoint never left the barrier.
ReturnSaves ==
  exit[Learner] = "ok" => checkpoint \/ Crashed \/ ppc \in Failing

\* The ladder starts behind a crash or the learner, success is given behind
\* a learner that returned from a run that some collector finished.
VerdictKnows ==
  /\ ppc = "shutdown" => Crashed \/ ~Alive(Learner)
  /\ ppc = "ok" => /\ exit[Learner] = "ok"
                   /\ \E c \in Collectors : steps[c] = NumIterations

Dealt(w) == ~Alive(w) \/ signal[w] = "kill" \/ w \in spared

\* Whoever had a turn in the ladder was dealt with, and a verdict comes after
\* the last one.
TurnsTaken ==
  /\ \A t \in 1..LastTurn : t < turn => Dealt(Child(t))
  /\ ppc \in {"ok", "failed"} => turn = LastTurn + 1

IInv == /\ TypeOK /\ Flags /\ Backpressure /\ StartsIdle /\ NothingMerged
        /\ ReturnStops /\ EndHasCause /\ VerdictKnows /\ TurnsTaken

-----------------------------------------------------------------------------
(* Types.                                                                  *)

\* The steps of a worker are those of a collector or of the learner.
WorkerStep(w) ==
  \/ ReportReady(w) \/ WaitForStart(w) \/ RaiseError(w)
  \/ WorkerError(w) \/ Hang(w) \/ Kill(w) \/ Dies(w)

LearnerStep == BootLearner \/ LearnerRound \/ LearnerLoopEnds \/ SaveFinal

CollectorOnly(c) ==
  BootCollector(c) \/ AwaitSlots(c) \/ AwaitTimeout(c) \/ CollectorStep(c) \/ CollectorDone(c)

LadderStep == JoinReturns \/ Terminate \/ Escalate \/ PassOver \/ SignalFails

ParentStep ==
  \/ ReleaseBarrier \/ AbortBootOnError \/ AbortBootOnDeadline
  \/ LeaveHandoff \/ AbortHandoffOnError \/ LeaveMonitor \/ GiveVerdict \/ Interrupt

LEMMA NextSplit ==
  ASSUME Next
  PROVE  \/ \E w \in Workers : WorkerStep(w)
         \/ LearnerStep
         \/ \E c \in Collectors : CollectorOnly(c)
         \/ ParentStep \/ LadderStep \/ Over
<1>1. Learner \in Workers /\ Collectors \subseteq Workers
  BY DEF Workers
<1> QED
  BY <1>1, Zenon DEF Next, CollectorNext, LearnerNext, ParentNext, LadderNext, Faults,
    WorkerStep, LearnerStep, CollectorOnly, ParentStep, LadderStep

\* A rung of the ladder moves nothing but the ladder.
LEMMA LadderFrame ==
  ASSUME LadderStep
  PROVE  /\ ppc' = ppc /\ wpc' = wpc /\ exit' = exit
         /\ UNCHANGED sync /\ UNCHANGED work
BY DEF LadderStep, JoinReturns, Terminate, Escalate, PassOver, SignalFails

LEMMA Processes ==
  /\ Learner \in Workers /\ Collectors \subseteq Workers /\ Learner \notin Collectors
  /\ 1 \in Collectors /\ IsFiniteSet(Collectors)
<1>1. NumCollectors \in Nat /\ NumCollectors >= 1
  BY TrainerAssumption
<1> QED
  BY <1>1, FS_Interval DEF Workers, Collectors, Learner

\* A set of naturals has a least member.
LEMMA LeastMember ==
  ASSUME NEW S, S \subseteq Nat, S # {}
  PROVE  \E n \in S : \A m \in S : n <= m
<1>1. PICK n \in S : \A m \in S : ~ (<<m, n>> \in OpToRel(<, Nat))
  BY NatLessThanWellFounded, WFMin
<1>2. \A m \in S : ~ (m < n)
  BY <1>1 DEF OpToRel
<1> QED
  BY <1>2

\* What the learner may ingest is what the slowest collector published.
LEMMA MergeableIsLeast ==
  ASSUME TypeOK
  PROVE  /\ Mergeable \in 0..NumIterations
         /\ \A c \in Collectors : Mergeable <= steps[c]
         /\ \E c \in Collectors : Mergeable = steps[c]
<1> DEFINE S == {steps[c] : c \in Collectors}
<1>1. steps \in [Collectors -> 0..NumIterations] /\ NumIterations \in Nat
  BY TrainerAssumption DEF TypeOK
<1>2. S \subseteq Nat /\ S # {}
  BY <1>1, Processes
<1>3. PICK n \in S : \A m \in S : n <= m
  <2> HIDE DEF S
  <2> QED BY <1>2, LeastMember
<1>4. /\ n \in 0..NumIterations
      /\ \A c \in Collectors : n <= steps[c]
      /\ \E c \in Collectors : n = steps[c]
  BY <1>1, <1>3
<1> QED
  BY <1>4 DEF Mergeable

\* Every turn of the ladder is a worker's, and every worker has one.
LEMMA ChildIsWorker ==
  /\ \A t \in 1..(LastTurn + 1) : Child(t) \in Workers
  /\ \A w \in Workers : \E t \in 1..LastTurn : w = Child(t)
<1>1. NumCollectors \in Nat /\ NumCollectors >= 1
  BY TrainerAssumption
<1>2. ASSUME NEW w \in Workers
      PROVE  \E t \in 1..LastTurn : w = Child(t)
  <2>1. CASE w \in Collectors
    BY <1>1, <2>1 DEF Collectors, Child, LastTurn
  <2>2. CASE w = Learner
    <3>1. LastTurn \in 1..LastTurn /\ Child(LastTurn) = Learner
      BY <1>1 DEF Child, LastTurn
    <3> QED BY <2>2, <3>1
  <2> QED BY <2>1, <2>2 DEF Workers
<1> QED
  BY <1>1, <1>2 DEF Workers, Collectors, Learner, Child, LastTurn

LEMMA TypesKept ==
  ASSUME TypeOK, Flags, [Next]_vars
  PROVE  TypeOK' /\ Flags'
<1> USE TrainerAssumption
<1>1. ASSUME NEW w \in Workers, WorkerStep(w)
      PROVE  TypeOK' /\ Flags'
  <2>1. CASE ReportReady(w)
    BY <2>1 DEF ReportReady, At, Goto, TypeOK, Flags, work, ladder
  <2>2. CASE WaitForStart(w)
    BY <2>2 DEF WaitForStart, Exit, At, Goto, TypeOK, Flags, work, ladder
  <2>3. CASE RaiseError(w)
    BY <2>3 DEF RaiseError, Exit, At, TypeOK, Flags, work, ladder
  <2>4. CASE WorkerError(w) \/ Hang(w) \/ Kill(w)
    BY <2>4 DEF WorkerError, Hang, Kill, Fault, Goto, TypeOK, Flags, sync, work, ladder
  <2>5. CASE Dies(w)
    BY <2>5 DEF Dies, TypeOK, Flags, sync, work, ladder
  <2> QED
    BY <1>1, <2>1, <2>2, <2>3, <2>4, <2>5 DEF WorkerStep
<1>2. CASE LearnerStep
  <2>1. CASE BootLearner
    BY <2>1 DEF BootLearner, Goto, TypeOK, Flags, work, ladder
  <2>2. CASE LearnerRound
    BY <2>2, MergeableIsLeast DEF LearnerRound, TypeOK, Flags, sync, ladder
  <2>3. CASE LearnerLoopEnds
    BY <2>3 DEF LearnerLoopEnds, Goto, TypeOK, Flags, sync, work, ladder
  <2>4. CASE SaveFinal
    BY <2>4, Processes DEF SaveFinal, Exit, TypeOK, Flags, ladder
  <2> QED
    BY <1>2, <2>1, <2>2, <2>3, <2>4 DEF LearnerStep
<1>3. ASSUME NEW c \in Collectors, CollectorOnly(c)
      PROVE  TypeOK' /\ Flags'
  <2>1. CASE BootCollector(c) \/ AwaitSlots(c) \/ AwaitTimeout(c)
    BY <2>1 DEF BootCollector, AwaitSlots, AwaitTimeout, Goto, TypeOK, Flags, sync, work, ladder
  <2>2. CASE CollectorStep(c)
    BY <2>2 DEF CollectorStep, StepsLeft, TypeOK, Flags, sync, ladder
  <2>3. CASE CollectorDone(c)
    BY <2>3 DEF CollectorDone, Exit, TypeOK, Flags, work, ladder
  <2> QED
    BY <1>3, <2>1, <2>2, <2>3 DEF CollectorOnly
<1>4. CASE ParentStep
  <2>1. CASE ReleaseBarrier \/ LeaveHandoff \/ LeaveMonitor \/ GiveVerdict
    BY <2>1 DEF ReleaseBarrier, LeaveHandoff, LeaveMonitor, GiveVerdict, Verdicts, TypeOK, Flags,
      sync, work, ladder
  <2>2. CASE AbortBootOnError \/ AbortBootOnDeadline \/ AbortHandoffOnError
    BY <2>2 DEF AbortBootOnError, AbortBootOnDeadline, AbortHandoffOnError, Abort, Verdicts, TypeOK,
      Flags, work, ladder
  <2>3. CASE Interrupt
    <3>1. ppc' \in {"interrupted", "aborted", "raised"}
      BY <2>3 DEF Interrupt, Unwound
    <3> QED BY <2>3, <3>1 DEF Interrupt, Fault, Verdicts, TypeOK, Flags, work, ladder
  <2> QED
    BY <1>4, <2>1, <2>2, <2>3 DEF ParentStep
<1>5. CASE LadderStep
  <2>1. turn \in 1..LastTurn + 1 /\ Child(turn) \in Workers
    BY ChildIsWorker DEF TypeOK
  <2>2. CASE JoinReturns \/ PassOver
    BY <2>1, <2>2 DEF JoinReturns, PassOver, NextChild, TimedOut, Joining, TypeOK, Flags, LastTurn,
      sync, work
  <2>3. CASE Terminate \/ Escalate
    BY <2>1, <2>3 DEF Terminate, Escalate, Send, TypeOK, Flags, sync, work, ladder
  <2>4. CASE SignalFails
    BY <2>1, <2>4 DEF SignalFails, Fault, TimedOut, Joining, TypeOK, Flags, LastTurn, sync, work
  <2> QED
    BY <1>5, <2>2, <2>3, <2>4 DEF LadderStep
<1>6. CASE Over \/ UNCHANGED vars
  BY <1>6 DEF Over, vars, TypeOK, Flags, sync, work, ladder
<1> QED
  BY <1>1, <1>2, <1>3, <1>4, <1>5, <1>6, NextSplit

-----------------------------------------------------------------------------
(* What no step undoes.                                                    *)

\* A process that has ended keeps its exit code.
LEMMA ExitsStay ==
  ASSUME TypeOK, [Next]_vars
  PROVE  \A w \in Workers : ~Alive(w) => exit'[w] = exit[w]
<1>1. ASSUME NEW w \in Workers, WorkerStep(w)
      PROVE  \A v \in Workers : ~Alive(v) => exit'[v] = exit[v]
  <2>1. CASE ReportReady(w) \/ WorkerError(w) \/ Hang(w)
    BY <2>1 DEF ReportReady, WorkerError, Hang
  <2>2. CASE WaitForStart(w) \/ RaiseError(w)
    BY <2>2 DEF WaitForStart, RaiseError, Exit, At, Alive, TypeOK
  <2>3. CASE Kill(w) \/ Dies(w)
    BY <2>3 DEF Kill, Dies, Alive, TypeOK
  <2> QED
    BY <1>1, <2>1, <2>2, <2>3 DEF WorkerStep
<1>2. CASE LearnerStep
  BY <1>2, Processes DEF LearnerStep, BootLearner, LearnerRound, LearnerLoopEnds, SaveFinal, Exit,
    At, Alive, TypeOK
<1>3. ASSUME NEW c \in Collectors, CollectorOnly(c)
      PROVE  \A v \in Workers : ~Alive(v) => exit'[v] = exit[v]
  BY <1>3, Processes DEF CollectorOnly, BootCollector, AwaitSlots, AwaitTimeout, CollectorStep,
    CollectorDone, Exit, At, Alive, TypeOK
<1>4. CASE ParentStep \/ LadderStep \/ Over \/ UNCHANGED vars
  BY <1>4, LadderFrame DEF ParentStep, ReleaseBarrier, AbortBootOnError, AbortBootOnDeadline, Abort,
    LeaveHandoff, AbortHandoffOnError, LeaveMonitor, GiveVerdict, Interrupt, Over, vars
<1> QED
  BY <1>1, <1>2, <1>3, <1>4, NextSplit

LEMMA CrashStays ==
  ASSUME TypeOK, [Next]_vars, Crashed
  PROVE  Crashed'
BY ExitsStay DEF Crashed, Alive

\* The parent's program counter is moved by its own steps alone.
LEMMA ParentMoves ==
  ASSUME [Next]_vars
  PROVE  ppc' = ppc \/ ParentStep
<1>1. ASSUME NEW w \in Workers, WorkerStep(w)
      PROVE  ppc' = ppc
  BY <1>1 DEF WorkerStep, ReportReady, WaitForStart, RaiseError, WorkerError, Hang, Kill,
    Dies
<1>2. CASE LearnerStep
  BY <1>2 DEF LearnerStep, BootLearner, LearnerRound, LearnerLoopEnds, SaveFinal
<1>3. ASSUME NEW c \in Collectors, CollectorOnly(c)
      PROVE  ppc' = ppc
  BY <1>3 DEF CollectorOnly, BootCollector, AwaitSlots, AwaitTimeout, CollectorStep, CollectorDone
<1> QED
  BY <1>1, <1>2, <1>3, LadderFrame, NextSplit DEF Over, vars

LEMMA FailureStays ==
  ASSUME [Next]_vars, ppc \in Failing
  PROVE  ppc' \in Failing
<1>1. ASSUME ParentStep
      PROVE  ppc' \in Failing
  BY <1>1 DEF ParentStep, ReleaseBarrier, AbortBootOnError, AbortBootOnDeadline, Abort,
    LeaveHandoff, AbortHandoffOnError, LeaveMonitor, GiveVerdict, InLadder, Interrupt, Unwound,
    Failing
<1> QED
  BY <1>1, ParentMoves

\* Steps are only ever added, and the stop flag stays up.
LEMMA ProgressStays ==
  ASSUME TypeOK, [Next]_vars
  PROVE  /\ \A c \in Collectors : steps[c] = NumIterations => steps'[c] = NumIterations
         /\ stop => stop'
         /\ checkpoint => checkpoint'
<1>1. ASSUME NEW w \in Workers, WorkerStep(w)
      PROVE  steps' = steps /\ (stop => stop') /\ checkpoint' = checkpoint
  BY <1>1 DEF WorkerStep, ReportReady, WaitForStart, RaiseError, WorkerError, Hang, Kill,
    Dies, Exit, sync, work
<1>2. CASE LearnerStep
  BY <1>2 DEF LearnerStep, BootLearner, LearnerRound, LearnerLoopEnds, SaveFinal, Exit, sync, work
<1>3. ASSUME NEW c \in Collectors, CollectorOnly(c)
      PROVE  /\ \A d \in Collectors : steps[d] = NumIterations => steps'[d] = NumIterations
             /\ stop => stop'
             /\ checkpoint' = checkpoint
  <2>1. CASE CollectorStep(c)
    BY <2>1, TrainerAssumption DEF CollectorStep, StepsLeft, TypeOK, sync
  <2>2. CASE ~CollectorStep(c)
    BY <1>3, <2>2 DEF CollectorOnly, BootCollector, AwaitSlots, AwaitTimeout, CollectorDone, Exit,
      sync, work
  <2> QED
    BY <2>1, <2>2
<1>4. CASE ParentStep \/ LadderStep \/ Over \/ UNCHANGED vars
  BY <1>4, LadderFrame DEF ParentStep, ReleaseBarrier, AbortBootOnError, AbortBootOnDeadline, Abort,
    LeaveHandoff, AbortHandoffOnError, LeaveMonitor, GiveVerdict,
    Interrupt, Over, vars, sync, work
<1> QED
  BY <1>1, <1>2, <1>3, <1>4, NextSplit

-----------------------------------------------------------------------------
(* The inductive invariant, part by part.                                  *)

\* The learner ingests up to the slowest collector and no collector steps
\* without room in its ring.
LEMMA BackpressureKept ==
  ASSUME TypeOK, Backpressure, [Next]_vars
  PROVE  Backpressure'
<1> USE TrainerAssumption DEF Backpressure
<1>1. ASSUME NEW w \in Workers, WorkerStep(w)
      PROVE  steps' = steps /\ merged' = merged
  BY <1>1 DEF WorkerStep, ReportReady, WaitForStart, RaiseError, WorkerError, Hang, Kill,
    Dies, work
<1>2. CASE LearnerRound
  <2>1. /\ Mergeable \in 0..NumIterations
        /\ \A c \in Collectors : Mergeable <= steps[c]
        /\ \E c \in Collectors : Mergeable = steps[c]
    BY MergeableIsLeast
  <2>2. merged' = Mergeable /\ steps' = steps
    BY <1>2 DEF LearnerRound
  <2>3. merged <= Mergeable
    BY <2>1
  <2> QED
    BY <2>1, <2>2, <2>3 DEF TypeOK
<1>3. CASE BootLearner \/ LearnerLoopEnds \/ SaveFinal
  BY <1>3 DEF BootLearner, LearnerLoopEnds, SaveFinal, work
<1>4. ASSUME NEW c \in Collectors, CollectorStep(c)
      PROVE  Backpressure'
  BY <1>4 DEF CollectorStep, RingHasRoom, TypeOK
<1>5. ASSUME NEW c \in Collectors, CollectorOnly(c), ~CollectorStep(c)
      PROVE  Backpressure'
  BY <1>5 DEF CollectorOnly, BootCollector, AwaitSlots, AwaitTimeout, CollectorDone, work
<1>6. CASE ParentStep \/ LadderStep \/ Over \/ UNCHANGED vars
  BY <1>6, LadderFrame DEF ParentStep, ReleaseBarrier, AbortBootOnError, AbortBootOnDeadline, Abort,
    LeaveHandoff, AbortHandoffOnError, LeaveMonitor, GiveVerdict,
    Interrupt, Over, vars, work
<1> QED
  BY <1>1, <1>2, <1>3, <1>4, <1>5, <1>6, NextSplit DEF LearnerStep

\* During start-up the barrier is opened only with the stop flag up, which
\* sends whoever waits home.
LEMMA StartKept ==
  ASSUME TypeOK, Flags, StartsIdle, [Next]_vars
  PROVE  StartsIdle'
<1> USE TrainerAssumption DEF StartsIdle
<1>1. ASSUME NEW w \in Workers, WorkerStep(w)
      PROVE  StartsIdle'
  <2>1. CASE ReportReady(w)
    BY <2>1 DEF ReportReady, Goto, TypeOK, work
  <2>2. CASE WaitForStart(w)
    BY <2>2 DEF WaitForStart, Exit, Goto, TypeOK, work
  <2>3. CASE RaiseError(w)
    BY <2>3 DEF RaiseError, Exit, work
  <2>4. CASE WorkerError(w) \/ Hang(w)
    BY <2>4 DEF WorkerError, Hang, Goto, TypeOK, sync, work
  <2>5. CASE Kill(w) \/ Dies(w)
    BY <2>5 DEF Kill, Dies, sync, work
  <2> QED
    BY <1>1, <2>1, <2>2, <2>3, <2>4, <2>5 DEF WorkerStep
<1>2. CASE LearnerStep
  BY <1>2, Processes DEF LearnerStep, BootLearner, LearnerRound, LearnerLoopEnds, SaveFinal, Exit,
    At, Goto, TypeOK, sync, work
<1>3. ASSUME NEW c \in Collectors, CollectorOnly(c)
      PROVE  StartsIdle'
  <2>1. CASE BootCollector(c) \/ AwaitSlots(c) \/ AwaitTimeout(c)
    BY <2>1, Processes DEF BootCollector, AwaitSlots, AwaitTimeout, Goto, TypeOK, sync, work
  <2>2. CASE CollectorStep(c) \/ CollectorDone(c)
    BY <2>2, Processes DEF CollectorStep, CollectorDone, Exit, At, work, sync
  <2> QED
    BY <1>3, <2>1, <2>2 DEF CollectorOnly
<1>4. CASE ParentStep
  BY <1>4 DEF ParentStep, ReleaseBarrier, AbortBootOnError, AbortBootOnDeadline, Abort,
    LeaveHandoff, AbortHandoffOnError, LeaveMonitor, GiveVerdict, InLadder, Interrupt, Unwound,
    sync, work
<1>5. CASE LadderStep \/ Over \/ UNCHANGED vars
  BY <1>5, LadderFrame DEF Over, vars, sync, work
<1> QED
  BY <1>1, <1>2, <1>3, <1>4, <1>5, NextSplit

LEMMA NothingMergedKept ==
  ASSUME TypeOK, NothingMerged, [Next]_vars
  PROVE  NothingMerged'
<1> USE DEF NothingMerged
<1>1. ASSUME NEW w \in Workers, WorkerStep(w)
      PROVE  NothingMerged'
  <2>1. CASE ReportReady(w) \/ WorkerError(w) \/ Hang(w)
    BY <2>1, Processes DEF ReportReady, WorkerError, Hang, At, Goto, TypeOK, work
  <2>2. CASE WaitForStart(w)
    BY <2>2, Processes DEF WaitForStart, At, Goto, TypeOK, work
  <2>3. CASE RaiseError(w) \/ Kill(w) \/ Dies(w)
    BY <2>3 DEF RaiseError, Kill, Dies, work
  <2> QED
    BY <1>1, <2>1, <2>2, <2>3 DEF WorkerStep
<1>2. CASE LearnerStep
  BY <1>2, Processes DEF LearnerStep, BootLearner, LearnerRound, LearnerLoopEnds, SaveFinal,
    At, Goto, TypeOK, work
<1>3. ASSUME NEW c \in Collectors, CollectorOnly(c)
      PROVE  NothingMerged'
  BY <1>3, Processes DEF CollectorOnly, BootCollector, AwaitSlots, AwaitTimeout, CollectorStep,
    CollectorDone, Goto, TypeOK, work
<1>4. CASE ParentStep \/ LadderStep \/ Over \/ UNCHANGED vars
  BY <1>4, LadderFrame DEF ParentStep, ReleaseBarrier, AbortBootOnError, AbortBootOnDeadline, Abort,
    LeaveHandoff, AbortHandoffOnError, LeaveMonitor, GiveVerdict,
    Interrupt, Over, vars, work
<1> QED
  BY <1>1, <1>2, <1>3, <1>4, NextSplit

\* Only a run function that returns exits with "ok", and its finally clause
\* raises the flag.
LEMMA ReturnStopsKept ==
  ASSUME TypeOK, ReturnStops, [Next]_vars
  PROVE  ReturnStops'
<1> USE DEF ReturnStops
<1>1. ASSUME NEW w \in Workers, WorkerStep(w)
      PROVE  ReturnStops'
  <2>1. CASE ReportReady(w) \/ WorkerError(w) \/ Hang(w)
    BY <2>1 DEF ReportReady, WorkerError, Hang, sync
  <2>2. CASE WaitForStart(w)
    BY <2>2 DEF WaitForStart, Exit
  <2>3. CASE RaiseError(w)
    BY <2>3 DEF RaiseError, Exit
  <2>4. CASE Kill(w) \/ Dies(w)
    BY <2>4 DEF Kill, Dies, TypeOK, sync
  <2> QED
    BY <1>1, <2>1, <2>2, <2>3, <2>4 DEF WorkerStep
<1>2. CASE LearnerStep
  BY <1>2 DEF LearnerStep, BootLearner, LearnerRound, LearnerLoopEnds, SaveFinal, Exit, sync
<1>3. ASSUME NEW c \in Collectors, CollectorOnly(c)
      PROVE  ReturnStops'
  BY <1>3 DEF CollectorOnly, BootCollector, AwaitSlots, AwaitTimeout, CollectorStep,
    CollectorDone, Exit, sync
<1>4. CASE ParentStep \/ LadderStep \/ Over \/ UNCHANGED vars
  BY <1>4, LadderFrame DEF ParentStep, ReleaseBarrier, AbortBootOnError, AbortBootOnDeadline, Abort,
    LeaveHandoff, AbortHandoffOnError, LeaveMonitor, GiveVerdict,
    Interrupt, Over, vars, sync
<1> QED
  BY <1>1, <1>2, <1>3, <1>4, NextSplit

\* Success is given only to a learner that returned, and then some collector
\* had taken all its steps: nothing else can have raised the stop flag.
LEMMA VerdictKept ==
  ASSUME TypeOK, ReturnStops, EndHasCause, VerdictKnows, [Next]_vars
  PROVE  VerdictKnows'
<1> USE DEF VerdictKnows
<1>1. CASE ppc' = ppc
  BY <1>1, Processes, ExitsStay, CrashStays, ProgressStays DEF Alive
<1>2. CASE GiveVerdict
  <2> SUFFICES ASSUME ppc' = "ok"
               PROVE  exit'[Learner] = "ok" /\ \E c \in Collectors : steps'[c] = NumIterations
    BY <1>2 DEF GiveVerdict
  <2>1. ppc = "shutdown" /\ ~Crashed /\ exit' = exit /\ steps' = steps
    BY <1>2 DEF GiveVerdict, InLadder, work
  <2>2. exit[Learner] = "ok"
    BY <2>1, Processes DEF Crashed, Alive
  <2>3. \E c \in Collectors : steps[c] = NumIterations
    BY <2>1, <2>2, Processes DEF ReturnStops, EndHasCause, Failing
  <2> QED BY <2>1, <2>2, <2>3
<1>3. CASE LeaveMonitor
  BY <1>3 DEF LeaveMonitor, Crashed, Alive
<1>4. ASSUME ParentStep, ~GiveVerdict, ~LeaveMonitor
      PROVE  ppc' \notin {"shutdown", "ok"}
  BY <1>4 DEF ParentStep, ReleaseBarrier, AbortBootOnError, AbortBootOnDeadline, Abort,
    LeaveHandoff, AbortHandoffOnError, Interrupt, Unwound
<1> QED
  BY <1>1, <1>2, <1>3, <1>4, ParentMoves

\* Who was dealt with stays so, and the turn passes on only behind a child
\* that is: it has ended, was sent SIGKILL, or could not be signalled.
LEMMA TurnsKept ==
  ASSUME TypeOK, TurnsTaken, [Next]_vars
  PROVE  TurnsTaken'
<1> USE DEF TurnsTaken
<1>1. CASE UNCHANGED ladder
  <2>1. \A w \in Workers : Dealt(w) => Dealt(w)'
    BY <1>1, ExitsStay DEF Dealt, Alive, ladder
  <2>2. \A t \in 1..LastTurn : Child(t) \in Workers
    BY ChildIsWorker, TrainerAssumption DEF LastTurn
  <2>3. \A t \in 1..LastTurn : t < turn' => Dealt(Child(t))'
    BY <1>1, <2>1, <2>2 DEF ladder, Child
  <2>4. ppc' \in {"ok", "failed"} => turn' = LastTurn + 1
    <3>1. CASE ppc' = ppc
      BY <1>1, <3>1 DEF ladder
    <3>2. CASE GiveVerdict
      BY <1>1, <3>2, TrainerAssumption DEF GiveVerdict, ladder, TypeOK, LastTurn
    <3>3. ASSUME ParentStep, ~GiveVerdict
          PROVE  ppc' \notin {"ok", "failed"}
      BY <3>3 DEF ParentStep, ReleaseBarrier, AbortBootOnError, AbortBootOnDeadline, Abort,
        LeaveHandoff, AbortHandoffOnError, LeaveMonitor, Interrupt, Unwound
    <3> QED BY <3>1, <3>2, <3>3, ParentMoves
  <2> QED BY <2>3, <2>4
<1>2. CASE LadderStep
  <2>1. turn \in 1..LastTurn /\ InLadder /\ ppc' = ppc /\ exit' = exit
    BY <1>2, LadderFrame, TrainerAssumption DEF LadderStep, JoinReturns, Terminate, Escalate,
      PassOver, SignalFails, TimedOut, Joining, TypeOK, LastTurn
  <2>2. PICK v \in Workers : v = Child(turn)
    BY <2>1, ChildIsWorker, TrainerAssumption DEF LastTurn
  <2>3. v = Child(turn) /\ signal \in [Workers -> {"none", "term", "kill"}]
    BY <2>2 DEF TypeOK
  <2>4. \A w \in Workers : Dealt(w) => Dealt(w)'
    <3>1. CASE JoinReturns \/ PassOver \/ SignalFails
      BY <2>1, <3>1 DEF Dealt, Alive, JoinReturns, PassOver, SignalFails, NextChild
    <3>2. CASE Terminate \/ Escalate
      <4>1. signal[v] # "kill" /\ spared' = spared
        BY <2>3, <3>2 DEF Terminate, Escalate, TimedOut, Send
      <4>2. \A w \in Workers : w # v => signal'[w] = signal[w]
        BY <2>3, <3>2 DEF Terminate, Escalate, Send
      <4> QED BY <2>1, <4>1, <4>2 DEF Dealt, Alive
    <3> QED BY <1>2, <3>1, <3>2 DEF LadderStep
  <2>5. turn' = turn \/ (turn' = turn + 1 /\ Dealt(v)')
    BY <1>2, <2>1, <2>3 DEF Dealt, Alive, LadderStep, JoinReturns, Terminate, Escalate, PassOver,
      SignalFails, NextChild, Send, TimedOut
  <2>6. \A t \in 1..LastTurn : Child(t) \in Workers
    BY ChildIsWorker, TrainerAssumption DEF LastTurn
  <2>7. ASSUME NEW t \in 1..LastTurn, t < turn'
        PROVE  Dealt(Child(t))'
    <3>1. t < turn \/ t = turn
      BY <2>1, <2>5, <2>7
    <3>2. CASE t < turn
      BY <2>4, <2>6, <3>2 DEF Child
    <3>3. CASE t = turn /\ ~ (t < turn)
      <4>1. Child(t) = v /\ Dealt(v)'
        BY <2>2, <2>1, <2>5, <2>7, <3>3
      <4> QED BY <4>1 DEF Child
    <3> QED BY <3>1, <3>2, <3>3
  <2> QED BY <2>1, <2>7 DEF InLadder
<1>3. ASSUME NEW w \in Workers, WorkerStep(w)
      PROVE  UNCHANGED ladder
  BY <1>3 DEF WorkerStep, ReportReady, WaitForStart, RaiseError, WorkerError, Hang, Kill, Dies
<1>4. CASE LearnerStep
  BY <1>1, <1>4 DEF LearnerStep, BootLearner, LearnerRound, LearnerLoopEnds, SaveFinal
<1>5. ASSUME NEW c \in Collectors, CollectorOnly(c)
      PROVE  UNCHANGED ladder
  BY <1>5 DEF CollectorOnly, BootCollector, AwaitSlots, AwaitTimeout, CollectorStep, CollectorDone
<1>6. CASE ParentStep \/ Over \/ UNCHANGED vars
  BY <1>1, <1>6 DEF ParentStep, ReleaseBarrier, AbortBootOnError, AbortBootOnDeadline, Abort,
    LeaveHandoff, AbortHandoffOnError, LeaveMonitor, GiveVerdict, Interrupt, Over, vars
<1> QED
  BY <1>1, <1>2, <1>3, <1>4, <1>5, <1>6, NextSplit

-----------------------------------------------------------------------------
(* Control.collector_steps: what the sum over all collectors says of each. *)

\* Induction over the naturals, for a set rather than a predicate.
LEMMA SetInduction ==
  ASSUME NEW S, 0 \in S, \A n \in Nat : n \in S => n + 1 \in S
  PROVE  Nat \subseteq S
<1> SUFFICES ASSUME Nat \ S # {} PROVE FALSE
  OBVIOUS
<1>1. PICK n \in Nat \ S : \A m \in Nat \ S : n <= m
  <2> DEFINE T == Nat \ S
  <2>1. T \subseteq Nat /\ T # {}
    OBVIOUS
  <2> HIDE DEF T
  <2>2. \E n \in T : \A m \in T : n <= m
    BY <2>1, LeastMember
  <2> QED BY <2>2 DEF T
<1>2. n - 1 \in Nat /\ n - 1 + 1 = n
  BY <1>1
<1>3. n - 1 \in S
  BY <1>1, <1>2
<1> QED
  BY <1>1, <1>2, <1>3

Chosen(s) == CHOOSE c \in s : TRUE

\* The sum over s, given the sums over smaller sets.
SumStep(sum, s) == IF s = {} THEN 0 ELSE steps[Chosen(s)] + sum[s \ {Chosen(s)}]

Small(n) == {s \in SUBSET Collectors : Cardinality(s) <= n}

\* The sums over the sets of at most n collectors exist.
SumsExist(n) == \E sum \in [Small(n) -> Nat] : \A s \in Small(n) : sum[s] = SumStep(sum, s)

LEMMA Sizes ==
  /\ \A s \in SUBSET Collectors : Cardinality(s) \in Nat /\ (Cardinality(s) = 0 <=> s = {})
  /\ Cardinality(Collectors) = NumCollectors
<1>1. \A s \in SUBSET Collectors : IsFiniteSet(s)
  BY Processes, FS_Subset
<1>2. NumCollectors \in Nat /\ NumCollectors >= 1
  BY TrainerAssumption
<1>3. Cardinality(1..NumCollectors) = NumCollectors
  BY <1>2, FS_Interval
<1> QED
  BY <1>1, <1>3, FS_CardinalityType, FS_EmptySet DEF Collectors

LEMMA SmallerSet ==
  ASSUME NEW s \in SUBSET Collectors, s # {}
  PROVE  /\ Chosen(s) \in s /\ s \ {Chosen(s)} \in SUBSET Collectors
         /\ Cardinality(s) \in Nat /\ Cardinality(s \ {Chosen(s)}) = Cardinality(s) - 1
<1>1. Chosen(s) \in s
  BY DEF Chosen
<1>2. IsFiniteSet(s)
  BY Processes, FS_Subset
<1> QED
  BY <1>1, <1>2, FS_RemoveElement, FS_CardinalityType

LEMMA SumsExistForAll ==
  ASSUME TypeOK
  PROVE  \A n \in Nat : SumsExist(n)
<1> DEFINE S == {n \in Nat : SumsExist(n)}
<1>0. steps \in [Collectors -> Nat]
  BY TrainerAssumption DEF TypeOK
<1>1. 0 \in S
  <2>1. Small(0) = {{}}
    BY Sizes DEF Small
  <2>2. \A s \in Small(0) : s = {}
    BY <2>1
  <2> DEFINE sum == [s \in Small(0) |-> 0]
  <2>3. sum \in [Small(0) -> Nat] /\ \A s \in Small(0) : sum[s] = SumStep(sum, s)
    BY <2>2 DEF SumStep
  <2> QED
    BY <2>3 DEF SumsExist
<1>2. ASSUME NEW n \in Nat, n \in S
      PROVE  n + 1 \in S
  <2>1. PICK sum \in [Small(n) -> Nat] : \A s \in Small(n) : sum[s] = SumStep(sum, s)
    BY <1>2 DEF SumsExist
  <2> DEFINE more == [s \in Small(n + 1) |-> SumStep(sum, s)]
  <2>2. \A s \in Small(n + 1) : s # {} => /\ s \ {Chosen(s)} \in Small(n) /\ Chosen(s) \in Collectors
    BY SmallerSet DEF Small
  <2>3. \A s \in Small(n) : s \in Small(n + 1)
    <3>1. \A s \in SUBSET Collectors : Cardinality(s) \in Nat
      BY Sizes
    <3> QED BY <3>1 DEF Small
  <2>4. more \in [Small(n + 1) -> Nat]
    BY <1>0, <2>2 DEF SumStep
  <2>5. \A s \in Small(n) : more[s] = sum[s]
    BY <2>1, <2>3
  <2>6. \A s \in Small(n + 1) : more[s] = SumStep(more, s)
    BY <2>2, <2>5 DEF SumStep
  <2>7. SumsExist(n + 1)
    BY <2>4, <2>6 DEF SumsExist
  <2> QED
    BY <2>7
<1>3. Nat \subseteq S
  <2> HIDE DEF S
  <2> QED BY <1>1, <1>2, SetInduction
<1> QED
  BY <1>3

\* The total is such a sum over all collectors.
LEMMA TotalIsASum ==
  ASSUME TypeOK
  PROVE  \E sum : /\ \A s \in SUBSET Collectors : sum[s] = SumStep(sum, s)
                  /\ AllSteps = sum[Collectors]
<1> DEFINE Body(f) == [s \in SUBSET Collectors |-> SumStep(f, s)]
           sum == CHOOSE f : f = Body(f)
<1>1. Small(NumCollectors) = SUBSET Collectors
  <2>1. \A s \in SUBSET Collectors : Cardinality(s) <= NumCollectors
    BY Sizes, Processes, FS_Subset
  <2> QED BY <2>1 DEF Small
<1>2. PICK f \in [SUBSET Collectors -> Nat] : \A s \in SUBSET Collectors : f[s] = SumStep(f, s)
  BY <1>1, SumsExistForAll, TrainerAssumption DEF SumsExist
<1>3. f = Body(f)
  BY <1>2
<1>4. sum = Body(sum)
  BY <1>3, Zenon
<1>5. DOMAIN steps = Collectors
  BY DEF TypeOK
<1>6. AllSteps = sum[Collectors]
  BY <1>5 DEF AllSteps, SumFunction, SumFunctionOnSet, FoldFunctionOnSet, MapThenFoldSet, SumStep, Chosen
<1>7. \A s \in SUBSET Collectors : sum[s] = SumStep(sum, s)
  <2> HIDE DEF sum
  <2> QED BY <1>4
<1> QED
  BY <1>6, <1>7, Zenon

\* A sum of step counts is natural, is the most it can be only if every
\* collector has taken all its steps, and is zero if none has taken any.
SumBound(sum, s) ==
  /\ sum[s] \in Nat /\ sum[s] <= NumIterations * Cardinality(s)
  /\ (\E c \in s : steps[c] < NumIterations) => sum[s] < NumIterations * Cardinality(s)
  /\ (\A c \in s : steps[c] = 0) => sum[s] = 0

LEMMA SumsBounded ==
  ASSUME TypeOK, NEW sum, \A s \in SUBSET Collectors : sum[s] = SumStep(sum, s)
  PROVE  \A s \in SUBSET Collectors : SumBound(sum, s)
<1> DEFINE S == {n \in Nat : \A s \in SUBSET Collectors : Cardinality(s) = n => SumBound(sum, s)}
<1>0. steps \in [Collectors -> 0..NumIterations] /\ NumIterations \in Nat
  BY TrainerAssumption DEF TypeOK
<1>1. 0 \in S
  <2>1. SumBound(sum, {})
    <3>1. Cardinality({}) = 0
      BY Sizes
    <3>2. sum[{}] = 0
      BY DEF SumStep
    <3>3. NumIterations * 0 = 0
      BY <1>0, SMT
    <3> QED BY <3>1, <3>2, <3>3 DEF SumBound
  <2> QED
    BY <2>1, Sizes
<1>2. ASSUME NEW n \in Nat, n \in S
      PROVE  n + 1 \in S
  <2> SUFFICES ASSUME NEW s \in SUBSET Collectors, Cardinality(s) = n + 1
               PROVE  SumBound(sum, s)
    OBVIOUS
  <2>1. s # {}
    BY Sizes
  <2> DEFINE c == Chosen(s)
             r == s \ {c}
  <2>2. c \in s /\ c \in Collectors /\ r \in SUBSET Collectors /\ Cardinality(r) = n
    BY <2>1, SmallerSet
  <2>3. SumBound(sum, r)
    BY <1>2, <2>2
  <2>4. sum[s] = steps[c] + sum[r]
    BY <2>1 DEF SumStep
  <2>5. NumIterations * (n + 1) = NumIterations * n + NumIterations /\ NumIterations * n \in Nat
    BY <1>0, SMT
  <2>6. \A d \in s : d = c \/ d \in r
    OBVIOUS
  <2> DEFINE k == NumIterations * n
             full == NumIterations * (n + 1)
  <2> HIDE DEF c, r, k, full
  <2>7. /\ sum[r] \in Nat /\ sum[r] <= k
        /\ (\E d \in r : steps[d] < NumIterations) => sum[r] < k
        /\ (\A d \in r : steps[d] = 0) => sum[r] = 0
    BY <2>2, <2>3 DEF SumBound, k
  <2>8. full = k + NumIterations /\ k \in Nat
    BY <2>5 DEF k, full
  <2>9. /\ sum[s] \in Nat /\ sum[s] <= full
        /\ (\E d \in s : steps[d] < NumIterations) => sum[s] < full
        /\ (\A d \in s : steps[d] = 0) => sum[s] = 0
    <3>1. steps[c] \in Nat /\ steps[c] <= NumIterations
      BY <1>0, <2>2
    <3>2. ASSUME NEW d \in s, steps[d] < NumIterations
          PROVE  sum[s] < full
      BY <1>0, <2>4, <2>6, <2>7, <2>8, <3>1, <3>2
    <3>3. ASSUME \A d \in s : steps[d] = 0
          PROVE  sum[s] = 0
      BY <2>2, <2>4, <2>7, <3>3 DEF r
    <3> QED BY <1>0, <2>4, <2>7, <2>8, <3>1, <3>2, <3>3
  <2> QED
    BY <2>9 DEF SumBound, full
<1>3. Nat \subseteq S
  <2> HIDE DEF S
  <2> QED BY <1>1, <1>2, SetInduction
<1> QED
  BY <1>3, Sizes

LEMMA TotalFacts ==
  ASSUME TypeOK
  PROVE  /\ AllSteps \in Nat
         /\ AllSteps >= Total => \A c \in Collectors : steps[c] = NumIterations
         /\ (\A c \in Collectors : steps[c] = 0) => AllSteps = 0
<1>1. PICK sum : /\ \A s \in SUBSET Collectors : sum[s] = SumStep(sum, s)
                 /\ AllSteps = sum[Collectors]
  BY TotalIsASum
<1>2. SumBound(sum, Collectors)
  BY <1>1, SumsBounded
<1>3. steps \in [Collectors -> 0..NumIterations] /\ NumIterations \in Nat /\ NumCollectors \in Nat
  BY TrainerAssumption DEF TypeOK
<1>4. Total \in Nat /\ Total = NumIterations * Cardinality(Collectors)
  BY <1>3, Sizes, SMT DEF Total
<1> QED
  BY <1>1, <1>2, <1>3, <1>4 DEF SumBound

-----------------------------------------------------------------------------
(* Why a run can end.                                                      *)

Caused == Crashed \/ ppc \in Failing \/ \E c \in Collectors : steps[c] = NumIterations

LEMMA CauseStays ==
  ASSUME TypeOK, [Next]_vars, Caused
  PROVE  Caused'
BY CrashStays, FailureStays, ProgressStays DEF Caused

\* Training ends for a cause: whoever raises the stop flag, leaves the
\* learner's loop or saves has one, or follows one that has.
LEMMA CauseKept ==
  ASSUME TypeOK, TypeOK', Flags, ReturnStops, EndHasCause, [Next]_vars
  PROVE  EndHasCause'
<1> USE DEF EndHasCause
<1>1. stop \/ wpc[Learner] = "final" \/ checkpoint => Caused'
  BY CauseStays DEF Caused
<1>2. ASSUME NEW w \in Workers, WorkerStep(w)
      PROVE  stop' \/ wpc'[Learner] = "final" \/ checkpoint' => Caused'
  <2>1. CASE ReportReady(w) \/ WorkerError(w) \/ Hang(w)
    BY <1>1, <2>1, Processes DEF ReportReady, WorkerError, Hang, Goto, TypeOK, sync, work
  <2>2. CASE WaitForStart(w)
    BY <1>1, <2>2, Processes DEF WaitForStart, Goto, TypeOK, work
  <2>3. CASE RaiseError(w)
    <3>1. exit'[w] = "error"
      BY <2>3 DEF RaiseError, Exit, TypeOK
    <3> QED BY <3>1 DEF Caused, Crashed
  <2>4. CASE Kill(w) \/ Dies(w)
    BY <1>1, <2>4 DEF Kill, Dies, sync, work
  <2> QED
    BY <1>2, <2>1, <2>2, <2>3, <2>4 DEF WorkerStep
<1>3. ASSUME LearnerStep
      PROVE  stop' \/ wpc'[Learner] = "final" \/ checkpoint' => Caused'
  <2>1. CASE BootLearner \/ LearnerRound
    BY <1>1, <2>1, Processes DEF BootLearner, LearnerRound, Goto, TypeOK, sync, work
  <2>2. CASE LearnerLoopEnds
    <3>1. CASE stop
      BY <1>1, <3>1
    <3>2. CASE AllSteps >= Total
      <4>1. steps[1] = NumIterations /\ 1 \in Collectors
        <5>1. 1 \in Collectors
          BY Processes
        <5>2. \A c \in Collectors : steps[c] = NumIterations
          BY <1>1, <3>2, TotalFacts
        <5> QED BY ONLY <5>1, <5>2
      <4>2. Caused
        BY <4>1 DEF Caused
      <4> QED BY <4>2, CauseStays
    <3> QED BY <2>2, <3>1, <3>2 DEF LearnerLoopEnds
  <2>3. CASE SaveFinal
    BY <1>1, <2>3 DEF SaveFinal, At
  <2> QED
    BY <1>3, <2>1, <2>2, <2>3 DEF LearnerStep
<1>4. ASSUME NEW c \in Collectors, CollectorOnly(c)
      PROVE  stop' \/ wpc'[Learner] = "final" \/ checkpoint' => Caused'
  <2>1. CASE BootCollector(c) \/ AwaitSlots(c) \/ AwaitTimeout(c) \/ CollectorStep(c)
    BY <1>1, <2>1, Processes DEF BootCollector, AwaitSlots, AwaitTimeout, CollectorStep, Goto,
      TypeOK, sync, work
  <2>2. CASE CollectorDone(c)
    <3>1. CASE stop
      BY <1>1, <3>1
    <3>2. CASE ~StepsLeft(c)
      <4>1. steps[c] = NumIterations
        BY <3>2, TrainerAssumption DEF StepsLeft, TypeOK
      <4>2. Caused
        BY <4>1 DEF Caused
      <4> QED BY <4>2, CauseStays
    <3> QED BY <2>2, <3>1, <3>2 DEF CollectorDone
  <2> QED
    BY <1>4, <2>1, <2>2 DEF CollectorOnly
<1>5. ASSUME ParentStep
      PROVE  stop' \/ wpc'[Learner] = "final" \/ checkpoint' => Caused'
  <2>1. CASE ReleaseBarrier \/ LeaveHandoff \/ GiveVerdict
    BY <1>1, <2>1 DEF ReleaseBarrier, LeaveHandoff, GiveVerdict, sync, work
  <2>2. CASE AbortBootOnError \/ AbortBootOnDeadline \/ AbortHandoffOnError
    BY <2>2 DEF AbortBootOnError, AbortBootOnDeadline, AbortHandoffOnError, Abort, Caused, Failing
  <2>3. CASE LeaveMonitor
    <3>1. Crashed \/ exit[Learner] = "ok"
      BY <2>3, Processes DEF LeaveMonitor, Crashed, Alive, TypeOK
    <3>2. CASE Crashed
      BY <3>2, CauseStays DEF Caused
    <3>3. CASE exit[Learner] = "ok"
      BY <1>1, <3>3, Processes DEF ReturnStops
    <3> QED BY <3>1, <3>2, <3>3
  <2>4. CASE Interrupt
    BY <2>4 DEF Interrupt, Unwound, Caused, Failing
  <2> QED
    BY <1>5, <2>1, <2>2, <2>3, <2>4 DEF ParentStep
<1>6. ASSUME LadderStep
      PROVE  stop' \/ wpc'[Learner] = "final" \/ checkpoint' => Caused'
  BY <1>1, <1>6, LadderFrame DEF sync, work
<1>7. ASSUME Over \/ UNCHANGED vars
      PROVE  stop' \/ wpc'[Learner] = "final" \/ checkpoint' => Caused'
  BY <1>1, <1>7 DEF Over, vars, sync, work
<1> QED
  BY <1>2, <1>3, <1>4, <1>5, <1>6, <1>7, NextSplit DEF Caused

LEMMA Inductive == IInv /\ [Next]_vars => IInv'
<1> SUFFICES ASSUME IInv, [Next]_vars PROVE IInv'
  OBVIOUS
<1> QED
  BY TypesKept, BackpressureKept, StartKept, NothingMergedKept, ReturnStopsKept, CauseKept,
    VerdictKept, TurnsKept DEF IInv

LEMMA Initial == Init => IInv
<1> SUFFICES ASSUME Init PROVE IInv
  OBVIOUS
<1> USE TrainerAssumption DEF Init
<1>1. TypeOK
  BY DEF TypeOK, LastTurn
<1>2. Flags /\ Backpressure /\ StartsIdle /\ NothingMerged
  <2>1. Flags /\ NothingMerged
    BY DEF Flags, NothingMerged
  <2>2. Backpressure
    BY Processes DEF Backpressure
  <2>3. StartsIdle
    BY Processes DEF StartsIdle
  <2> QED BY <2>1, <2>2, <2>3
<1>3. ReturnStops /\ EndHasCause /\ VerdictKnows /\ TurnsTaken
  BY Processes DEF ReturnStops, EndHasCause, VerdictKnows, TurnsTaken, LastTurn
<1> QED BY <1>1, <1>2, <1>3 DEF IInv

LEMMA InvariantHolds == Spec => []IInv
BY Initial, Inductive, PTL DEF Spec

-----------------------------------------------------------------------------
(* The theorems.                                                           *)

\* The variables keep their types; no collector takes more steps than it is
\* to take and no generation is merged that was not published.
THEOREM TypeCorrect == Spec => []TypeOK
<1>1. IInv => TypeOK
  BY DEF IInv
<1> QED BY <1>1, InvariantHolds, PTL

\* When the ladder is through (train.py:654-671), every worker has ended, or
\* was sent SIGKILL, or is one whose own signal raised: however many children
\* are stuck at whatever point, none costs another its turn.
THEOREM LadderIsThrough == Spec => []LadderReachesAll
<1>1. IInv => LadderReachesAll
  <2> SUFFICES ASSUME IInv, ppc \in {"ok", "failed"}, NEW w \in Workers
               PROVE  Dealt(w)
    BY DEF LadderReachesAll, Dealt
  <2>1. PICK t \in 1..LastTurn : w = Child(t)
    BY ChildIsWorker
  <2>2. turn = LastTurn + 1 /\ t < LastTurn + 1
    BY <2>1, TrainerAssumption DEF IInv, TurnsTaken, LastTurn
  <2> QED BY <2>1, <2>2 DEF IInv, TurnsTaken
<1> QED BY <1>1, InvariantHolds, PTL

\* Backpressure through the learner keeps any two collectors within one ring
\* of each other, and a successful run cuts none short by more than that.
THEOREM StaysWithinOneRing == Spec => []CollectorsWithinOneRing
<1> SUFFICES IInv => CollectorsWithinOneRing
  BY InvariantHolds, PTL
<1> SUFFICES ASSUME IInv PROVE CollectorsWithinOneRing
  OBVIOUS
<1>0. /\ steps \in [Collectors -> 0..NumIterations] /\ merged \in 0..NumIterations
      /\ NumIterations \in Nat /\ Capacity \in Nat
  BY TrainerAssumption DEF IInv, TypeOK
<1>1. \A c, d \in Collectors : steps[c] - steps[d] <= Capacity
  <2> SUFFICES ASSUME NEW c \in Collectors, NEW d \in Collectors
               PROVE  steps[c] - steps[d] <= Capacity
    OBVIOUS
  <2>1. merged <= steps[d] /\ steps[c] <= merged + Capacity
    BY DEF IInv, Backpressure
  <2> QED BY <1>0, <2>1
<1>2. ASSUME ppc = "ok", NEW d \in Collectors
      PROVE  steps[d] >= NumIterations - Capacity
  <2>1. PICK c \in Collectors : steps[c] = NumIterations
    BY <1>2 DEF IInv, VerdictKnows
  <2>2. steps[c] - steps[d] <= Capacity
    BY <1>1
  <2> QED BY <1>0, <2>1, <2>2
<1> QED BY <1>1, <1>2 DEF CollectorsWithinOneRing

\* Until the barrier is released for good, no step trains or saves.
LEMMA IdleStep ==
  ASSUME TypeOK, StartsIdle, ppc = "aborted", [Next]_vars
  PROVE  steps' = steps /\ checkpoint' = checkpoint
<1>1. \A w \in Workers : wpc[w] \notin {"loop", "final"}
  BY DEF StartsIdle
<1>2. ASSUME NEW w \in Workers, WorkerStep(w)
      PROVE  steps' = steps /\ checkpoint' = checkpoint
  BY <1>2 DEF WorkerStep, ReportReady, WaitForStart, RaiseError, WorkerError, Hang, Kill,
    Dies, work
<1>3. CASE LearnerStep
  BY <1>1, <1>3, Processes DEF LearnerStep, BootLearner, LearnerRound, LearnerLoopEnds, SaveFinal,
    At, work
<1>4. ASSUME NEW c \in Collectors, CollectorOnly(c)
      PROVE  steps' = steps /\ checkpoint' = checkpoint
  BY <1>1, <1>4, Processes DEF CollectorOnly, BootCollector, AwaitSlots, AwaitTimeout,
    CollectorStep, CollectorDone, At, work
<1>5. CASE ParentStep \/ LadderStep \/ Over \/ UNCHANGED vars
  BY <1>5, LadderFrame DEF ParentStep, ReleaseBarrier, AbortBootOnError, AbortBootOnDeadline, Abort,
    LeaveHandoff, AbortHandoffOnError, LeaveMonitor, GiveVerdict,
    Interrupt, Over, vars, work
<1> QED
  BY <1>2, <1>3, <1>4, <1>5, NextSplit

Idle == \A c \in Collectors : steps[c] = 0

NoStepsCounted == AllSteps = 0

LEMMA IdleTotal == TypeOK /\ Idle => NoStepsCounted
BY TotalFacts DEF Idle, NoStepsCounted

LEMMA IdleTotalNext == TypeOK' /\ Idle' => NoStepsCounted'
BY IdleTotal, PTL

\* A start-up that was aborted trains nothing and saves nothing, however late
\* its workers wake up and however many had reported ready.
THEOREM AbortedStaysIdle == Spec => AbortedBootNeverTrains
<1>1. IInv /\ IInv' /\ [Next]_vars
        => [ppc = "aborted" => AllSteps' = 0 /\ ~checkpoint']_vars
  <2> SUFFICES ASSUME IInv, IInv', [Next]_vars, ppc = "aborted"
               PROVE  AllSteps' = 0 /\ ~checkpoint'
    OBVIOUS
  <2>1. steps' = steps /\ checkpoint' = checkpoint
    BY IdleStep DEF IInv
  <2>2. Idle' /\ ~checkpoint'
    BY <2>1 DEF IInv, StartsIdle, Idle
  <2> QED
    BY <2>2, IdleTotalNext DEF IInv, NoStepsCounted
<1> QED BY <1>1, InvariantHolds, PTL DEF Spec, AbortedBootNeverTrains

\* A learner that returns from the barrier finds the stop flag up before a
\* collector can have taken more steps than one ring holds: if a run is
\* longer than that, the cause is a failure.
LEMMA ReturnSavesKept ==
  ASSUME Capacity < NumIterations, IInv, IInv', ReturnSaves, [Next]_vars
  PROVE  ReturnSaves'
<1> USE DEF ReturnSaves
<1>0. TypeOK /\ exit[Learner] \in {"alive", "ok", "error", "killed", "terminated"}
  BY Processes DEF IInv, TypeOK
<1>1. checkpoint \/ Crashed \/ ppc \in Failing => checkpoint' \/ Crashed' \/ ppc' \in Failing
  BY <1>0, ProgressStays, CrashStays, FailureStays
<1>2. CASE exit'[Learner] = exit[Learner]
  BY <1>1, <1>2
<1>3. ASSUME exit'[Learner] # exit[Learner], exit'[Learner] = "ok"
      PROVE  WaitForStart(Learner) \/ SaveFinal
  <2>1. ASSUME NEW w \in Workers, WorkerStep(w)
        PROVE  WaitForStart(Learner)
    <3>1. CASE ReportReady(w) \/ WorkerError(w) \/ Hang(w)
      BY <1>3, <3>1 DEF ReportReady, WorkerError, Hang
    <3>2. CASE RaiseError(w) \/ Kill(w) \/ Dies(w)
      BY <1>0, <1>3, <3>2, Processes DEF RaiseError, Kill, Dies, Exit, TypeOK
    <3>3. CASE WaitForStart(w)
      <4>1. w = Learner
        BY <1>0, <1>3, <3>3, Processes DEF WaitForStart, Exit, TypeOK
      <4> QED BY <3>3, <4>1
    <3> QED BY <2>1, <3>1, <3>2, <3>3 DEF WorkerStep
  <2>2. ASSUME NEW c \in Collectors, CollectorOnly(c)
        PROVE  FALSE
    BY <1>0, <1>3, <2>2, Processes DEF CollectorOnly, BootCollector, AwaitSlots, AwaitTimeout,
      CollectorStep, CollectorDone, Exit, TypeOK
  <2>3. CASE LearnerStep
    BY <1>3, <2>3 DEF LearnerStep, BootLearner, LearnerRound, LearnerLoopEnds
  <2>4. CASE ParentStep \/ LadderStep \/ Over \/ UNCHANGED vars
    BY <1>3, <2>4, LadderFrame DEF ParentStep, ReleaseBarrier, AbortBootOnError, AbortBootOnDeadline, Abort,
      LeaveHandoff, AbortHandoffOnError, LeaveMonitor, GiveVerdict,
      Interrupt, Over, vars
  <2> QED BY <2>1, <2>2, <2>3, <2>4, NextSplit
<1>4. CASE SaveFinal
  BY <1>4 DEF SaveFinal
<1>5. CASE WaitForStart(Learner) /\ exit'[Learner] # exit[Learner]
  <2>1. stop /\ wpc[Learner] = "wait"
    BY <1>5 DEF WaitForStart, At
  <2>2. merged = 0
    BY <2>1 DEF IInv, NothingMerged
  <2>3. \A c \in Collectors : steps[c] # NumIterations
    <3> SUFFICES ASSUME NEW c \in Collectors PROVE steps[c] # NumIterations
      OBVIOUS
    <3>1. steps[c] \in Nat /\ steps[c] <= Capacity
      BY <2>2, TrainerAssumption DEF IInv, TypeOK, Backpressure
    <3> QED BY <3>1, TrainerAssumption
  <2>4. Crashed \/ ppc \in Failing
    BY <2>1, <2>3 DEF IInv, EndHasCause
  <2> QED BY <1>1, <2>4
<1> QED
  BY <1>2, <1>3, <1>4, <1>5

LEMMA SuccessKept ==
  ASSUME IInv, ReturnSaves, SuccessHasCheckpoint, [Next]_vars
  PROVE  SuccessHasCheckpoint'
<1> USE DEF SuccessHasCheckpoint
<1>1. TypeOK /\ VerdictKnows
  BY DEF IInv
<1>2. CASE ppc' = ppc
  BY <1>1, <1>2, ProgressStays
<1>3. CASE GiveVerdict
  <2> SUFFICES ASSUME ppc' = "ok" PROVE checkpoint
    BY <1>3 DEF GiveVerdict, work
  <2>1. ppc = "shutdown" /\ ~Crashed
    BY <1>3 DEF GiveVerdict, InLadder
  <2>2. exit[Learner] = "ok"
    BY <1>1, <2>1, Processes DEF VerdictKnows, Crashed, Alive
  <2> QED BY <2>1, <2>2 DEF ReturnSaves, Failing
<1>4. ASSUME ParentStep, ~GiveVerdict
      PROVE  ppc' # "ok"
  BY <1>4 DEF ParentStep, ReleaseBarrier, AbortBootOnError, AbortBootOnDeadline, Abort,
    LeaveHandoff, AbortHandoffOnError, LeaveMonitor, Interrupt, Unwound
<1> QED
  BY <1>2, <1>3, <1>4, ParentMoves

\* The parent reports success only if the learner trained through to its
\* final checkpoint, in every run that is longer than a ring: in a shorter
\* one a collector may finish, and stop the others, while the learner has
\* not left the start barrier yet.
THEOREM SuccessIsSaved ==
  ASSUME Capacity < NumIterations
  PROVE  Spec => []SuccessHasCheckpoint
<1>1. Init => ReturnSaves /\ SuccessHasCheckpoint
  BY Processes DEF Init, ReturnSaves, SuccessHasCheckpoint
<1>2. IInv /\ IInv' /\ ReturnSaves /\ [Next]_vars => ReturnSaves'
  BY ReturnSavesKept
<1>3. IInv /\ ReturnSaves /\ SuccessHasCheckpoint /\ [Next]_vars => SuccessHasCheckpoint'
  BY SuccessKept
<1> QED BY <1>1, <1>2, <1>3, InvariantHolds, PTL DEF Spec

-----------------------------------------------------------------------------
(* The live metrics.  Without: what is left of a sequence of records.      *)

\* What the fold makes of the positions t of s, given the smaller sets.
PassStep(s, S, f, t) ==
  IF t = {} THEN <<>>
  ELSE IF s[Max(t)] \in S THEN f[t \ {Max(t)}]
  ELSE Append(f[t \ {Max(t)}], s[Max(t)])

\* p[n] is what is left of the first n.
Passing(s, S, p) ==
  /\ p[0] = <<>>
  /\ \A n \in 1..Len(s) : p[n] = IF s[n] \in S THEN p[n - 1] ELSE Append(p[n - 1], s[n])

\* The greatest member of a set of positions.
LEMMA GreatestIs ==
  ASSUME NEW n \in Nat, NEW t \in SUBSET (1..n), t # {}
  PROVE  Max(t) \in t /\ \A x \in t : x <= Max(t)
<1> DEFINE bounds == {b \in Nat : \A x \in t : x <= b}
<1>1. bounds \subseteq Nat /\ bounds # {}
  <2>1. n \in bounds
    OBVIOUS
  <2> QED BY <2>1
<1>2. PICK b \in bounds : \A m \in bounds : b <= m
  <2> HIDE DEF bounds
  <2> QED BY <1>1, LeastMember
<1>3. b \in Nat /\ \A x \in t : x <= b
  BY <1>2
<1>4. b \in t
  <2> SUFFICES ASSUME b \notin t PROVE FALSE
    OBVIOUS
  <2>1. PICK y \in t : TRUE
    OBVIOUS
  <2>2. y \in 1..n /\ y <= b /\ y # b
    BY <1>3, <2>1
  <2>3. b - 1 \in Nat
    BY <1>3, <2>2
  <2>4. \A x \in t : x <= b - 1
    BY <1>3
  <2>5. b - 1 \in bounds
    BY <2>3, <2>4
  <2> QED BY <1>2, <1>3, <2>5
<1>5. \E x \in t : \A y \in t : x >= y
  BY <1>3, <1>4
<1>6. Max(t) \in t /\ \A y \in t : Max(t) >= y
  BY <1>5, Zenon DEF Max
<1> QED BY <1>6

\* The fold's iteration exists over the first n positions.
LEMMA PassesExist ==
  ASSUME NEW s, NEW S
  PROVE  \A n \in Nat : \E f : f = [t \in SUBSET (1..n) |-> PassStep(s, S, f, t)]
<1> DEFINE Has(n) == \E f : f = [t \in SUBSET (1..n) |-> PassStep(s, S, f, t)]
           N == {n \in Nat : Has(n)}
<1>1. 0 \in N
  <2> DEFINE f == [t \in SUBSET (1..0) |-> <<>>]
  <2>1. \A t \in SUBSET (1..0) : t = {}
    OBVIOUS
  <2>2. f = [t \in SUBSET (1..0) |-> PassStep(s, S, f, t)]
    <3> HIDE DEF f
    <3>1. \A t \in SUBSET (1..0) : PassStep(s, S, f, t) = <<>>
      BY <2>1 DEF PassStep
    <3> QED BY <3>1 DEF f
  <2> QED BY <2>2
<1>2. ASSUME NEW n \in Nat, n \in N PROVE n + 1 \in N
  <2>1. PICK f : f = [t \in SUBSET (1..n) |-> PassStep(s, S, f, t)]
    BY <1>2
  <2> DEFINE g == [t \in SUBSET (1..(n + 1)) |-> PassStep(s, S, f, t)]
  <2>2. SUBSET (1..n) \subseteq SUBSET (1..(n + 1))
    OBVIOUS
  <2>3. \A t \in SUBSET (1..n) : g[t] = f[t]
    BY <2>1, <2>2
  <2>4. ASSUME NEW t \in SUBSET (1..(n + 1)), t # {}
        PROVE  t \ {Max(t)} \in SUBSET (1..n)
    <3>1. n + 1 \in Nat
      OBVIOUS
    <3>2. Max(t) \in t /\ \A x \in t : x <= Max(t)
      BY <2>4, <3>1, GreatestIs
    <3>3. ASSUME NEW x \in t \ {Max(t)} PROVE x \in 1..n
      <4>1. x \in 1..(n + 1) /\ Max(t) \in 1..(n + 1) /\ x <= Max(t) /\ x # Max(t)
        BY <3>2
      <4> QED BY <4>1
    <3> QED BY <3>3
  <2> HIDE DEF g
  <2>5. \A t \in SUBSET (1..(n + 1)) : PassStep(s, S, f, t) = PassStep(s, S, g, t)
    BY <2>3, <2>4 DEF PassStep
  <2>6. g = [t \in SUBSET (1..(n + 1)) |-> PassStep(s, S, g, t)]
    BY <2>5 DEF g
  <2> QED BY <2>6
<1>3. Nat \subseteq N
  <2> HIDE DEF N
  <2> QED BY <1>1, <1>2, SetInduction
<1> QED BY <1>3

\* Without(s, S) position by position.
LEMMA WithoutPasses ==
  ASSUME NEW R, NEW s \in Seq(R), NEW S
  PROVE  \E p : Passing(s, S, p) /\ Without(s, S) = p[Len(s)]
<1> DEFINE Body(f) == [t \in SUBSET (1..Len(s)) |-> PassStep(s, S, f, t)]
           pass == CHOOSE f : f = Body(f)
<1>1. Len(s) \in Nat /\ DOMAIN s = 1..Len(s)
  BY LenProperties
<1>2. \E f : f = Body(f)
  BY <1>1, PassesExist
<1>3. pass = Body(pass)
  BY <1>2, Zenon
<1>4. Without(s, S) = pass[1..Len(s)]
  BY <1>1 DEF Without, FoldLeft, MapThenFoldSet, PassStep
<1> HIDE DEF pass
<1>5. \A n \in 0..Len(s) : pass[1..n] = PassStep(s, S, pass, 1..n)
  BY <1>1, <1>3
<1> DEFINE p == [n \in 0..Len(s) |-> pass[1..n]]
<1>6. p[0] = <<>>
  <2>1. 1..0 = {} /\ 0 \in 0..Len(s)
    BY <1>1
  <2>2. pass[1..0] = <<>>
    BY <1>5, <2>1 DEF PassStep
  <2> QED BY <2>1, <2>2
<1>7. ASSUME NEW n \in 1..Len(s)
      PROVE  p[n] = IF s[n] \in S THEN p[n - 1] ELSE Append(p[n - 1], s[n])
  <2>0. n \in Nat /\ n \in 0..Len(s) /\ n - 1 \in 0..Len(s) /\ n \in 1..n
    BY <1>1
  <2>1. 1..n # {} /\ n \in Nat /\ n \in 0..Len(s) /\ n - 1 \in 0..Len(s)
    BY <2>0
  <2>2. Max(1..n) \in 1..n /\ \A x \in 1..n : x <= Max(1..n)
    BY <2>1, GreatestIs
  <2>3. Max(1..n) = n
    BY <2>1, <2>2
  <2>4. (1..n) \ {n} = 1..(n - 1)
    BY <2>1
  <2>5. pass[1..n] = PassStep(s, S, pass, 1..n)
    BY <1>5, <2>1
  <2>6. pass[1..n] = IF s[n] \in S THEN pass[1..(n - 1)] ELSE Append(pass[1..(n - 1)], s[n])
    BY <2>1, <2>3, <2>4, <2>5 DEF PassStep
  <2> QED BY <2>1, <2>6
<1>8. Without(s, S) = p[Len(s)]
  BY <1>1, <1>4
<1> QED BY <1>6, <1>7, <1>8 DEF Passing

\* The records of a sequence; only the empty one has none.
LEMMA SetOf ==
  ASSUME NEW R, NEW q \in Seq(R)
  PROVE  /\ ToSet(q) = {q[i] : i \in 1..Len(q)} /\ ToSet(q) \subseteq R
         /\ (ToSet(q) = {}) <=> (q = <<>>)
<1>1. Len(q) \in Nat /\ DOMAIN q = 1..Len(q) /\ \A i \in 1..Len(q) : q[i] \in R
  BY LenProperties
<1>2. ToSet(q) = {q[i] : i \in 1..Len(q)}
  BY <1>1 DEF ToSet
<1>3. CASE q = <<>>
  <2>1. 1..Len(q) = {}
    BY <1>3
  <2> QED BY <1>2, <1>3, <2>1
<1>4. CASE q # <<>>
  <2>1. 1 \in 1..Len(q)
    BY <1>1, <1>4, EmptySeq
  <2> QED BY <1>1, <1>2, <1>4, <2>1
<1> QED BY <1>3, <1>4, <1>1, <1>2

\* Those of two sequences, one after the other.
LEMMA SetOfConcat ==
  ASSUME NEW R, NEW q \in Seq(R), NEW t \in Seq(R)
  PROVE  ToSet(q \o t) = ToSet(q) \cup ToSet(t)
<1> DEFINE c == q \o t
<1>1. /\ c \in Seq(R) /\ Len(c) = Len(q) + Len(t) /\ Len(q) \in Nat /\ Len(t) \in Nat
      /\ \A i \in 1..(Len(q) + Len(t)) : c[i] = IF i <= Len(q) THEN q[i] ELSE t[i - Len(q)]
  BY ConcatProperties, LenProperties
<1> HIDE DEF c
<1>2. \A i \in 1..Len(q) : i \in 1..Len(c) /\ c[i] = q[i]
  BY <1>1
<1>3. \A i \in 1..Len(t) : Len(q) + i \in 1..Len(c) /\ c[Len(q) + i] = t[i]
  <2> SUFFICES ASSUME NEW i \in 1..Len(t)
               PROVE  Len(q) + i \in 1..Len(c) /\ c[Len(q) + i] = t[i]
    OBVIOUS
  <2>1. Len(q) + i \in 1..(Len(q) + Len(t)) /\ ~(Len(q) + i <= Len(q)) /\ Len(q) + i - Len(q) = i
    BY <1>1
  <2> QED BY <1>1, <2>1
<1>4. \A i \in 1..Len(c) : i \in 1..Len(q) \/ (i - Len(q) \in 1..Len(t) /\ c[i] = t[i - Len(q)])
  BY <1>1
<1>5. {c[i] : i \in 1..Len(c)} = {q[i] : i \in 1..Len(q)} \cup {t[i] : i \in 1..Len(t)}
  <2> DEFINE C == {c[i] : i \in 1..Len(c)}
             Q == {q[i] : i \in 1..Len(q)}
             T == {t[i] : i \in 1..Len(t)}
  <2>1. ASSUME NEW x \in C PROVE x \in Q \/ x \in T
    <3>1. PICK i \in 1..Len(c) : x = c[i]
      OBVIOUS
    <3>2. CASE i \in 1..Len(q)
      BY <1>2, <3>1, <3>2
    <3>3. CASE i - Len(q) \in 1..Len(t) /\ c[i] = t[i - Len(q)]
      BY <3>1, <3>3
    <3> QED BY <1>4, <3>2, <3>3
  <2>2. ASSUME NEW x \in Q PROVE x \in C
    BY <1>2
  <2>3. ASSUME NEW x \in T PROVE x \in C
    <3>1. PICK i \in 1..Len(t) : x = t[i]
      OBVIOUS
    <3>2. Len(q) + i \in 1..Len(c) /\ c[Len(q) + i] = x
      BY <1>3, <3>1
    <3> QED BY <3>2
  <2> HIDE DEF C, Q, T
  <2>4. C = Q \cup T
    BY <2>1, <2>2, <2>3
  <2> QED BY <2>4 DEF C, Q, T
<1>6. ToSet(c) = ToSet(q) \cup ToSet(t)
  BY <1>1, <1>5, SetOf
<1> QED BY <1>6 DEF c

\* Those of a sequence of one.
LEMMA SetOfOne ==
  ASSUME NEW R, NEW r \in R
  PROVE  <<r>> \in Seq(R) /\ ToSet(<<r>>) = {r}
<1>1. <<r>> \in Seq(R) /\ Len(<<r>>) = 1 /\ <<r>>[1] = r
  OBVIOUS
<1>2. 1..1 = {1}
  OBVIOUS
<1>3. ToSet(<<r>>) = {<<r>>[i] : i \in 1..1}
  BY <1>1, SetOf
<1> QED BY <1>1, <1>2, <1>3

\* Those of a sequence with one more.
LEMMA SetOfAppend ==
  ASSUME NEW R, NEW q \in Seq(R), NEW r \in R
  PROVE  Append(q, r) \in Seq(R) /\ ToSet(Append(q, r)) = ToSet(q) \cup {r}
<1>1. Append(q, r) = q \o <<r>> /\ Append(q, r) \in Seq(R)
  BY AppendIsConcat, AppendProperties
<1>2. <<r>> \in Seq(R) /\ ToSet(<<r>>) = {r}
  BY SetOfOne
<1>3. ToSet(q \o <<r>>) = ToSet(q) \cup ToSet(<<r>>)
  <2> DEFINE o == <<r>>
  <2>1. o \in Seq(R)
    BY <1>2
  <2> HIDE DEF o
  <2>2. ToSet(q \o o) = ToSet(q) \cup ToSet(o)
    BY <2>1, SetOfConcat
  <2> QED BY <2>2 DEF o
<1> QED BY <1>1, <1>2, <1>3

\* What is left: the records that are not in S.
LEMMA WithoutHas ==
  ASSUME NEW R, NEW s \in Seq(R), NEW S
  PROVE  /\ Without(s, S) \in Seq(R)
         /\ ToSet(Without(s, S)) = ToSet(s) \ S
<1>1. PICK p : Passing(s, S, p) /\ Without(s, S) = p[Len(s)]
  BY WithoutPasses
<1>2. Len(s) \in Nat /\ \A i \in 1..Len(s) : s[i] \in R
  BY LenProperties
<1> DEFINE firsts(n) == {s[i] : i \in 1..n}
           N == {n \in Nat : n <= Len(s) => p[n] \in Seq(R) /\ ToSet(p[n]) = firsts(n) \ S}
<1>3. 0 \in N
  <2>1. firsts(0) = {}
    OBVIOUS
  <2>2. <<>> \in Seq(R) /\ ToSet(<<>>) = {}
    BY EmptySeq, SetOf
  <2> QED BY <1>1, <2>1, <2>2 DEF Passing
<1>4. ASSUME NEW n \in Nat, n \in N PROVE n + 1 \in N
  <2> SUFFICES ASSUME n + 1 <= Len(s)
               PROVE  p[n + 1] \in Seq(R) /\ ToSet(p[n + 1]) = firsts(n + 1) \ S
    OBVIOUS
  <2>1. n + 1 \in 1..Len(s) /\ n + 1 - 1 = n /\ n <= Len(s)
    BY <1>2
  <2>2. p[n + 1] = IF s[n + 1] \in S THEN p[n] ELSE Append(p[n], s[n + 1])
    BY <1>1, <2>1 DEF Passing
  <2>3. p[n] \in Seq(R) /\ ToSet(p[n]) = firsts(n) \ S /\ s[n + 1] \in R
    BY <1>2, <1>4, <2>1
  <2>4. firsts(n + 1) = firsts(n) \cup {s[n + 1]}
    <3>1. 1..(n + 1) = (1..n) \cup {n + 1}
      OBVIOUS
    <3> QED BY <3>1
  <2> HIDE DEF firsts, N
  <2>5. Append(p[n], s[n + 1]) \in Seq(R) /\ ToSet(Append(p[n], s[n + 1])) = ToSet(p[n]) \cup {s[n + 1]}
    BY <2>3, SetOfAppend
  <2> QED BY <2>2, <2>3, <2>4, <2>5
<1>5. Len(s) \in N
  <2> HIDE DEF N
  <2> QED BY <1>2, <1>3, <1>4, SetInduction
<1>6. ToSet(s) = firsts(Len(s))
  BY SetOf
<1> QED BY <1>1, <1>2, <1>5, <1>6

\* Nothing to leave out: the sequence itself.
LEMMA WithoutNone ==
  ASSUME NEW R, NEW s \in Seq(R), NEW S, ToSet(s) \cap S = {}
  PROVE  Without(s, S) = s
<1>1. PICK p : Passing(s, S, p) /\ Without(s, S) = p[Len(s)]
  BY WithoutPasses
<1>2. Len(s) \in Nat /\ \A i \in 1..Len(s) : s[i] \in R /\ s[i] \notin S
  BY LenProperties, SetOf
<1> DEFINE N == {n \in Nat : n <= Len(s) => p[n] = SubSeq(s, 1, n)}
<1>3. 0 \in N
  <2>1. SubSeq(s, 1, 0) = <<>>
    BY SubSeqEmpty
  <2> QED BY <1>1, <2>1 DEF Passing
<1>4. ASSUME NEW n \in Nat, n \in N PROVE n + 1 \in N
  <2> SUFFICES ASSUME n + 1 <= Len(s)
               PROVE  p[n + 1] = SubSeq(s, 1, n + 1)
    OBVIOUS
  <2>1. /\ n + 1 \in 1..Len(s) /\ n + 1 - 1 = n /\ n <= Len(s) /\ 1 \in 1..Len(s)
        /\ n + 1 \in 1..Len(s)
    BY <1>2
  <2>2. p[n + 1] = Append(p[n], s[n + 1])
    <3>1. p[n + 1] = IF s[n + 1] \in S THEN p[n + 1 - 1] ELSE Append(p[n + 1 - 1], s[n + 1])
      BY <1>1, <2>1 DEF Passing
    <3>2. s[n + 1] \notin S
      BY <1>2, <2>1
    <3> QED BY <2>1, <3>1, <3>2
  <2>3. p[n] = SubSeq(s, 1, n)
    BY <1>4, <2>1
  <2>4. SubSeq(s, 1, n + 1) = SubSeq(s, 1, n) \o <<s[n + 1]>>
    BY <2>1, SubSeqRecursiveSecond
  <2>5. SubSeq(s, 1, n) \in Seq(R)
    <3>1. \A i \in 1..n : s[i] \in R
      BY <1>2, <2>1
    <3> QED BY <3>1, SubSeqProperties
  <2>6. Append(SubSeq(s, 1, n), s[n + 1]) = SubSeq(s, 1, n) \o <<s[n + 1]>>
    BY <1>2, <2>1, <2>5, AppendIsConcat
  <2> QED BY <2>2, <2>3, <2>4, <2>6
<1>5. Len(s) \in N
  <2> HIDE DEF N
  <2> QED BY <1>2, <1>3, <1>4, SetInduction
<1>6. SubSeq(s, 1, Len(s)) = s
  BY SubSeqFull
<1> QED BY <1>1, <1>2, <1>5, <1>6

\* Nothing left.
LEMMA WithoutAny ==
  ASSUME NEW R, NEW s \in Seq(R), NEW S, ToSet(s) \subseteq S
  PROVE  Without(s, S) = <<>>
<1>1. Without(s, S) \in Seq(R) /\ ToSet(Without(s, S)) = {}
  BY WithoutHas
<1> QED BY <1>1, SetOf

\* An append to the second of two sequences is one to both together.
SameAppend(a, b, x) == Append(a \o b, x) = a \o Append(b, x)

LEMMA AppendBehind ==
  ASSUME NEW R, NEW a \in Seq(R), NEW b \in Seq(R), NEW x \in R
  PROVE  SameAppend(a, b, x)
<1> DEFINE ab == a \o b
           bx == Append(b, x)
           lhs == Append(ab, x)
           rhs == a \o bx
           la == Len(a)
           lb == Len(b)
<1>1. la \in Nat /\ lb \in Nat
  BY LenProperties
<1>0. ab \in Seq(R) /\ bx \in Seq(R)
  BY ConcatProperties, AppendProperties
<1>2. /\ Len(ab) = la + lb
      /\ \A i \in 1..(la + lb) : ab[i] = IF i <= la THEN a[i] ELSE b[i - la]
  BY ConcatProperties
<1>3. /\ Len(bx) = lb + 1 /\ bx[lb + 1] = x
      /\ \A i \in 1..lb : bx[i] = b[i]
  BY AppendProperties
<1> HIDE DEF ab, bx
<1>4. /\ lhs \in Seq(R) /\ Len(lhs) = Len(ab) + 1 /\ lhs[Len(ab) + 1] = x
      /\ \A i \in 1..Len(ab) : lhs[i] = ab[i]
  BY ONLY <1>0, x \in R, AppendProperties
<1>5. /\ rhs \in Seq(R) /\ Len(rhs) = la + Len(bx)
      /\ \A i \in 1..(la + Len(bx)) : rhs[i] = IF i <= la THEN a[i] ELSE bx[i - la]
  BY ONLY <1>0, a \in Seq(R), ConcatProperties DEF la
<1> HIDE DEF lhs, rhs, la, lb
<1>6. /\ Len(lhs) = la + lb + 1 /\ lhs[la + lb + 1] = x
      /\ \A i \in 1..(la + lb) : lhs[i] = ab[i]
  BY ONLY <1>1, <1>2, <1>4
<1>7. /\ Len(rhs) = la + lb + 1
      /\ \A i \in 1..(la + lb + 1) : rhs[i] = IF i <= la THEN a[i] ELSE bx[i - la]
  <2>1. la + Len(bx) = la + lb + 1
    BY ONLY <1>1, <1>3
  <2> QED BY ONLY <2>1, <1>5
<1>8. ASSUME NEW i \in 1..(la + lb + 1) PROVE lhs[i] = rhs[i]
  <2>1. CASE i <= la
    <3>1. i \in 1..(la + lb)
      BY ONLY <1>1, <2>1, i \in 1..(la + lb + 1)
    <3> QED BY ONLY <1>2, <1>6, <1>7, <2>1, <3>1, i \in 1..(la + lb + 1)
  <2>2. CASE ~(i <= la) /\ i <= la + lb
    <3>1. i \in 1..(la + lb) /\ i - la \in 1..lb
      BY ONLY <1>1, <2>2, i \in 1..(la + lb + 1)
    <3> QED BY ONLY <1>2, <1>3, <1>6, <1>7, <2>2, <3>1, i \in 1..(la + lb + 1)
  <2>3. CASE i = la + lb + 1
    <3>1. ~(i <= la) /\ i - la = lb + 1
      BY ONLY <1>1, <2>3
    <3> QED BY ONLY <1>3, <1>6, <1>7, <2>3, <3>1, i \in 1..(la + lb + 1)
  <2>4. i <= la \/ (~(i <= la) /\ i <= la + lb) \/ i = la + lb + 1
    BY ONLY <1>1, i \in 1..(la + lb + 1)
  <2> QED BY ONLY <2>1, <2>2, <2>3, <2>4
<1>9. Len(lhs) = Len(rhs) /\ \A i \in 1..Len(lhs) : lhs[i] = rhs[i]
  BY ONLY <1>6, <1>7, <1>8
<1>10. lhs = rhs
  BY ONLY <1>4, <1>5, <1>9, SeqEqual
<1> QED BY <1>10 DEF SameAppend, ab, bx, lhs, rhs

\* Two sequences, one after the other.
LEMMA WithoutConcat ==
  ASSUME NEW R, NEW s \in Seq(R), NEW t \in Seq(R), NEW S
  PROVE  Without(s \o t, S) = Without(s, S) \o Without(t, S)
<1> DEFINE c == s \o t
<1>1. PICK ps : Passing(s, S, ps) /\ Without(s, S) = ps[Len(s)]
  BY WithoutPasses
<1>2. PICK pt : Passing(t, S, pt) /\ Without(t, S) = pt[Len(t)]
  BY WithoutPasses
<1>3. /\ c \in Seq(R) /\ Len(c) = Len(s) + Len(t) /\ Len(s) \in Nat /\ Len(t) \in Nat
      /\ \A i \in 1..(Len(s) + Len(t)) : c[i] = IF i <= Len(s) THEN s[i] ELSE t[i - Len(s)]
  BY ConcatProperties, LenProperties
<1> HIDE DEF c
<1>4. PICK pb : Passing(c, S, pb) /\ Without(c, S) = pb[Len(c)]
  BY <1>3, WithoutPasses
<1> DEFINE N == {n \in Nat : n <= Len(s) => pb[n] = ps[n]}
<1>5. 0 \in N
  BY <1>1, <1>4 DEF Passing
<1>6. ASSUME NEW n \in Nat, n \in N PROVE n + 1 \in N
  <2> SUFFICES ASSUME n + 1 <= Len(s)
               PROVE  pb[n + 1] = ps[n + 1]
    OBVIOUS
  <2>1. n + 1 \in 1..Len(s) /\ n + 1 \in 1..Len(c) /\ n + 1 - 1 = n /\ n <= Len(s)
    BY <1>3
  <2>2. c[n + 1] = s[n + 1]
    BY <1>3, <2>1
  <2>3. pb[n] = ps[n]
    BY <1>6, <2>1
  <2>4. pb[n + 1] = IF c[n + 1] \in S THEN pb[n] ELSE Append(pb[n], c[n + 1])
    BY <1>4, <2>1 DEF Passing
  <2>5. ps[n + 1] = IF s[n + 1] \in S THEN ps[n] ELSE Append(ps[n], s[n + 1])
    BY <1>1, <2>1 DEF Passing
  <2> QED BY <2>2, <2>3, <2>4, <2>5
<1>7. pb[Len(s)] = ps[Len(s)]
  <2>1. Len(s) \in N
    <3> HIDE DEF N
    <3> QED BY <1>3, <1>5, <1>6, SetInduction
  <2> QED BY <1>3, <2>1
<1> HIDE DEF N
<1> DEFINE w == ps[Len(s)]
           M == {n \in Nat : n <= Len(t) => pt[n] \in Seq(R) /\ pb[Len(s) + n] = w \o pt[n]}
<1>8. w \in Seq(R)
  BY <1>1, WithoutHas
<1> HIDE DEF w
<1>9. 0 \in M
  <2>1. pt[0] = <<>> /\ <<>> \in Seq(R) /\ Len(s) + 0 = Len(s)
    BY <1>2, <1>3, EmptySeq DEF Passing
  <2>2. w \o <<>> = w
    BY <1>8, ConcatEmptySeq
  <2> QED BY <1>7, <2>1, <2>2 DEF w
<1>10. ASSUME NEW n \in Nat, n \in M PROVE n + 1 \in M
  <2> SUFFICES ASSUME n + 1 <= Len(t)
               PROVE  pt[n + 1] \in Seq(R) /\ pb[Len(s) + (n + 1)] = w \o pt[n + 1]
    OBVIOUS
  <2>1. /\ n + 1 \in 1..Len(t) /\ Len(s) + (n + 1) \in 1..Len(c) /\ n + 1 - 1 = n /\ n <= Len(t)
        /\ Len(s) + (n + 1) - 1 = Len(s) + n /\ ~(Len(s) + (n + 1) <= Len(s))
        /\ Len(s) + (n + 1) - Len(s) = n + 1
    BY <1>3
  <2>2. c[Len(s) + (n + 1)] = t[n + 1] /\ t[n + 1] \in R
    BY <1>3, <2>1, ElementOfSeq
  <2>3. pt[n] \in Seq(R) /\ pb[Len(s) + n] = w \o pt[n]
    BY <1>10, <2>1
  <2> DEFINE a == t[n + 1]
             q == pt[n]
  <2>4. pb[Len(s) + (n + 1)] = IF a \in S THEN w \o q ELSE Append(w \o q, a)
    <3> DEFINE j == Len(s) + (n + 1)
    <3>1. pb[j] = IF c[j] \in S THEN pb[j - 1] ELSE Append(pb[j - 1], c[j])
      BY <1>4, <2>1 DEF Passing
    <3>2. c[j] = a
      BY <2>2
    <3>4. j - 1 = Len(s) + n
      BY <2>1
    <3>5. pb[j - 1] = w \o q
      BY <2>3, <3>4
    <3> HIDE DEF a, q, j
    <3>3. pb[j] = IF a \in S THEN w \o q ELSE Append(w \o q, a)
      BY <3>1, <3>2, <3>5
    <3> QED BY <3>3 DEF j
  <2>5. pt[n + 1] = IF a \in S THEN q ELSE Append(q, a)
    BY <1>2, <2>1 DEF Passing
  <2>6. a \in R /\ q \in Seq(R)
    BY <2>2, <2>3
  <2> HIDE DEF a, q
  <2>7. Append(q, a) \in Seq(R) /\ Append(w \o q, a) = w \o Append(q, a)
    <3>1. Append(q, a) \in Seq(R)
      BY ONLY <2>6, AppendProperties
    <3> HIDE DEF w
    <3>2. Append(w \o q, a) = w \o Append(q, a)
      <4>1. w \in Seq(R) /\ q \in Seq(R) /\ a \in R
        BY <1>8, <2>6
      <4>2. SameAppend(w, q, a)
        BY ONLY <4>1, AppendBehind
      <4> QED BY <4>2 DEF SameAppend
    <3> QED BY <3>1, <3>2
  <2> QED BY <2>4, <2>5, <2>6, <2>7
<1>11. Len(t) \in M
  <2> HIDE DEF M
  <2> QED BY <1>3, <1>9, <1>10, SetInduction
<1>12. pb[Len(c)] = w \o pt[Len(t)]
  BY <1>3, <1>11
<1> QED BY <1>1, <1>2, <1>4, <1>12 DEF c, w

-----------------------------------------------------------------------------
(* The queues.                                                             *)

\* No record twice.
Distinct(q) == \A i, j \in 1..Len(q) : q[i] = q[j] => i = j

\* A sequence without its i-th element.
LEMMA Removed ==
  ASSUME NEW R, NEW q \in Seq(R), NEW i \in 1..Len(q)
  PROVE  /\ RemoveAt(q, i) \in Seq(R) /\ Len(RemoveAt(q, i)) = Len(q) - 1
         /\ \A j \in 1..(Len(q) - 1) : RemoveAt(q, i)[j] = IF j < i THEN q[j] ELSE q[j + 1]
<1> DEFINE n == Len(q)
           a == SubSeq(q, 1, i - 1)
           b == SubSeq(q, i + 1, n)
<1>1. n \in Nat /\ i \in 1..n /\ \A j \in 1..n : q[j] \in R
  BY LenProperties
<1> HIDE DEF n
<1>2. /\ a \in Seq(R) /\ Len(a) = i - 1
      /\ \A j \in 1..(i - 1) : a[j] = q[j]
  <2>1. \A j \in 1..(i - 1) : q[j] \in R
    BY <1>1
  <2>2. i - 1 \in Int
    BY <1>1
  <2>3. /\ a \in Seq(R) /\ Len(a) = (IF 1 <= i - 1 THEN i - 1 - 1 + 1 ELSE 0)
        /\ \A j \in 1..(i - 1 - 1 + 1) : a[j] = q[1 + j - 1]
    BY <2>1, <2>2, SubSeqProperties
  <2> HIDE DEF a
  <2> QED BY <1>1, <2>3
<1>3. /\ b \in Seq(R) /\ Len(b) = n - i
      /\ \A j \in 1..(n - i) : b[j] = q[i + j]
  <2>1. \A j \in (i + 1)..n : q[j] \in R
    BY <1>1
  <2>2. i + 1 \in Int /\ n \in Int
    BY <1>1
  <2>3. /\ b \in Seq(R) /\ Len(b) = (IF i + 1 <= n THEN n - (i + 1) + 1 ELSE 0)
        /\ \A j \in 1..(n - (i + 1) + 1) : b[j] = q[i + 1 + j - 1]
    BY <2>1, <2>2, SubSeqProperties
  <2> HIDE DEF b
  <2>4. \A j \in 1..(n - i) : j \in 1..(n - (i + 1) + 1) /\ i + 1 + j - 1 = i + j
    BY <1>1
  <2> QED BY <1>1, <2>3, <2>4
<1>4. RemoveAt(q, i) = a \o b
  BY DEF RemoveAt, n
<1> DEFINE c == a \o b
<1> HIDE DEF a, b
<1>5. /\ c \in Seq(R) /\ Len(c) = Len(a) + Len(b)
      /\ \A j \in 1..(Len(a) + Len(b)) : c[j] = IF j <= Len(a) THEN a[j] ELSE b[j - Len(a)]
  BY <1>2, <1>3, ConcatProperties
<1> HIDE DEF c
<1>6. Len(c) = n - 1 /\ Len(a) + Len(b) = n - 1
  BY <1>1, <1>2, <1>3, <1>5
<1>7. ASSUME NEW j \in 1..(n - 1) PROVE c[j] = IF j < i THEN q[j] ELSE q[j + 1]
  <2>1. c[j] = IF j <= i - 1 THEN a[j] ELSE b[j - (i - 1)]
    BY <1>2, <1>5, <1>6
  <2>2. CASE j < i
    BY <1>1, <1>2, <2>1, <2>2
  <2>3. CASE ~(j < i)
    <3>1. j - (i - 1) \in 1..(n - i) /\ i + (j - (i - 1)) = j + 1
      BY <1>1, <2>3
    <3> QED BY <1>1, <1>3, <2>1, <2>3, <3>1
  <2> QED BY <2>2, <2>3
<1> QED BY <1>4, <1>5, <1>6, <1>7 DEF c, n

\* What a bounded append does: the record is added, after a scalars record
\* is removed from a full queue, or a scalars record finds no room.
Appended(q, r, limit, b) ==
  \/ b = Append(q, r) /\ (Len(q) < limit \/ (ScalarsIn(q) = {} /\ ~IsScalars(r)))
  \/ Len(q) >= limit /\ \E i \in 1..Len(q) : q[i].kind = "scalars" /\ b = Append(RemoveAt(q, i), r)
  \/ b = q /\ r.kind = "scalars"

LEMMA BoundedAppendIs ==
  ASSUME NEW R, NEW q \in Seq(R), NEW r \in R, NEW limit \in Nat
  PROVE  Appended(q, r, limit, BoundedAppend(q, r, limit))
<1>1. Len(q) \in Nat /\ DOMAIN q = 1..Len(q)
  BY LenProperties
<1>2. ASSUME ScalarsIn(q) # {}
      PROVE  /\ Min(ScalarsIn(q)) \in 1..Len(q)
             /\ q[Min(ScalarsIn(q))].kind = "scalars"
  <2> DEFINE I == ScalarsIn(q)
  <2>1. I = {i \in 1..Len(q) : q[i].kind = "scalars"}
    BY <1>1 DEF ScalarsIn, IsScalars
  <2>2. I \subseteq Nat /\ I # {}
    BY <1>1, <1>2, <2>1
  <2> HIDE DEF I
  <2>3. \E i \in I : \A j \in I : i <= j
    BY <2>2, LeastMember
  <2>4. Min(I) \in I
    BY <2>3, Zenon DEF Min
  <2>5. Min(I) \in 1..Len(q) /\ q[Min(I)].kind = "scalars"
    BY <2>1, <2>4
  <2> QED BY <2>5 DEF I
<1>3. CASE Len(q) < limit
  BY <1>3 DEF BoundedAppend, Appended
<1>4. CASE ~(Len(q) < limit) /\ ScalarsIn(q) # {}
  <2>1. BoundedAppend(q, r, limit)
          = Append(RemoveAt(q, Min(ScalarsIn(q))), r)
    BY <1>4 DEF BoundedAppend
  <2>2. Len(q) >= limit
    BY <1>1, <1>4
  <2> QED BY <1>2, <1>4, <2>1, <2>2 DEF Appended
<1>5. CASE ~(Len(q) < limit) /\ ScalarsIn(q) = {}
  BY <1>5 DEF BoundedAppend, Appended, IsScalars
<1> QED BY <1>3, <1>4, <1>5

\* The records a queue has after an append, and what it has beyond its limit.
LEMMA BoundedAppendHas ==
  ASSUME NEW R, NEW q \in Seq(R), NEW r \in R, NEW limit \in Nat, r \notin ToSet(q),
         Len(q) > limit => ScalarsIn(q) = {}, Distinct(q),
         NEW b, b = BoundedAppend(q, r, limit)
  PROVE  /\ b \in Seq(R) /\ Distinct(b)
         /\ ToSet(b) \subseteq ToSet(q) \cup {r}
         /\ \A x \in ToSet(q) \cup {r} : x.kind # "scalars" => x \in ToSet(b)
         /\ Len(b) > limit => ScalarsIn(b) = {}
<1>1. Len(q) \in Nat /\ DOMAIN q = 1..Len(q) /\ ToSet(q) = {q[i] : i \in 1..Len(q)}
  BY LenProperties, SetOf
<1>2. \A i \in 1..Len(q) : q[i] # r /\ q[i] \in R
  BY <1>1, LenProperties
<1>3. CASE b = Append(q, r) /\ (Len(q) < limit \/ (ScalarsIn(q) = {} /\ ~IsScalars(r)))
  <2>1. /\ b \in Seq(R) /\ Len(b) = Len(q) + 1
        /\ (\A i \in 1..Len(q) : b[i] = q[i]) /\ b[Len(q) + 1] = r
    BY <1>3, AppendProperties
  <2>2. ToSet(b) = ToSet(q) \cup {r}
    BY <1>3, SetOfAppend
  <2>3. Distinct(b)
    <3> SUFFICES ASSUME NEW i \in 1..(Len(q) + 1), NEW j \in 1..(Len(q) + 1), b[i] = b[j]
                 PROVE  i = j
      BY <2>1 DEF Distinct
    <3>1. (i \in 1..Len(q) \/ i = Len(q) + 1) /\ (j \in 1..Len(q) \/ j = Len(q) + 1)
      BY <1>1
    <3> QED BY <1>2, <2>1, <3>1 DEF Distinct
  <2>4. Len(b) > limit => ScalarsIn(b) = {}
    <3> SUFFICES ASSUME Len(b) > limit, NEW i \in 1..Len(b) PROVE ~IsScalars(b[i])
      <4>1. DOMAIN b = 1..Len(b)
        BY <2>1, LenProperties
      <4> QED BY <4>1 DEF ScalarsIn
    <3>1. ScalarsIn(q) = {} /\ ~IsScalars(r)
      BY <1>1, <1>3, <2>1
    <3>2. i \in 1..Len(q) \/ i = Len(q) + 1
      BY <1>1, <2>1
    <3> QED BY <1>1, <2>1, <3>1, <3>2 DEF ScalarsIn
  <2> QED BY <2>1, <2>2, <2>3, <2>4
<1>4. CASE Len(q) >= limit /\ \E i \in 1..Len(q) : q[i].kind = "scalars" /\ b = Append(RemoveAt(q, i), r)
  <2>1. PICK i \in 1..Len(q) : q[i].kind = "scalars" /\ b = Append(RemoveAt(q, i), r)
    BY <1>4
  <2> DEFINE c == RemoveAt(q, i)
             n == Len(q)
  <2>2. /\ c \in Seq(R) /\ Len(c) = n - 1
        /\ \A j \in 1..(n - 1) : c[j] = IF j < i THEN q[j] ELSE q[j + 1]
    BY Removed
  <2>3. b = Append(c, r)
    BY <2>1
  <2> HIDE DEF c
  <2>4. /\ b \in Seq(R) /\ Len(b) = n /\ b[n] = r
        /\ \A j \in 1..(n - 1) : b[j] = c[j]
    <3>1. n - 1 + 1 = n
      BY <1>1
    <3> QED BY <2>2, <2>3, <3>1, AppendProperties
  <2> DEFINE at(j) == IF j < i THEN j ELSE j + 1
  <2>5. \A j \in 1..(n - 1) : at(j) \in 1..n /\ at(j) # i /\ b[j] = q[at(j)]
    BY <1>1, <2>2, <2>4
  <2>6. ASSUME NEW j \in 1..(n - 1), NEW k \in 1..(n - 1), at(j) = at(k) PROVE j = k
    <3>1. j \in Int /\ k \in Int /\ i \in Int
      BY <1>1
    <3>2. CASE j < i /\ k < i
      BY <2>6, <3>2
    <3>3. CASE j < i /\ ~(k < i)
      <4>1. j = k + 1
        BY <2>6, <3>3
      <4> QED BY <3>1, <3>3, <4>1
    <3>4. CASE ~(j < i) /\ k < i
      <4>1. j + 1 = k
        BY <2>6, <3>4
      <4> QED BY <3>1, <3>4, <4>1
    <3>5. CASE ~(j < i) /\ ~(k < i)
      <4>1. j + 1 = k + 1
        BY <2>6, <3>5
      <4> QED BY <3>1, <4>1
    <3> QED BY <3>2, <3>3, <3>4, <3>5
  <2>7. n \in 1..n /\ \A j \in 1..n : j \in 1..(n - 1) \/ j = n
    <3>1. n \in Nat /\ i \in 1..n
      BY <1>1
    <3> HIDE DEF n
    <3> QED BY ONLY <3>1
  <2>8. Distinct(b)
    <3> SUFFICES ASSUME NEW j \in 1..n, NEW k \in 1..n, b[j] = b[k]
                 PROVE  j = k
      BY <2>4 DEF Distinct
    <3> HIDE DEF at, n
    <3>1. \A l \in 1..(n - 1) : b[l] # r
      BY <1>2, <2>5 DEF n
    <3>2. CASE j \in 1..(n - 1) /\ k \in 1..(n - 1)
      <4>1. at(j) \in 1..n /\ at(k) \in 1..n /\ q[at(j)] = q[at(k)]
        BY <2>5, <3>2
      <4>2. \A l, m \in 1..n : q[l] = q[m] => l = m
        BY DEF Distinct, n
      <4>3. at(j) = at(k)
        BY <4>1, <4>2
      <4> QED BY <2>6, <3>2, <4>3
    <3> QED BY <2>4, <2>7, <3>1, <3>2
  <2>9. ToSet(b) = {b[j] : j \in 1..n}
    BY <2>4, SetOf
  <2>10. ToSet(b) \subseteq ToSet(q) \cup {r}
    <3> SUFFICES ASSUME NEW j \in 1..n PROVE b[j] \in ToSet(q) \cup {r}
      BY <2>9
    <3> HIDE DEF at
    <3>1. CASE j \in 1..(n - 1)
      BY <1>1, <2>5, <3>1
    <3> QED BY <2>4, <2>7, <3>1
  <2>11. \A x \in ToSet(q) \cup {r} : x.kind # "scalars" => x \in ToSet(b)
    <3> SUFFICES ASSUME NEW x \in ToSet(q), x.kind # "scalars" PROVE x \in ToSet(b)
      BY <2>4, <2>7, <2>9
    <3>1. PICK k \in 1..n : x = q[k]
      BY <1>1
    <3>2. k # i
      BY <2>1, <3>1
    <3>3. \E j \in 1..(n - 1) : at(j) = k
      <4>1. CASE k < i
        <5>1. k \in 1..(n - 1) /\ at(k) = k
          BY <1>1, <4>1
        <5> QED BY <5>1
      <4>2. CASE k > i
        <5>1. k - 1 \in 1..(n - 1) /\ at(k - 1) = k
          BY <1>1, <4>2
        <5> QED BY <5>1
      <4> QED BY <3>2, <4>1, <4>2
    <3> HIDE DEF at
    <3>4. \E j \in 1..(n - 1) : b[j] = x
      BY <2>5, <3>1, <3>3
    <3>5. 1..(n - 1) \subseteq 1..n
      BY <1>1
    <3> QED BY <2>9, <3>4, <3>5
  <2>12. Len(b) > limit => ScalarsIn(b) = {}
    <3> SUFFICES ASSUME Len(b) > limit PROVE FALSE
      OBVIOUS
    <3>1. Len(q) > limit
      BY <2>4
    <3>2. i \in ScalarsIn(q)
      BY <1>1, <2>1 DEF ScalarsIn, IsScalars
    <3> QED BY <3>1, <3>2
  <2> QED BY <2>4, <2>8, <2>10, <2>11, <2>12
<1>5. CASE b = q /\ r.kind = "scalars"
  BY <1>5
<1>6. \/ b = Append(q, r) /\ (Len(q) < limit \/ (ScalarsIn(q) = {} /\ ~IsScalars(r)))
      \/ Len(q) >= limit /\ \E i \in 1..Len(q) : q[i].kind = "scalars" /\ b = Append(RemoveAt(q, i), r)
      \/ b = q /\ r.kind = "scalars"
  <2>1. Appended(q, r, limit, b)
    BY BoundedAppendIs
  <2> QED BY <2>1 DEF Appended
<1> QED BY ONLY <1>3, <1>4, <1>5, <1>6

\* The parts of a sequence without duplicates share no record.
LEMMA DistinctParts ==
  ASSUME NEW R, NEW a \in Seq(R), NEW b \in Seq(R), Distinct(a \o b)
  PROVE  Distinct(b) /\ ToSet(a) \cap ToSet(b) = {}
<1> DEFINE c == a \o b
<1>1. /\ Len(c) = Len(a) + Len(b) /\ Len(a) \in Nat /\ Len(b) \in Nat
      /\ \A i \in 1..(Len(a) + Len(b)) : c[i] = IF i <= Len(a) THEN a[i] ELSE b[i - Len(a)]
  BY ConcatProperties, LenProperties
<1> HIDE DEF c
<1>2. \A i \in 1..Len(a) : i \in 1..Len(c) /\ c[i] = a[i]
  BY <1>1
<1>3. ASSUME NEW i \in 1..Len(b)
      PROVE  Len(a) + i \in 1..Len(c) /\ c[Len(a) + i] = b[i]
  <2>1. Len(a) + i \in 1..(Len(a) + Len(b)) /\ ~(Len(a) + i <= Len(a)) /\ Len(a) + i - Len(a) = i
    BY <1>1
  <2> QED BY <1>1, <2>1
<1>4. \A i, j \in 1..Len(c) : c[i] = c[j] => i = j
  BY DEF Distinct, c
<1>5. Distinct(b)
  <2> SUFFICES ASSUME NEW i \in 1..Len(b), NEW j \in 1..Len(b), b[i] = b[j]
               PROVE  i = j
    BY DEF Distinct
  <2>1. Len(a) + i = Len(a) + j
    BY <1>3, <1>4
  <2> QED BY <1>1, <2>1
<1>6. \A i \in 1..Len(a), j \in 1..Len(b) : a[i] # b[j]
  <2> SUFFICES ASSUME NEW i \in 1..Len(a), NEW j \in 1..Len(b), a[i] = b[j]
               PROVE  FALSE
    OBVIOUS
  <2>1. i = Len(a) + j
    BY <1>2, <1>3, <1>4
  <2> QED BY <1>1, <2>1
<1>7. ToSet(a) = {a[i] : i \in 1..Len(a)} /\ ToSet(b) = {b[i] : i \in 1..Len(b)}
  BY SetOf
<1> QED BY <1>5, <1>6, <1>7

-----------------------------------------------------------------------------
(* The invariant of the live metrics.                                      *)

\* How many records the training thread may still be given a number for
\* beyond the bound, counted from the start.
Extra == IF pc = "created" THEN 0 ELSE IF pc = "training" THEN 1 ELSE 2

\* Numbers go up within the bound, and a heartbeat may still take one; what has
\* to be kept are records of the run that are no scalars.
TrainerSide ==
  /\ pc \in {"created", "training", "close", "close_jsonl", "close_http", "closed", "exited"}
  /\ closed \in BOOLEAN /\ late \in BOOLEAN
  /\ seq \in Nat /\ seq <= MaxSeq + Extra
  /\ hpc = "beat" => seq < MaxSeq + Extra
  /\ kept \subseteq Reported /\ \A r \in kept : r.kind # "scalars"

\* The file's queue holds each record once; a record kept is in the queue, in
\* the batch, in the file or lost; the thread ends with nothing in the queue.
JsonlSide ==
  /\ jpc \in {"wait", "write", "check", "ended"} /\ jclosing \in BOOLEAN /\ jseen \in BOOLEAN
  /\ jqueue \in Seq(Reported) /\ jbatch \in Seq(Reported)
  /\ file \in Seq(Reported) /\ jlost \subseteq Reported
  /\ Distinct(jqueue) /\ \A r \in ToSet(jqueue) : r.seq <= seq
  /\ Len(jqueue) > JsonlQueue => ScalarsIn(jqueue) = {}
  /\ jclosing => pc \in {"close_http", "closed", "exited"}
  /\ jseen => jclosing
  /\ jpc = "ended" => jseen /\ jqueue = <<>>
  /\ jpc # "write" => jbatch = <<>>
  /\ pc = "exited" /\ ~late => jpc = "ended"
  /\ kept \subseteq ToSet(jqueue) \cup ToSet(jbatch) \cup ToSet(file) \cup jlost

\* The same for the service; what is queued is not in the batch, nor sent.
HttpSide ==
  /\ hpc \in {"wait", "beat", "post", "sleep", "ended"} /\ deadline \in {"none", "ahead", "passed"}
  /\ hqueue \in Seq(Reported) /\ hbatch \in Seq(Record)
  /\ service \in Seq(Record) /\ hlost \subseteq Record
  /\ Distinct(hqueue)
  /\ \A r \in ToSet(hqueue) \cup ToSet(hbatch) \cup ToSet(service) : r.seq <= seq
  /\ ToSet(hqueue) \cap (ToSet(hbatch) \cup ToSet(service)) = {}
  /\ Len(hbatch) <= BatchSize
  /\ Len(hqueue) > HttpQueue => ScalarsIn(hqueue) = {}
  /\ deadline # "none" => pc \in {"closed", "exited"}
  /\ hpc = "ended" => deadline # "none" /\ hqueue = <<>>
  /\ hpc \notin {"post", "sleep"} => hbatch = <<>>
  /\ pc = "exited" /\ ~late => hpc = "ended"
  /\ kept \subseteq ToSet(hqueue) \cup ToSet(hbatch) \cup ToSet(service) \cup hlost

\* The inductive invariant.
MetricsInv == TrainerSide /\ JsonlSide /\ HttpSide

\* The records of the run are numbered, and are no heartbeats.
LEMMA RecordsAre ==
  /\ Reported \subseteq Record
  /\ \A r \in Record : r.seq \in Nat
  /\ \A r \in Reported : r.kind # "heartbeat"
BY DEF Reported, Heartbeats, Record

\* The invariant holds at the start.
LEMMA MetricsInitial ==
  ASSUME MetricsInit
  PROVE  MetricsInv
<1> USE LimitsAssumption DEF MetricsInit, JsonlInit, HttpInit
<1>1. \A S : <<>> \in Seq(S)
  BY EmptySeq
<1>2. ToSet(<<>>) = {}
  BY <1>1, SetOf
<1>3. Distinct(<<>>) /\ Len(<<>>) = 0
  BY DEF Distinct
<1>4. TrainerSide
  <2>1. pc = "created" /\ closed = FALSE /\ late = FALSE /\ seq = 0 /\ kept = {} /\ hpc = "wait"
    OBVIOUS
  <2>2. Extra = 0 /\ MaxSeq \in Nat
    BY <2>1 DEF Extra
  <2>3. closed \in BOOLEAN /\ late \in BOOLEAN
    BY <2>1
  <2>4. pc = "created" /\ seq = 0 /\ kept = {} /\ hpc = "wait"
    BY <2>1
  <2>5. seq \in Nat /\ seq <= MaxSeq + Extra /\ (hpc = "beat" => seq < MaxSeq + Extra)
    BY ONLY <2>2, <2>4
  <2>6. kept \subseteq Reported /\ \A r \in kept : r.kind # "scalars"
    BY ONLY <2>4
  <2> QED BY ONLY <2>3, <2>4, <2>5, <2>6 DEF TrainerSide
<1>5. JsonlSide
  <2>1. /\ jpc = "wait" /\ jclosing = FALSE /\ jseen = FALSE /\ jqueue = <<>> /\ jbatch = <<>>
        /\ file = <<>> /\ jlost = {} /\ kept = {} /\ pc = "created" /\ JsonlQueue \in Nat
    OBVIOUS
  <2>2. jclosing \in BOOLEAN /\ jseen \in BOOLEAN /\ ~jclosing /\ ~jseen
    BY <2>1
  <2>3. /\ jpc = "wait" /\ jqueue = <<>> /\ jbatch = <<>>
        /\ file = <<>> /\ jlost = {} /\ kept = {} /\ pc = "created"
    BY <2>1
  <2>4. ~(Len(jqueue) > JsonlQueue)
    BY <1>3, <2>1
  <2>5. \A S : jqueue \in Seq(S) /\ jbatch \in Seq(S) /\ file \in Seq(S)
    BY <1>1, <2>3
  <2> QED BY ONLY <1>2, <1>3, <2>2, <2>3, <2>4, <2>5 DEF JsonlSide
<1>6. HttpSide
  BY <1>1, <1>2, <1>3 DEF HttpSide
<1> QED BY <1>4, <1>5, <1>6 DEF MetricsInv

\* One emission, with a number within the bound.
LEMMA EmitKeeps ==
  ASSUME MetricsInv,
         NEW kind \in {"run", "scalars", "event"}, Emit(kind),
         pc \in {"created", "training"}, pc' \in {"training", "close"},
         seq + 1 <= MaxSeq + Extra', hpc = "beat" => seq + 1 < MaxSeq + Extra'
  PROVE  MetricsInv'
<1> USE LimitsAssumption
<1> DEFINE r == [seq |-> seq + 1, kind |-> kind]
<1>1. /\ seq' = seq + 1 /\ kept' = (IF IsKept(r) THEN kept \cup {r} ELSE kept)
      /\ UNCHANGED <<closed, late>>
      /\ jqueue' = IF jclosing THEN jqueue ELSE BoundedAppend(jqueue, r, JsonlQueue)
      /\ UNCHANGED <<jclosing, jpc, jbatch, jseen, file, jlost>>
      /\ hqueue' = BoundedAppend(hqueue, r, HttpQueue)
      /\ UNCHANGED <<deadline, hpc, hbatch, service, hlost>>
  BY DEF Emit, JsonlWrite, HttpPut
<1>2. seq \in Nat /\ seq + 1 \in 1..(MaxSeq + 2)
  BY DEF MetricsInv, TrainerSide, Extra
<1>3. r \in Reported /\ r.seq = seq + 1 /\ r.kind = kind
  BY <1>2 DEF Reported, Heartbeats, Record, Kinds
<1> HIDE DEF r
<1>4. kept' \subseteq kept \cup {r} /\ (r \in kept' => r \in kept \/ r.kind # "scalars")
  BY <1>1, <1>3 DEF IsKept
<1>5. TrainerSide'
  <2>1. kept' \subseteq Reported /\ \A x \in kept' : x.kind # "scalars"
    BY <1>3, <1>4 DEF MetricsInv, TrainerSide
  <2> QED BY <1>1, <1>2, <2>1 DEF MetricsInv, TrainerSide
<1>6. JsonlSide'
  <2>1. jqueue' = BoundedAppend(jqueue, r, JsonlQueue)
    BY <1>1 DEF MetricsInv, JsonlSide
  <2>2. /\ jqueue \in Seq(Reported) /\ Distinct(jqueue)
        /\ Len(jqueue) > JsonlQueue => ScalarsIn(jqueue) = {}
    BY DEF MetricsInv, JsonlSide
  <2>3. r \notin ToSet(jqueue)
    BY <1>2, <1>3 DEF MetricsInv, JsonlSide
  <2>4. /\ jqueue' \in Seq(Reported) /\ Distinct(jqueue')
        /\ ToSet(jqueue') \subseteq ToSet(jqueue) \cup {r}
        /\ \A x \in ToSet(jqueue) \cup {r} : x.kind # "scalars" => x \in ToSet(jqueue')
        /\ Len(jqueue') > JsonlQueue => ScalarsIn(jqueue') = {}
    BY <1>3, <2>1, <2>2, <2>3, BoundedAppendHas
  <2>5. \A x \in ToSet(jqueue') : x.seq <= seq'
    <3>1. \A x \in ToSet(jqueue) : x.seq <= seq /\ x.seq \in Nat
      BY <2>2, SetOf, RecordsAre DEF MetricsInv, JsonlSide
    <3> QED BY <1>1, <1>2, <1>3, <2>4, <3>1
  <2>6. kept' \subseteq ToSet(jqueue') \cup ToSet(jbatch') \cup ToSet(file') \cup jlost'
    <3>1. \A x \in kept' : x.kind # "scalars"
      BY <1>5 DEF TrainerSide
    <3> QED BY <1>1, <1>4, <2>4, <3>1 DEF MetricsInv, JsonlSide
  <2> QED BY <1>1, <2>2, <2>4, <2>5, <2>6 DEF MetricsInv, JsonlSide
<1>7. HttpSide'
  <2>1. hqueue' = BoundedAppend(hqueue, r, HttpQueue)
    BY <1>1
  <2>2. /\ hqueue \in Seq(Reported) /\ Distinct(hqueue)
        /\ hbatch \in Seq(Record) /\ service \in Seq(Record)
        /\ Len(hqueue) > HttpQueue => ScalarsIn(hqueue) = {}
    BY DEF MetricsInv, HttpSide
  <2>3. \A x \in ToSet(hqueue) \cup ToSet(hbatch) \cup ToSet(service) :
          x.seq <= seq /\ x.seq \in Nat
    BY <2>2, SetOf, RecordsAre DEF MetricsInv, HttpSide
  <2>4. /\ r \notin ToSet(hqueue) /\ r \notin ToSet(hbatch)
        /\ r \notin ToSet(service)
    BY <1>2, <1>3, <2>3
  <2>5. /\ hqueue' \in Seq(Reported) /\ Distinct(hqueue')
        /\ ToSet(hqueue') \subseteq ToSet(hqueue) \cup {r}
        /\ \A x \in ToSet(hqueue) \cup {r} : x.kind # "scalars" => x \in ToSet(hqueue')
        /\ Len(hqueue') > HttpQueue => ScalarsIn(hqueue') = {}
    BY <1>3, <2>1, <2>2, <2>4, BoundedAppendHas
  <2>6. \A x \in ToSet(hqueue') \cup ToSet(hbatch') \cup ToSet(service') :
          x.seq <= seq'
    BY <1>1, <1>2, <1>3, <2>3, <2>5
  <2>7. ToSet(hqueue') \cap (ToSet(hbatch') \cup ToSet(service')) = {}
    BY <1>1, <2>4, <2>5 DEF MetricsInv, HttpSide
  <2>8. kept' \subseteq ToSet(hqueue') \cup ToSet(hbatch') \cup ToSet(service') \cup hlost'
    <3>1. \A x \in kept' : x.kind # "scalars"
      BY <1>5 DEF TrainerSide
    <3> QED BY <1>1, <1>4, <2>5, <3>1 DEF MetricsInv, HttpSide
  <2> QED BY <1>1, <2>5, <2>6, <2>7, <2>8 DEF MetricsInv, HttpSide
<1> QED BY <1>5, <1>6, <1>7 DEF MetricsInv

\* The training thread.
LEMMA TrainingKeeps ==
  ASSUME MetricsInv,
         \/ Running \/ SetupFails \/ Log \/ Ends
         \/ Closing \/ JoinAtExit
  PROVE  MetricsInv'
<1> USE LimitsAssumption
<1>0. seq \in Nat
  BY DEF MetricsInv, TrainerSide
<1>1. CASE Running
  <2>1. Emit("run") /\ pc = "created" /\ pc' = "training"
    BY <1>1 DEF Running
  <2>2. seq + 1 <= MaxSeq + Extra' /\ (hpc = "beat" => seq + 1 < MaxSeq + Extra')
    BY <1>0, <2>1 DEF MetricsInv, TrainerSide, Extra
  <2> QED BY <2>1, <2>2, EmitKeeps
<1>2. CASE Log
  <2>1. PICK kind \in {"scalars", "event"} :
          pc = "training" /\ seq < MaxSeq /\ UNCHANGED pc /\ Emit(kind)
    BY <1>2 DEF Log
  <2>2. seq + 1 <= MaxSeq + Extra' /\ (hpc = "beat" => seq + 1 < MaxSeq + Extra')
    BY <1>0, <2>1 DEF Extra
  <2> QED BY <2>1, <2>2, EmitKeeps
<1>3. CASE Ends
  <2>1. Emit("run") /\ pc = "training" /\ pc' = "close"
    BY <1>3 DEF Ends
  <2>2. seq + 1 <= MaxSeq + Extra' /\ (hpc = "beat" => seq + 1 < MaxSeq + Extra')
    BY <1>0, <2>1 DEF MetricsInv, TrainerSide, Extra
  <2> QED BY <2>1, <2>2, EmitKeeps
<1>4. CASE SetupFails \/ CloseLogger \/ CloseJsonl \/ CloseHttp \/ JoinAtExit
  <2>1. UNCHANGED <<seq, kept, jqueue, jpc, jbatch, jseen, file, jlost, hqueue, hpc, hbatch, service, hlost>>
    BY <1>4 DEF SetupFails, CloseLogger, CloseJsonl, CloseHttp,
                JoinAtExit, JsonlClose, HttpClose, jsonl, http
  <2> USE DEF SetupFails, CloseLogger, CloseJsonl, CloseHttp,
              JoinAtExit, JsonlClose, HttpClose, jsonl, http
  <2>2. TrainerSide'
    <3>1. MaxSeq + Extra <= MaxSeq + Extra' /\ pc' \in {"close", "close_jsonl", "close_http", "closed", "exited"}
      BY <1>4 DEF Extra
    <3>2. MaxSeq + Extra \in Nat /\ MaxSeq + Extra' \in Nat
      BY DEF Extra
    <3>3. closed' \in BOOLEAN /\ late' \in BOOLEAN
      BY <1>4 DEF MetricsInv, TrainerSide
    <3>4. /\ seq' = seq /\ hpc' = hpc /\ kept' = kept
          /\ seq <= MaxSeq + Extra /\ (hpc = "beat" => seq < MaxSeq + Extra)
          /\ kept \subseteq Reported /\ \A r \in kept : r.kind # "scalars"
      BY <2>1 DEF MetricsInv, TrainerSide
    <3>5. seq' \in Nat /\ seq' <= MaxSeq + Extra' /\ (hpc' = "beat" => seq' < MaxSeq + Extra')
      BY ONLY <1>0, <3>1, <3>2, <3>4
    <3> QED BY ONLY <3>1, <3>3, <3>4, <3>5 DEF TrainerSide
  <2>3. JsonlSide'
    <3>1. /\ jclosing' \in BOOLEAN
          /\ jclosing' => pc' \in {"close_http", "closed", "exited"}
          /\ jclosing => jclosing'
      <4>0. jclosing \in BOOLEAN /\ (jclosing => pc \in {"close_http", "closed", "exited"})
        BY DEF MetricsInv, JsonlSide
      <4>1. CASE CloseJsonl
        <5>1. jclosing' = TRUE /\ pc' = "close_http"
          BY <4>1
        <5> QED BY ONLY <5>1
      <4>2. CASE SetupFails \/ CloseLogger \/ CloseHttp \/ JoinAtExit
        <5>1. jclosing' = jclosing
          BY <4>2
        <5>2. pc \in {"close_http", "closed", "exited"} => pc' \in {"close_http", "closed", "exited"}
          BY <4>2
        <5> QED BY ONLY <4>0, <5>1, <5>2
      <4> QED BY <1>4, <4>1, <4>2
    <3>2. pc' = "exited" /\ ~late' => jpc = "ended"
      <4>1. CASE JoinAtExit
        <5>1. late' = (jpc # "ended" \/ hpc # "ended")
          BY <4>1
        <5> QED BY ONLY <5>1, Zenon
      <4> QED BY <1>4, <4>1
    <3> QED BY <2>1, <3>1, <3>2 DEF MetricsInv, JsonlSide
  <2>4. HttpSide'
    BY <1>4, <2>1 DEF MetricsInv, HttpSide
  <2> QED BY <2>2, <2>3, <2>4 DEF MetricsInv
<1> QED BY <1>1, <1>2, <1>3, <1>4 DEF Closing

\* The writer of the file.
LEMMA WriterKeeps ==
  ASSUME MetricsInv, JsonlStep
  PROVE  MetricsInv'
<1>1. pc # "exited" /\ JsonlThread
      /\ UNCHANGED <<pc, closed, late, seq, kept, hqueue, deadline, hpc, hbatch, service, hlost>>
  BY DEF JsonlStep, trainer, http
<1>2. TrainerSide' /\ HttpSide'
  BY <1>1 DEF MetricsInv, TrainerSide, HttpSide, Extra
<1>3. /\ jqueue \in Seq(Reported) /\ jbatch \in Seq(Reported)
      /\ file \in Seq(Reported) /\ <<>> \in Seq(Reported)
      /\ ToSet(<<>>) = {} /\ Distinct(<<>>) /\ Len(<<>>) = 0
  <2>1. <<>> \in Seq(Reported)
    BY EmptySeq
  <2>2. ToSet(<<>>) = {}
    BY <2>1, SetOf
  <2>3. Distinct(<<>>) /\ Len(<<>>) = 0
    BY DEF Distinct
  <2> QED BY <2>1, <2>2, <2>3 DEF MetricsInv, JsonlSide
<1>4. JsonlSide'
  <2>1. CASE TakeQueue
    <3>1. ~(Len(<<>>) > JsonlQueue) \/ ScalarsIn(<<>>) = {}
      BY DEF ScalarsIn
    <3> QED BY <1>1, <1>3, <2>1, <3>1 DEF MetricsInv, JsonlSide, TakeQueue
  <2>2. CASE WriteBatch
    <3>1. file \o jbatch \in Seq(Reported)
          /\ ToSet(file \o jbatch) = ToSet(file) \cup ToSet(jbatch)
      BY <1>3, SetOfConcat, ConcatProperties
    <3> QED BY <1>1, <1>3, <2>2, <3>1 DEF MetricsInv, JsonlSide, WriteBatch
  <2>3. CASE WriteFails
    <3>1. ToSet(jbatch) \subseteq Reported
      BY <1>3, SetOf
    <3> QED BY <1>1, <1>3, <2>3, <3>1 DEF MetricsInv, JsonlSide, WriteFails
  <2>4. CASE EndOrWait
    BY <1>1, <2>4 DEF MetricsInv, JsonlSide, EndOrWait
  <2> QED BY <1>1, <2>1, <2>2, <2>3, <2>4 DEF JsonlThread
<1> QED BY <1>2, <1>4 DEF MetricsInv

\* A queue cut after n records, in two parts.
First(q, n) == SubSeq(q, 1, n)
Rest(q, n)  == SubSeq(q, n + 1, Len(q))

\* The first n records of a queue, and the others.
LEMMA CutAt ==
  ASSUME NEW R, NEW q \in Seq(R), NEW n \in Nat, n <= Len(q)
  PROVE  /\ First(q, n) \in Seq(R) /\ Len(First(q, n)) = n
         /\ Rest(q, n) \in Seq(R) /\ Len(Rest(q, n)) = Len(q) - n
         /\ First(q, n) \o Rest(q, n) = q
         /\ ScalarsIn(q) = {} => ScalarsIn(Rest(q, n)) = {}
<1> DEFINE l == Len(q)
           a == SubSeq(q, 1, n)
           b == SubSeq(q, n + 1, l)
<1>1. l \in Nat /\ n \in Nat /\ n <= l /\ \A j \in 1..l : q[j] \in R
  BY LenProperties
<1> HIDE DEF l
<1>2. a \in Seq(R) /\ Len(a) = n /\ \A j \in 1..n : a[j] = q[j]
  <2>1. \A j \in 1..n : q[j] \in R
    BY <1>1
  <2>2. n \in Int /\ 1 \in Int
    BY <1>1
  <2>3. /\ a \in Seq(R) /\ Len(a) = (IF 1 <= n THEN n - 1 + 1 ELSE 0)
        /\ \A j \in 1..(n - 1 + 1) : a[j] = q[1 + j - 1]
    BY <2>1, <2>2, SubSeqProperties
  <2> HIDE DEF a
  <2> QED BY <1>1, <2>3
<1>3. b \in Seq(R) /\ Len(b) = l - n /\ \A j \in 1..(l - n) : b[j] = q[n + j]
  <2>1. \A j \in (n + 1)..l : q[j] \in R
    BY <1>1
  <2>2. n + 1 \in Int /\ l \in Int
    BY <1>1
  <2>3. /\ b \in Seq(R) /\ Len(b) = (IF n + 1 <= l THEN l - (n + 1) + 1 ELSE 0)
        /\ \A j \in 1..(l - (n + 1) + 1) : b[j] = q[n + 1 + j - 1]
    BY <2>1, <2>2, SubSeqProperties
  <2> HIDE DEF b
  <2>4. \A j \in 1..(l - n) : j \in 1..(l - (n + 1) + 1) /\ n + 1 + j - 1 = n + j
    BY <1>1
  <2> QED BY <1>1, <2>3, <2>4
<1>4. ScalarsIn(q) = {} => ScalarsIn(b) = {}
  <2> HIDE DEF b
  <2> SUFFICES ASSUME ScalarsIn(q) = {}, NEW j \in 1..Len(b) PROVE ~IsScalars(b[j])
    <3>1. DOMAIN b = 1..Len(b)
      BY <1>3, LenProperties
    <3> QED BY <3>1 DEF ScalarsIn
  <2>1. n + j \in 1..l /\ b[j] = q[n + j]
    BY <1>1, <1>3
  <2>2. DOMAIN q = 1..l
    BY LenProperties DEF l
  <2> QED BY <2>1, <2>2 DEF ScalarsIn
<1> DEFINE c == a \o b
<1> HIDE DEF a, b
<1>5. c = q
  <2>1. /\ c \in Seq(R) /\ Len(c) = l
        /\ \A j \in 1..l : c[j] = IF j <= n THEN a[j] ELSE b[j - n]
    <3>1. /\ c \in Seq(R) /\ Len(c) = Len(a) + Len(b)
          /\ \A j \in 1..(Len(a) + Len(b)) : c[j] = IF j <= Len(a) THEN a[j] ELSE b[j - Len(a)]
      BY <1>2, <1>3, ConcatProperties
    <3>2. Len(a) + Len(b) = l
      BY <1>1, <1>2, <1>3
    <3> HIDE DEF c
    <3> QED BY <1>2, <3>1, <3>2
  <2> HIDE DEF c
  <2>2. ASSUME NEW j \in 1..l PROVE c[j] = q[j]
    <3>1. CASE j <= n
      BY <1>1, <1>2, <2>1, <3>1
    <3>2. CASE ~(j <= n)
      <4>1. j - n \in 1..(l - n) /\ n + (j - n) = j
        BY <1>1, <3>2
      <4> QED BY <1>3, <2>1, <3>2, <4>1
    <3> QED BY <3>1, <3>2
  <2>3. Len(c) = Len(q)
    BY <2>1 DEF l
  <2> QED BY <2>1, <2>2, <2>3, SeqEqual DEF l
<1> QED BY <1>2, <1>3, <1>4, <1>5 DEF a, b, c, l, First, Rest

\* A queue cut in two: both parts, and each record in one of them.
LEMMA Cut ==
  ASSUME NEW R, NEW q \in Seq(R), NEW n \in Nat, n <= Len(q), Distinct(q)
  PROVE  /\ First(q, n) \in Seq(R) /\ Len(First(q, n)) = n
         /\ Rest(q, n) \in Seq(R) /\ Len(Rest(q, n)) = Len(q) - n
         /\ First(q, n) \o Rest(q, n) = q /\ Distinct(Rest(q, n))
         /\ ToSet(q) = ToSet(First(q, n)) \cup ToSet(Rest(q, n))
         /\ ToSet(First(q, n)) \cap ToSet(Rest(q, n)) = {}
         /\ ScalarsIn(q) = {} => ScalarsIn(Rest(q, n)) = {}
<1> DEFINE a == First(q, n)
           b == Rest(q, n)
<1>1. /\ a \in Seq(R) /\ Len(a) = n /\ b \in Seq(R) /\ Len(b) = Len(q) - n /\ a \o b = q
      /\ ScalarsIn(q) = {} => ScalarsIn(b) = {}
  <2>1. a \in Seq(R) /\ Len(a) = n
    BY CutAt
  <2>2. b \in Seq(R) /\ Len(b) = Len(q) - n
    BY CutAt
  <2>3. a \o b = q
    BY CutAt
  <2>4. ScalarsIn(q) = {} => ScalarsIn(b) = {}
    BY CutAt
  <2> QED BY <2>1, <2>2, <2>3, <2>4
<1> HIDE DEF a, b
<1>2. Distinct(a \o b)
  BY <1>1
<1>3. Distinct(b) /\ ToSet(a) \cap ToSet(b) = {}
  <2> a \in Seq(R) /\ b \in Seq(R)
    BY <1>1
  <2> QED BY ONLY a \in Seq(R), b \in Seq(R), <1>2, DistinctParts
<1>4. ToSet(a \o b) = ToSet(a) \cup ToSet(b)
  <2> a \in Seq(R) /\ b \in Seq(R)
    BY <1>1
  <2> QED BY ONLY a \in Seq(R), b \in Seq(R), SetOfConcat
<1> QED BY <1>1, <1>3, <1>4 DEF a, b

\* A batch is not empty, and no longer than its limit.
LEMMA BatchIs ==
  ASSUME NEW q \in Seq(Reported), q # <<>>,
         NEW n, n = Min({BatchSize, Len(q)})
  PROVE  n \in 1..Len(q) /\ n <= BatchSize
<1>1. Len(q) \in Nat /\ Len(q) # 0
  BY LenProperties, EmptySeq
<1>2. BatchSize \in Nat /\ BatchSize # 0
  BY LimitsAssumption
<1> DEFINE S == {BatchSize, Len(q)}
<1>3. \E x \in S : \A y \in S : x <= y
  <2>1. BatchSize <= Len(q) \/ Len(q) <= BatchSize
    BY <1>1, <1>2
  <2>2. BatchSize <= BatchSize /\ Len(q) <= Len(q)
    BY <1>1, <1>2
  <2> QED BY <2>1, <2>2
<1>4. Min(S) \in S /\ \A y \in S : Min(S) <= y
  BY <1>3, Zenon DEF Min
<1> QED BY <1>1, <1>2, <1>4

\* What a post delivers, and what the service has then.
LEMMA UnsentIs ==
  ASSUME MetricsInv
  PROVE  /\ Unsent \in Seq(Record)
         /\ ToSet(Unsent) = ToSet(hbatch) \ ToSet(service)
         /\ service \o Unsent \in Seq(Record)
         /\ ToSet(service \o Unsent) = ToSet(service) \cup ToSet(hbatch)
<1>1. hbatch \in Seq(Record) /\ service \in Seq(Record)
  BY DEF MetricsInv, HttpSide
<1>2. /\ Unsent \in Seq(Record)
      /\ ToSet(Unsent) = ToSet(hbatch) \ ToSet(service)
  BY <1>1, WithoutHas DEF Unsent
<1>3. /\ service \o Unsent \in Seq(Record)
      /\ ToSet(service \o Unsent) = ToSet(service) \cup ToSet(Unsent)
  BY <1>1, <1>2, SetOfConcat, ConcatProperties
<1> QED BY <1>2, <1>3

\* The sender gives its heartbeat a number.
LEMMA HeartbeatKeeps ==
  ASSUME MetricsInv, SendHeartbeat,
         UNCHANGED <<pc, closed, late, kept, jqueue, jclosing, jpc, jbatch, jseen, file, jlost>>
  PROVE  MetricsInv'
<1> USE LimitsAssumption
<1> DEFINE r == [seq |-> seq + 1, kind |-> "heartbeat"]
<1>1. /\ seq' = seq + 1 /\ hpc = "beat" /\ hpc' = "post" /\ hbatch' = <<r>>
      /\ UNCHANGED <<hqueue, deadline, service, hlost>>
  BY DEF SendHeartbeat, Heartbeat
<1>2. seq \in Nat /\ seq < MaxSeq + Extra /\ Extra \in 0..2
  BY <1>1 DEF MetricsInv, TrainerSide, Extra
<1>3. seq + 1 \in 1..(MaxSeq + 2) /\ seq + 1 <= MaxSeq + Extra
  BY <1>2
<1>4. r \in Record /\ r \notin Reported /\ r.seq = seq + 1
  BY <1>3 DEF Record, Kinds, Reported, Heartbeats
<1> HIDE DEF r
<1>5. hbatch' \in Seq(Record) /\ ToSet(hbatch') = {r} /\ Len(hbatch') = 1
  BY <1>1, <1>4, SetOfOne
<1>6. TrainerSide'
  BY <1>1, <1>2, <1>3 DEF MetricsInv, TrainerSide, Extra
<1>7. JsonlSide'
  <2>1. \A x \in ToSet(jqueue) : x.seq <= seq /\ x.seq \in Nat
    BY SetOf, RecordsAre DEF MetricsInv, JsonlSide
  <2>2. \A x \in ToSet(jqueue') : x.seq <= seq'
    BY <1>1, <1>2, <2>1
  <2> QED BY <2>2 DEF MetricsInv, JsonlSide
<1>8. HttpSide'
  <2>1. \A x \in ToSet(hqueue) \cup ToSet(service) : x.seq <= seq /\ x.seq \in Nat
    BY SetOf, RecordsAre DEF MetricsInv, HttpSide
  <2>2. \A x \in ToSet(hqueue') \cup ToSet(hbatch') \cup ToSet(service') : x.seq <= seq'
    BY <1>1, <1>2, <1>4, <1>5, <2>1
  <2>3. ToSet(hqueue) \subseteq Reported
    BY SetOf DEF MetricsInv, HttpSide
  <2>4. ToSet(hqueue') \cap (ToSet(hbatch') \cup ToSet(service')) = {}
    BY <1>1, <1>4, <1>5, <2>3 DEF MetricsInv, HttpSide
  <2>5. kept' \subseteq ToSet(hqueue') \cup ToSet(hbatch') \cup ToSet(service') \cup hlost'
    <3>1. hbatch = <<>> /\ ToSet(<<>>) = {}
      BY <1>1, EmptySeq, SetOf DEF MetricsInv, HttpSide
    <3> QED BY <1>1, <3>1 DEF MetricsInv, HttpSide
  <2>6. Len(hbatch') <= BatchSize
    BY <1>5
  <2>7. pc # "exited" \/ late
    BY <1>1 DEF MetricsInv, HttpSide
  <2> QED BY <1>1, <1>5, <2>2, <2>4, <2>5, <2>6, <2>7 DEF MetricsInv, HttpSide
<1> QED BY <1>6, <1>7, <1>8 DEF MetricsInv

\* The other steps of the sender.
LEMMA SenderKeeps ==
  ASSUME MetricsInv, pc # "exited",
         Sender \/ (seq < MaxSeq /\ GoesIdle),
         UNCHANGED <<pc, closed, late, seq, kept, jqueue, jclosing, jpc, jbatch, jseen, file, jlost>>
  PROVE  MetricsInv'
<1> USE LimitsAssumption
<1>1. JsonlSide'
  BY DEF MetricsInv, JsonlSide
<1>2. Extra' = Extra
  BY DEF Extra
<1>3. TrainerSide'
  <2>1. hpc' = "beat" => seq < MaxSeq + Extra
    <3>1. CASE Sender
      <4>1. hpc' # "beat"
        BY <3>1 DEF Sender, TakeBatch, SenderEnds, Delivered,
                    Rejected, PostFails, Retry, SenderGivesUp
      <4> QED BY <4>1
    <3>2. CASE seq < MaxSeq
      <4>1. Extra \in 0..2 /\ seq \in Nat
        BY DEF Extra, MetricsInv, TrainerSide
      <4> QED BY <3>2, <4>1
    <3> QED BY <3>1, <3>2
  <2> QED BY <1>2, <2>1 DEF MetricsInv, TrainerSide
<1>4. /\ hqueue \in Seq(Reported) /\ hbatch \in Seq(Record)
      /\ service \in Seq(Record) /\ hlost \subseteq Record
      /\ Distinct(hqueue) /\ ToSet(hqueue) \subseteq Reported
      /\ ToSet(hbatch) \subseteq Record
  BY SetOf DEF MetricsInv, HttpSide
<1>5. /\ \A S : <<>> \in Seq(S)
      /\ ToSet(<<>>) = {} /\ Distinct(<<>>) /\ Len(<<>>) = 0 /\ ScalarsIn(<<>>) = {}
  <2>1. \A S : <<>> \in Seq(S)
    BY EmptySeq
  <2>2. ToSet(<<>>) = {}
    BY <2>1, SetOf
  <2> QED BY <2>1, <2>2 DEF Distinct, ScalarsIn
<1>6. HttpSide'
  <2>1. CASE GoesIdle
    BY <2>1 DEF MetricsInv, HttpSide, GoesIdle
  <2>2. CASE SenderEnds
    BY <2>2 DEF MetricsInv, HttpSide, SenderEnds
  <2>3. CASE Retry
    BY <2>3 DEF MetricsInv, HttpSide, Retry
  <2>4. CASE TakeBatch
    <3> DEFINE n == Min({BatchSize, Len(hqueue)})
    <3>1. /\ hpc = "wait" /\ hqueue # <<>> /\ hpc' = "post"
          /\ hbatch' = SubSeq(hqueue, 1, n) /\ hqueue' = SubSeq(hqueue, n + 1, Len(hqueue))
          /\ UNCHANGED <<deadline, service, hlost>>
      BY <2>4 DEF TakeBatch
    <3>2. n \in 1..Len(hqueue) /\ n <= BatchSize /\ Len(hqueue) \in Nat
      BY <1>4, <3>1, BatchIs, LenProperties
    <3> HIDE DEF n
    <3>3. n \in Nat /\ n <= Len(hqueue)
      BY <3>2
    <3>4. /\ hbatch' \in Seq(Reported) /\ Len(hbatch') = n
          /\ hqueue' \in Seq(Reported) /\ Len(hqueue') = Len(hqueue) - n /\ Distinct(hqueue')
          /\ ToSet(hqueue) = ToSet(hbatch') \cup ToSet(hqueue')
          /\ ToSet(hbatch') \cap ToSet(hqueue') = {}
          /\ ScalarsIn(hqueue) = {} => ScalarsIn(hqueue') = {}
      <4>1. hbatch' = First(hqueue, n) /\ hqueue' = Rest(hqueue, n)
        BY <3>1 DEF First, Rest
      <4>2. hqueue \in Seq(Reported) /\ Distinct(hqueue)
        BY <1>4
      <4> DEFINE a == First(hqueue, n)
                 b == Rest(hqueue, n)
      <4>3. a \in Seq(Reported) /\ Len(a) = n /\ b \in Seq(Reported)
        BY ONLY <3>3, <4>2, Cut
      <4>4. Len(b) = Len(hqueue) - n /\ Distinct(b)
        BY ONLY <3>3, <4>2, Cut
      <4>5. ToSet(hqueue) = ToSet(a) \cup ToSet(b) /\ ToSet(a) \cap ToSet(b) = {}
        BY ONLY <3>3, <4>2, Cut
      <4>6. ScalarsIn(hqueue) = {} => ScalarsIn(b) = {}
        BY ONLY <3>3, <4>2, Cut
      <4> HIDE DEF a, b
      <4> QED BY ONLY <4>1, <4>3, <4>4, <4>5, <4>6 DEF a, b
    <3>5. hbatch = <<>>
      BY <3>1 DEF MetricsInv, HttpSide
    <3>6. hbatch' \in Seq(Record)
      BY <3>4, RecordsAre, SeqMonotonic
    <3>7. Len(hqueue') > HttpQueue => Len(hqueue) > HttpQueue
      BY <3>2, <3>4
    <3>8. /\ ToSet(hqueue') \cap (ToSet(hbatch') \cup ToSet(service')) = {}
          /\ \A x \in ToSet(hqueue') \cup ToSet(hbatch') \cup ToSet(service') : x.seq <= seq
      BY <3>1, <3>4 DEF MetricsInv, HttpSide
    <3>9. kept' \subseteq ToSet(hqueue') \cup ToSet(hbatch') \cup ToSet(service') \cup hlost'
      BY <1>5, <3>1, <3>4, <3>5 DEF MetricsInv, HttpSide
    <3>10. Len(hbatch') <= BatchSize
      BY <3>2, <3>4
    <3> QED BY <3>1, <3>4, <3>6, <3>7, <3>8, <3>9, <3>10 DEF MetricsInv, HttpSide
  <2>5. CASE Delivered
    <3>1. /\ hpc' = "wait" /\ service' = service \o Unsent /\ hbatch' = <<>>
          /\ UNCHANGED <<hqueue, deadline, hlost>>
      BY <2>5 DEF Delivered
    <3>2. service' \in Seq(Record)
          /\ ToSet(service') = ToSet(service) \cup ToSet(hbatch)
      BY <3>1, UnsentIs
    <3> QED BY <1>5, <3>1, <3>2 DEF MetricsInv, HttpSide
  <2>6. CASE PostFails
    <3>1. /\ hpc = "post" /\ hpc' = "sleep" /\ service' \in {service, service \o Unsent}
          /\ UNCHANGED <<hqueue, deadline, hbatch, hlost>>
      BY <2>6 DEF PostFails
    <3>2. /\ service' \in Seq(Record) /\ ToSet(service) \subseteq ToSet(service')
          /\ ToSet(service') \subseteq ToSet(service) \cup ToSet(hbatch)
      BY <1>4, <3>1, UnsentIs
    <3> QED BY <3>1, <3>2 DEF MetricsInv, HttpSide
  <2>7. CASE Rejected
    <3>1. /\ hpc' = "wait" /\ hlost' = hlost \cup ToSet(Unsent) /\ hbatch' = <<>>
          /\ UNCHANGED <<hqueue, deadline, service>>
      BY <2>7 DEF Rejected
    <3>2. hlost' \subseteq Record
          /\ hlost' \cup ToSet(service) = hlost \cup ToSet(hbatch) \cup ToSet(service)
      BY <1>4, <3>1, UnsentIs
    <3> QED BY <1>5, <3>1, <3>2 DEF MetricsInv, HttpSide
  <2>8. CASE SenderGivesUp
    <3>1. /\ hpc' = "ended" /\ deadline = "passed"
          /\ hlost' = hlost \cup ToSet(Unsent) \cup ToSet(hqueue)
          /\ hbatch' = <<>> /\ hqueue' = <<>> /\ UNCHANGED <<deadline, service>>
      BY <2>8 DEF SenderGivesUp
    <3>2. hlost' \subseteq Record
          /\ hlost' \cup ToSet(service)
               = hlost \cup ToSet(hbatch) \cup ToSet(hqueue) \cup ToSet(service)
      BY <1>4, <3>1, UnsentIs, RecordsAre
    <3>3. hqueue' \in Seq(Reported) /\ hbatch' \in Seq(Record)
          /\ ToSet(hqueue') = {} /\ ToSet(hbatch') = {}
          /\ Distinct(hqueue') /\ ScalarsIn(hqueue') = {} /\ Len(hbatch') <= BatchSize
      BY <1>5, <3>1
    <3>4. kept' \subseteq ToSet(hqueue') \cup ToSet(hbatch') \cup ToSet(service') \cup hlost'
      BY <3>1, <3>2, <3>3 DEF MetricsInv, HttpSide
    <3> QED BY <3>1, <3>2, <3>3, <3>4 DEF MetricsInv, HttpSide
  <2> QED BY <2>1, <2>2, <2>3, <2>4, <2>5, <2>6, <2>7, <2>8 DEF Sender
<1> QED BY <1>1, <1>3, <1>6 DEF MetricsInv

\* Every step.
LEMMA MetricsInductive ==
  ASSUME MetricsInv, [MetricsNext]_metricsVars
  PROVE  MetricsInv'
<1>1. CASE Running \/ SetupFails \/ Log \/ Ends
           \/ Closing \/ JoinAtExit
  BY <1>1, TrainingKeeps
<1>2. CASE JsonlStep
  BY <1>2, WriterKeeps
<1>3. CASE SenderStep
  <2>1. /\ pc # "exited"
        /\ UNCHANGED <<pc, closed, late, kept, jqueue, jclosing, jpc, jbatch, jseen, file, jlost>>
        /\ \/ SendHeartbeat
           \/ (Sender \/ (seq < MaxSeq /\ GoesIdle)) /\ UNCHANGED seq
    BY <1>3 DEF SenderStep, trainer, jsonl
  <2> QED BY <2>1, HeartbeatKeeps, SenderKeeps
<1>4. CASE BudgetStep
  BY <1>4 DEF BudgetStep, BudgetRunsOut, trainer, jsonl,
              MetricsInv, TrainerSide, JsonlSide, HttpSide, Extra
<1>5. CASE UNCHANGED metricsVars
  BY <1>5 DEF metricsVars, trainer, jsonl, http,
              MetricsInv, TrainerSide, JsonlSide, HttpSide, Extra
<1> QED BY <1>1, <1>2, <1>3, <1>4, <1>5 DEF MetricsNext

\* The invariant of the live metrics holds always.
LEMMA MetricsAlways == MetricsSpec => []MetricsInv
<1>1. MetricsInit => MetricsInv
  BY MetricsInitial
<1>2. MetricsInv /\ [MetricsNext]_metricsVars => MetricsInv'
  BY MetricsInductive
<1> QED BY <1>1, <1>2, PTL DEF MetricsSpec

-----------------------------------------------------------------------------
(* Types, and what an exit loses.                                          *)

\* Every variable of the logger, the sinks and the service has its type, a
\* request carries one batch, and only run and event records make a queue
\* longer than its limit (_bounded_append), whatever the limits are.
THEOREM MetricsTyped == MetricsSpec => []MetricsTypeOK
<1>1. MetricsInv => MetricsTypeOK
  <2> SUFFICES ASSUME MetricsInv PROVE MetricsTypeOK
    OBVIOUS
  <2>1. MaxSeq \in Nat /\ Extra \in 0..2 /\ seq \in Nat /\ seq <= MaxSeq + Extra
    BY LimitsAssumption DEF MetricsInv, TrainerSide, Extra
  <2>2. seq \in 0..(MaxSeq + 2)
    BY <2>1
  <2>3. /\ jqueue \in Seq(Record) /\ jbatch \in Seq(Record)
        /\ file \in Seq(Record) /\ hqueue \in Seq(Record)
    BY RecordsAre, SeqMonotonic DEF MetricsInv, JsonlSide, HttpSide
  <2>4. hbatch \in Seq(Record) /\ service \in Seq(Record)
    BY DEF MetricsInv, HttpSide
  <2>5. \A q \in {jqueue, jbatch, file, hqueue, hbatch, service} : q \in Seq(Record)
    BY <2>3, <2>4
  <2>6. kept \subseteq Record /\ jlost \subseteq Record /\ hlost \subseteq Record
    BY RecordsAre DEF MetricsInv, TrainerSide, JsonlSide, HttpSide
  <2> QED BY <2>2, <2>5, <2>6 DEF MetricsInv, TrainerSide, JsonlSide, HttpSide, MetricsTypeOK
<1> QED BY <1>1, MetricsAlways, PTL

\* A process that exits after the threads of both sinks have ended has lost no
\* run or event record, but in a batch the disk or the service refused: both
\* threads end with nothing queued (close, _loop, _join_at_exit).
THEOREM ExitLosesNothing == MetricsSpec => []ExitKeepsRecords
<1>1. MetricsInv => ExitKeepsRecords
  <2> SUFFICES ASSUME MetricsInv, pc = "exited", ~late
               PROVE  /\ kept \subseteq ToSet(file) \cup jlost
                      /\ kept \subseteq ToSet(service) \cup hlost
    BY DEF ExitKeepsRecords
  <2>1. jqueue = <<>> /\ jbatch = <<>> /\ hqueue = <<>> /\ hbatch = <<>>
    BY DEF MetricsInv, JsonlSide, HttpSide
  <2>2. ToSet(<<>>) = {}
    BY EmptySeq, SetOf
  <2> QED BY <2>1, <2>2 DEF MetricsInv, JsonlSide, HttpSide
<1> QED BY <1>1, MetricsAlways, PTL

-----------------------------------------------------------------------------
(* Both sinks implement the channel.                                       *)

\* Removing from a queue behind a batch.
LEMMA RemoveFrom ==
  ASSUME NEW R, NEW a \in Seq(R), NEW q \in Seq(R), NEW i \in 1..Len(q)
  PROVE  /\ Len(a) + i \in 1..Len(a \o q) /\ (a \o q)[Len(a) + i] = q[i]
         /\ RemoveAt(a \o q, Len(a) + i) = a \o RemoveAt(q, i)
<1> DEFINE c == a \o q
           m == Len(a)
           n == Len(q)
           k == m + i
           d == RemoveAt(q, i)
           e == RemoveAt(c, k)
           f == a \o d
<1>1. /\ c \in Seq(R) /\ Len(c) = m + n /\ m \in Nat /\ n \in Nat /\ i \in 1..n
      /\ \A j \in 1..(m + n) : c[j] = IF j <= m THEN a[j] ELSE q[j - m]
  BY ConcatProperties, LenProperties
<1>2. d \in Seq(R) /\ Len(d) = n - 1 /\ \A j \in 1..(n - 1) : d[j] = IF j < i THEN q[j] ELSE q[j + 1]
  BY Removed
<1> HIDE DEF c, d, m, n, e, f
<1>3. k \in 1..Len(c) /\ c[k] = q[i]
  <2>1. k \in 1..(m + n) /\ ~(k <= m) /\ k - m = i
    BY <1>1
  <2> QED BY <1>1, <2>1
<1> HIDE DEF k
<1>4. /\ e \in Seq(R) /\ Len(e) = m + n - 1
      /\ \A j \in 1..(m + n - 1) : e[j] = IF j < k THEN c[j] ELSE c[j + 1]
  <2>1. /\ RemoveAt(c, k) \in Seq(R) /\ Len(RemoveAt(c, k)) = Len(c) - 1
        /\ \A j \in 1..(Len(c) - 1) : RemoveAt(c, k)[j] = IF j < k THEN c[j] ELSE c[j + 1]
    BY <1>1, <1>3, Removed
  <2> QED BY <1>1, <2>1 DEF e
<1>5. /\ f \in Seq(R) /\ Len(f) = m + n - 1
      /\ \A j \in 1..(m + n - 1) : f[j] = IF j <= m THEN a[j] ELSE d[j - m]
  <2>1. /\ a \o d \in Seq(R) /\ Len(a \o d) = Len(a) + Len(d)
        /\ \A j \in 1..(Len(a) + Len(d)) : (a \o d)[j] = IF j <= Len(a) THEN a[j] ELSE d[j - Len(a)]
    BY <1>2, ConcatProperties
  <2>2. Len(a) + Len(d) = m + n - 1 /\ Len(a) = m
    BY <1>1, <1>2 DEF m
  <2> QED BY <2>1, <2>2 DEF f
<1>6. ASSUME NEW j \in 1..(m + n - 1) PROVE e[j] = f[j]
  <2>0. k = m + i /\ j \in 1..(m + n) /\ j + 1 \in 1..(m + n) /\ j \in Nat
    BY <1>1 DEF k
  <2>1. CASE j <= m
    <3>1. j < k
      BY <1>1, <2>0, <2>1
    <3> QED BY <1>1, <1>4, <1>5, <2>0, <2>1, <3>1
  <2>2. CASE ~(j <= m) /\ j < k
    <3>1. j - m \in 1..(n - 1) /\ j - m < i
      BY <1>1, <2>0, <2>2
    <3>2. f[j] = q[j - m] /\ e[j] = c[j] /\ c[j] = q[j - m]
      BY <1>1, <1>2, <1>4, <1>5, <2>0, <2>2, <3>1
    <3> QED BY <3>2
  <2>3. CASE ~(j <= m) /\ ~(j < k)
    <3>1. j - m \in 1..(n - 1) /\ ~(j - m < i) /\ j - m + 1 = j + 1 - m /\ ~(j + 1 <= m)
      BY <1>1, <2>0, <2>3
    <3>2. f[j] = d[j - m] /\ d[j - m] = q[j - m + 1]
      BY <1>2, <1>5, <2>3, <3>1
    <3>3. e[j] = c[j + 1]
      BY <1>4, <2>3
    <3>4. c[j + 1] = q[j + 1 - m]
      BY ONLY <1>1, <2>0, <3>1
    <3> QED BY <3>1, <3>2, <3>3, <3>4
  <2> QED BY <2>1, <2>2, <2>3
<1>7. e = f
  BY <1>4, <1>5, <1>6, SeqEqual
<1> QED BY <1>3, <1>7 DEF c, d, e, f, k, m

\* An append to a queue behind a batch is a step of the channel, or none.
LEMMA AppendIs ==
  ASSUME NEW R, NEW a \in Seq(R), NEW q \in Seq(R), NEW r \in R, NEW limit \in Nat
  PROVE  \/ a \o BoundedAppend(q, r, limit) = Append(a \o q, r)
         \/ /\ Len(a \o q) >= limit
            /\ \E i \in 1..Len(a \o q) :
                 /\ (a \o q)[i].kind = "scalars"
                 /\ a \o BoundedAppend(q, r, limit) = Append(RemoveAt(a \o q, i), r)
         \/ a \o BoundedAppend(q, r, limit) = a \o q
<1> DEFINE b == BoundedAppend(q, r, limit)
<1>1. ASSUME NEW s \in Seq(R) PROVE a \o Append(s, r) = Append(a \o s, r)
  <2>1. SameAppend(a, s, r)
    BY <1>1, AppendBehind
  <2> QED BY <2>1 DEF SameAppend
<1>2. Len(a \o q) = Len(a) + Len(q) /\ Len(a) \in Nat /\ Len(q) \in Nat
  BY ConcatProperties, LenProperties
<1>3. CASE b = Append(q, r)
  BY <1>1, <1>3
<1>4. CASE Len(q) >= limit /\ \E i \in 1..Len(q) : q[i].kind = "scalars" /\ b = Append(RemoveAt(q, i), r)
  <2>1. PICK i \in 1..Len(q) : q[i].kind = "scalars" /\ b = Append(RemoveAt(q, i), r)
    BY <1>4
  <2>2. RemoveAt(q, i) \in Seq(R)
    BY Removed
  <2>3. a \o Append(RemoveAt(q, i), r) = Append(a \o RemoveAt(q, i), r)
    BY <1>1, <2>2
  <2>4. /\ Len(a) + i \in 1..Len(a \o q) /\ (a \o q)[Len(a) + i] = q[i]
        /\ RemoveAt(a \o q, Len(a) + i) = a \o RemoveAt(q, i)
    BY RemoveFrom
  <2>5. Len(a \o q) >= limit
    BY <1>2, <1>4
  <2> HIDE DEF b
  <2> DEFINE c == a \o q
             k == Len(a) + i
  <2>6. k \in 1..Len(c) /\ c[k].kind = "scalars" /\ a \o b = Append(RemoveAt(c, k), r)
    BY <2>1, <2>3, <2>4
  <2> HIDE DEF k
  <2>7. \E j \in 1..Len(c) : c[j].kind = "scalars" /\ a \o b = Append(RemoveAt(c, j), r)
    BY <2>6
  <2> QED BY <2>5, <2>7 DEF b
<1>5. CASE b = q
  BY <1>5
<1>6. Appended(q, r, limit, b)
  BY BoundedAppendIs
<1> QED BY <1>3, <1>4, <1>5, <1>6 DEF Appended

\* What leaves the channel: the first part of what is pending.
LEMMA PartsOf ==
  ASSUME NEW R, NEW a \in Seq(R), NEW b \in Seq(R)
  PROVE  /\ First(a \o b, Len(a)) = a /\ Rest(a \o b, Len(a)) = b
         /\ {(a \o b)[i] : i \in 1..Len(a)} = ToSet(a)
         /\ a # <<>> => Len(a) \in 1..Len(a \o b)
<1> DEFINE c == a \o b
           m == Len(a)
           l == Len(b)
<1>1. /\ c \in Seq(R) /\ Len(c) = m + l /\ m \in Nat /\ l \in Nat
      /\ \A j \in 1..(m + l) : c[j] = IF j <= m THEN a[j] ELSE b[j - m]
  BY ConcatProperties, LenProperties
<1> HIDE DEF c, m, l
<1>2. \A j \in 1..m : j \in 1..(m + l) /\ c[j] = a[j] /\ c[j] \in R
  <2>1. \A j \in 1..m : j \in 1..(m + l) /\ c[j] = a[j]
    BY <1>1
  <2> QED BY <2>1, LenProperties DEF m
<1>3. \A j \in 1..l : m + j \in 1..(m + l) /\ c[m + j] = b[j] /\ c[m + j] \in R
  <2>1. \A j \in 1..l : m + j \in 1..(m + l) /\ c[m + j] = b[j]
    <3> SUFFICES ASSUME NEW j \in 1..l PROVE m + j \in 1..(m + l) /\ c[m + j] = b[j]
      OBVIOUS
    <3>1. m + j \in 1..(m + l) /\ ~(m + j <= m) /\ m + j - m = j
      BY <1>1
    <3> QED BY <1>1, <3>1
  <2> QED BY <2>1, LenProperties DEF l
<1>4. SubSeq(c, 1, m) = a
  <2> DEFINE d == SubSeq(c, 1, m)
  <2>1. /\ d \in Seq(R) /\ Len(d) = (IF 1 <= m THEN m - 1 + 1 ELSE 0)
        /\ \A j \in 1..(m - 1 + 1) : d[j] = c[1 + j - 1]
    <3>1. m \in Int /\ 1 \in Int
      BY <1>1
    <3> QED BY <1>2, <3>1, SubSeqProperties
  <2> HIDE DEF d
  <2>2. Len(d) = Len(a)
    BY <1>1, <2>1 DEF m
  <2>3. \A j \in 1..m : d[j] = a[j]
    BY <1>1, <1>2, <2>1
  <2>4. d = a
    BY <2>1, <2>2, <2>3, SeqEqual DEF m
  <2> QED BY <2>4 DEF d
<1>5. SubSeq(c, m + 1, m + l) = b
  <2> DEFINE lo == m + 1
             hi == m + l
             d == SubSeq(c, lo, hi)
  <2>0. lo \in Int /\ hi \in Int /\ (\A j \in lo..hi : c[j] \in R) /\ lo <= hi + 1 /\ hi - lo + 1 = l
    BY <1>1, LenProperties
  <2>1. \A j \in 1..l : c[lo + j - 1] = b[j]
    <3>1. \A j \in 1..l : lo + j - 1 = m + j
      BY <1>1
    <3> QED BY <1>3, <3>1
  <2> HIDE DEF lo, hi, d
  <2>2. /\ d \in Seq(R) /\ Len(d) = (IF lo <= hi THEN hi - lo + 1 ELSE 0)
        /\ \A j \in 1..(hi - lo + 1) : d[j] = c[lo + j - 1]
    BY ONLY <2>0, SubSeqProperties DEF d
  <2>3. Len(d) = l /\ \A j \in 1..l : d[j] = b[j]
    BY <1>1, <2>0, <2>1, <2>2
  <2>4. Len(d) = Len(b)
    BY <2>3 DEF l
  <2>5. d = b
    BY <2>2, <2>3, <2>4, SeqEqual DEF l
  <2> QED BY <2>5 DEF d, lo, hi
<1>6. {c[i] : i \in 1..m} = ToSet(a)
  <2>1. ToSet(a) = {a[i] : i \in 1..m}
    BY SetOf DEF m
  <2> QED BY <1>2, <2>1
<1>7. a # <<>> => m \in 1..(m + l)
  <2>1. a # <<>> => m # 0
    BY EmptySeq DEF m
  <2> QED BY <1>1, <2>1
<1>8. First(c, m) = a /\ Rest(c, m) = b
  BY <1>1, <1>4, <1>5 DEF First, Rest
<1> QED BY <1>1, <1>6, <1>7, <1>8 DEF c, m

\* Leaving out twice.
LEMMA WithoutTwice ==
  ASSUME NEW R, NEW s \in Seq(R), NEW S, NEW T
  PROVE  Without(Without(s, S), T) = Without(s, S \cup T)
<1>1. PICK p : Passing(s, S, p) /\ Without(s, S) = p[Len(s)]
  BY WithoutPasses
<1>2. PICK u : Passing(s, S \cup T, u) /\ Without(s, S \cup T) = u[Len(s)]
  BY WithoutPasses
<1>3. Len(s) \in Nat /\ \A i \in 1..Len(s) : s[i] \in R
  BY LenProperties
<1> DEFINE N == {n \in Nat : n <= Len(s) => p[n] \in Seq(R) /\ Without(p[n], T) = u[n]}
<1>4. 0 \in N
  <2>1. <<>> \in Seq(R) /\ ToSet(<<>>) \subseteq T
    BY EmptySeq, SetOf
  <2>2. Without(<<>>, T) = <<>>
    BY <2>1, WithoutAny
  <2> QED BY <1>1, <1>2, <2>1, <2>2 DEF Passing
<1>5. ASSUME NEW n \in Nat, n \in N PROVE n + 1 \in N
  <2> SUFFICES ASSUME n + 1 <= Len(s)
               PROVE  p[n + 1] \in Seq(R) /\ Without(p[n + 1], T) = u[n + 1]
    OBVIOUS
  <2>1. n + 1 \in 1..Len(s) /\ n + 1 - 1 = n /\ n <= Len(s)
    BY <1>3
  <2> DEFINE r == s[n + 1]
             q == p[n]
  <2>2. p[n + 1] = IF r \in S THEN q ELSE Append(q, r)
    BY <1>1, <2>1 DEF Passing
  <2>3. u[n + 1] = IF r \in S \cup T THEN u[n] ELSE Append(u[n], r)
    BY <1>2, <2>1 DEF Passing
  <2>4. r \in R /\ q \in Seq(R) /\ Without(q, T) = u[n]
    BY <1>3, <1>5, <2>1
  <2> HIDE DEF r, q
  <2>5. Append(q, r) \in Seq(R) /\ <<r>> \in Seq(R) /\ Append(q, r) = q \o <<r>>
    BY <2>4, SetOfOne, AppendProperties, AppendIsConcat
  <2>6. Without(q \o <<r>>, T) = u[n] \o Without(<<r>>, T)
    <3> DEFINE t == <<r>>
    <3>1. q \in Seq(R) /\ t \in Seq(R)
      BY <2>4, <2>5
    <3> HIDE DEF t
    <3>2. Without(q \o t, T) = Without(q, T) \o Without(t, T)
      BY ONLY <3>1, WithoutConcat
    <3> QED BY <2>4, <3>2 DEF t
  <2>7. u[n] \in Seq(R)
    <3>1. Without(q, T) \in Seq(R)
      BY <2>4, WithoutHas
    <3> QED BY <2>4, <3>1
  <2>8. ToSet(<<r>>) = {r}
    BY <2>4, SetOfOne
  <2>9. CASE r \in S
    BY <2>2, <2>3, <2>4, <2>9
  <2>10. CASE r \notin S /\ r \in T
    <3>1. Without(<<r>>, T) = <<>>
      BY <2>5, <2>8, <2>10, WithoutAny
    <3>2. u[n] \o <<>> = u[n]
      BY <2>7, ConcatEmptySeq
    <3> QED BY <2>2, <2>3, <2>5, <2>6, <2>10, <3>1, <3>2
  <2>11. CASE r \notin S /\ r \notin T
    <3>1. Without(<<r>>, T) = <<r>>
      BY <2>5, <2>8, <2>11, WithoutNone
    <3>2. u[n] \o <<r>> = Append(u[n], r)
      BY <2>4, <2>7, AppendIsConcat
    <3> QED BY <2>2, <2>3, <2>5, <2>6, <2>11, <3>1, <3>2
  <2> QED BY <2>9, <2>10, <2>11
<1>6. Len(s) \in N
  <2> HIDE DEF N
  <2> QED BY <1>3, <1>4, <1>5, SetInduction
<1> QED BY <1>1, <1>2, <1>3, <1>6

\* What a step does to the queues: an emission fills both, each thread moves
\* its own, and the rest leaves them alone.
LEMMA TrainerStepIs ==
  ASSUME MetricsInv, [MetricsNext]_metricsVars
  PROVE  \/ /\ ~jclosing
            /\ \E r \in Reported :
                 /\ jqueue' = BoundedAppend(jqueue, r, JsonlQueue)
                 /\ hqueue' = BoundedAppend(hqueue, r, HttpQueue)
            /\ UNCHANGED <<jclosing, jpc, jbatch, jseen, file, jlost, deadline, hpc, hbatch, service, hlost>>
         \/ JsonlThread /\ UNCHANGED <<hqueue, hbatch, service, hlost>>
         \/ (SendHeartbeat \/ Sender) /\ UNCHANGED <<jqueue, jbatch, file, jlost>>
         \/ UNCHANGED <<jqueue, jbatch, file, jlost, hqueue, hbatch, service, hlost>>
<1> USE LimitsAssumption
<1>1. ASSUME NEW kind \in {"run", "scalars", "event"}, Emit(kind), seq + 1 <= MaxSeq + 2, ~jclosing
      PROVE  /\ \E r \in Reported :
                 /\ jqueue' = BoundedAppend(jqueue, r, JsonlQueue)
                 /\ hqueue' = BoundedAppend(hqueue, r, HttpQueue)
             /\ UNCHANGED <<jclosing, jpc, jbatch, jseen, file, jlost, deadline, hpc, hbatch, service, hlost>>
  <2> DEFINE r == [seq |-> seq + 1, kind |-> kind]
  <2>1. /\ jqueue' = (IF jclosing THEN jqueue ELSE BoundedAppend(jqueue, r, JsonlQueue))
        /\ hqueue' = BoundedAppend(hqueue, r, HttpQueue)
        /\ UNCHANGED <<jclosing, jpc, jbatch, jseen, file, jlost>>
        /\ UNCHANGED <<deadline, hpc, hbatch, service, hlost>>
    BY <1>1 DEF Emit, JsonlWrite, HttpPut
  <2>2. seq + 1 \in 1..(MaxSeq + 2)
    BY <1>1 DEF MetricsInv, TrainerSide
  <2>3. r \in Reported
    BY <2>2 DEF Reported, Heartbeats, Record, Kinds
  <2> HIDE DEF r
  <2> QED BY <1>1, <2>1, <2>3
<1>2. pc \in {"created", "training"} => ~jclosing
  BY DEF MetricsInv, JsonlSide
<1>3. seq \in Nat /\ seq <= MaxSeq + Extra
  BY DEF MetricsInv, TrainerSide
<1>4. CASE Running
  <2>1. pc = "created" /\ Emit("run")
    BY <1>4 DEF Running
  <2>2. seq + 1 <= MaxSeq + 2
    BY <1>3, <2>1 DEF Extra
  <2> QED BY <1>1, <1>2, <2>1, <2>2
<1>5. CASE Log
  <2>1. PICK kind \in {"scalars", "event"} : pc = "training" /\ seq < MaxSeq /\ Emit(kind)
    BY <1>5 DEF Log
  <2>2. seq + 1 <= MaxSeq + 2
    BY <1>3, <2>1
  <2> QED BY <1>1, <1>2, <2>1, <2>2
<1>6. CASE Ends
  <2>1. pc = "training" /\ Emit("run")
    BY <1>6 DEF Ends
  <2>2. seq + 1 <= MaxSeq + 2
    BY <1>3, <2>1 DEF Extra
  <2> QED BY <1>1, <1>2, <2>1, <2>2
<1>7. CASE \/ SetupFails \/ CloseLogger \/ CloseJsonl \/ CloseHttp
           \/ JoinAtExit \/ BudgetStep \/ UNCHANGED metricsVars
  BY <1>7 DEF SetupFails, CloseLogger, CloseJsonl, CloseHttp,
              JoinAtExit, JsonlClose, HttpClose, jsonl, http,
              BudgetStep, BudgetRunsOut, metricsVars
<1>8. CASE JsonlStep
  BY <1>8 DEF JsonlStep, http
<1>9. CASE SenderStep
  BY <1>9 DEF SenderStep, jsonl, GoesIdle
<1> QED BY <1>4, <1>5, <1>6, <1>7, <1>8, <1>9 DEF MetricsNext, Closing

\* The file keeps the channel's promise.
LEMMA FileStep ==
  ASSUME MetricsInv, [MetricsNext]_metricsVars
  PROVE  [File!Next]_File!vars
<1>1. /\ jqueue \in Seq(Reported) /\ jbatch \in Seq(Reported)
      /\ JsonlQueue \in Nat
  BY LimitsAssumption DEF MetricsInv, JsonlSide
<1>2. \A q \in Seq(Reported) : <<>> \o q = q /\ q \o <<>> = q
  BY ConcatEmptySeq
<1> DEFINE pend == jbatch \o jqueue
<1>3. CASE /\ UNCHANGED <<jbatch, file, jlost>>
           /\ \E r \in Reported : jqueue' = BoundedAppend(jqueue, r, JsonlQueue)
  <2>1. PICK r \in Reported : jqueue' = BoundedAppend(jqueue, r, JsonlQueue)
    BY <1>3
  <2>2. \/ pend' = Append(pend, r)
        \/ /\ Len(pend) >= JsonlQueue
           /\ \E i \in 1..Len(pend) :
                pend[i].kind = "scalars" /\ pend' = Append(RemoveAt(pend, i), r)
        \/ pend' = pend
    <3> DEFINE b == BoundedAppend(jqueue, r, JsonlQueue)
    <3>1. \/ jbatch \o b = Append(jbatch \o jqueue, r)
          \/ /\ Len(jbatch \o jqueue) >= JsonlQueue
             /\ \E i \in 1..Len(jbatch \o jqueue) :
                  /\ (jbatch \o jqueue)[i].kind = "scalars"
                  /\ jbatch \o b = Append(RemoveAt(jbatch \o jqueue, i), r)
          \/ jbatch \o b = jbatch \o jqueue
      BY <1>1, AppendIs
    <3> HIDE DEF b
    <3>2. pend' = jbatch \o b
      BY <1>3, <2>1 DEF b
    <3> QED BY <3>1, <3>2
  <2>3. CASE pend' = Append(pend, r)
    <3>1. File!Give(r)
      BY <1>3, <2>3 DEF File!Give
    <3> QED BY <3>1 DEF File!Next
  <2>4. CASE /\ Len(pend) >= JsonlQueue
             /\ \E i \in 1..Len(pend) :
                  pend[i].kind = "scalars" /\ pend' = Append(RemoveAt(pend, i), r)
    <3>1. File!GiveFull(r)
      BY <1>3, <2>4 DEF File!GiveFull, File!RemoveAt, RemoveAt
    <3> QED BY <3>1 DEF File!Next
  <2>5. CASE pend' = pend
    BY <1>3, <2>5 DEF File!vars
  <2> QED BY <2>2, <2>3, <2>4, <2>5
<1>4. CASE TakeQueue
  <2>1. jbatch = <<>> /\ jbatch' = jqueue /\ jqueue' = <<>> /\ UNCHANGED <<file, jlost>>
    BY <1>4 DEF TakeQueue, MetricsInv, JsonlSide
  <2>2. pend' = pend
    BY <1>1, <1>2, <2>1
  <2> QED BY <2>1, <2>2 DEF File!vars
<1>5. CASE WriteBatch \/ WriteFails
  <2> DEFINE n == Len(jbatch)
  <2>1. jbatch' = <<>> /\ UNCHANGED jqueue
        /\ \/ file' = file \o jbatch /\ UNCHANGED jlost
           \/ jlost' = jlost \cup ToSet(jbatch) /\ UNCHANGED file
    BY <1>5 DEF WriteBatch, WriteFails
  <2>2. pend' = jqueue
    BY <1>1, <1>2, <2>1
  <2>3. CASE jbatch = <<>>
    <3>1. file \in Seq(Reported) /\ ToSet(<<>>) = {}
      BY EmptySeq, SetOf DEF MetricsInv, JsonlSide
    <3>2. file' = file /\ jlost' = jlost
      BY <1>2, <2>1, <2>3, <3>1
    <3>3. pend' = pend
      BY <1>1, <1>2, <2>2, <2>3
    <3> QED BY <3>2, <3>3 DEF File!vars
  <2>4. CASE jbatch # <<>>
    <3>1. /\ First(pend, n) = jbatch /\ Rest(pend, n) = jqueue
          /\ {pend[i] : i \in 1..n} = ToSet(jbatch) /\ n \in 1..Len(pend)
      BY <1>1, <2>4, PartsOf
    <3> HIDE DEF pend, n
    <3>2. File!Deliver(n) \/ File!GiveUp(n)
      <4>1. pend' = Rest(pend, n)
        BY <2>2, <3>1
      <4>2. File!Leave(n)
        BY <4>1 DEF File!Leave, Rest, pend
      <4>3. \/ file' = file \o First(pend, n) /\ UNCHANGED jlost
            \/ jlost' = jlost \cup {pend[i] : i \in 1..n} /\ UNCHANGED file
        BY <2>1, <3>1
      <4> QED BY <4>2, <4>3 DEF File!Deliver, File!GiveUp, First, pend
    <3>3. n \in 1..Len(jbatch \o jqueue)
      BY <3>1 DEF pend
    <3> QED BY <3>2, <3>3 DEF File!Next
  <2> QED BY <2>3, <2>4
<1>6. CASE UNCHANGED <<jqueue, jbatch, file, jlost>>
  BY <1>6 DEF File!vars
<1>7. CASE JsonlThread
  <2>1. CASE EndOrWait
    BY <1>6, <2>1 DEF EndOrWait
  <2> QED BY <1>4, <1>5, <1>7, <2>1 DEF JsonlThread
<1> QED BY <1>3, <1>6, <1>7, TrainerStepIs

\* What the service still has to get of the batch, heartbeats apart, and what
\* it has.
Wanted == Without(hbatch, ToSet(service) \cup Heartbeats)
Had    == Without(service, Heartbeats)

\* Delivering a batch delivers what is wanted of it.
LEMMA WantedIs ==
  ASSUME MetricsInv
  PROVE  /\ Wanted \in Seq(Record) /\ Had \in Seq(Record)
         /\ ToSet(Wanted) = (ToSet(hbatch) \ ToSet(service)) \ Heartbeats
         /\ Without(service \o Unsent, Heartbeats) = Had \o Wanted
<1>1. hbatch \in Seq(Record) /\ service \in Seq(Record)
  BY DEF MetricsInv, HttpSide
<1>2. /\ Wanted \in Seq(Record)
      /\ ToSet(Wanted) = ToSet(hbatch) \ (ToSet(service) \cup Heartbeats)
  BY <1>1, WithoutHas DEF Wanted
<1>3. Had \in Seq(Record)
  BY <1>1, WithoutHas DEF Had
<1>4. Unsent \in Seq(Record)
  BY UnsentIs
<1>5. Without(service \o Unsent, Heartbeats)
        = Without(service, Heartbeats) \o Without(Unsent, Heartbeats)
  BY ONLY <1>1, <1>4, WithoutConcat
<1>6. Without(Unsent, Heartbeats) = Wanted
  BY <1>1, WithoutTwice DEF Wanted, Unsent
<1> QED BY <1>2, <1>3, <1>5, <1>6 DEF Had

\* The service's channel.
LEMMA ServiceStep ==
  ASSUME MetricsInv, [MetricsNext]_metricsVars
  PROVE  [Service!Next]_Service!vars
<1>1. /\ hqueue \in Seq(Reported) /\ hqueue \in Seq(Record)
      /\ hbatch \in Seq(Record) /\ service \in Seq(Record)
      /\ Wanted \in Seq(Record) /\ HttpQueue \in Nat
  BY WantedIs, RecordsAre, SeqMonotonic, LimitsAssumption DEF MetricsInv, HttpSide
<1>2. \A q \in Seq(Record) : <<>> \o q = q /\ q \o <<>> = q
  BY ConcatEmptySeq
<1>3. \A S : Without(<<>>, S) = <<>>
  <2> SUFFICES ASSUME NEW S PROVE Without(<<>>, S) = <<>>
    OBVIOUS
  <2>1. <<>> \in Seq({}) /\ ToSet(<<>>) \subseteq S
    BY EmptySeq, SetOf
  <2> QED BY <2>1, WithoutAny
<1>4. ToSet(hqueue) \cap Heartbeats = {}
  BY <1>1, SetOf, RecordsAre DEF Heartbeats
<1> DEFINE pend == Wanted \o hqueue
           gone == hlost \ Heartbeats
<1>5. ASSUME pend' = pend, Had' = Had, gone' = gone PROVE [Service!Next]_Service!vars
  BY <1>5 DEF Service!vars, Wanted, Had
<1>6. CASE /\ UNCHANGED <<hbatch, service, hlost>>
           /\ \E r \in Reported : hqueue' = BoundedAppend(hqueue, r, HttpQueue)
  <2>1. PICK r \in Reported : hqueue' = BoundedAppend(hqueue, r, HttpQueue)
    BY <1>6
  <2>2. Wanted' = Wanted /\ Had' = Had /\ gone' = gone
    BY <1>6 DEF Wanted, Had
  <2>3. \/ pend' = Append(pend, r)
        \/ /\ Len(pend) >= HttpQueue
           /\ \E i \in 1..Len(pend) :
                pend[i].kind = "scalars" /\ pend' = Append(RemoveAt(pend, i), r)
        \/ pend' = pend
    <3> DEFINE b == BoundedAppend(hqueue, r, HttpQueue)
    <3>1. \/ Wanted \o b = Append(Wanted \o hqueue, r)
          \/ /\ Len(Wanted \o hqueue) >= HttpQueue
             /\ \E i \in 1..Len(Wanted \o hqueue) :
                  /\ (Wanted \o hqueue)[i].kind = "scalars"
                  /\ Wanted \o b = Append(RemoveAt(Wanted \o hqueue, i), r)
          \/ Wanted \o b = Wanted \o hqueue
      <4>1. /\ r \in Record /\ Wanted \in Seq(Record)
            /\ hqueue \in Seq(Record) /\ HttpQueue \in Nat
        BY <1>1, RecordsAre
      <4> QED BY ONLY <4>1, AppendIs
    <3> HIDE DEF b
    <3>2. pend' = Wanted \o b
      BY <2>1, <2>2 DEF b
    <3> QED BY <3>1, <3>2
  <2>4. CASE pend' = Append(pend, r)
    <3>1. Service!Give(r)
      BY <2>2, <2>4 DEF Service!Give, Wanted, Had
    <3> QED BY <3>1 DEF Service!Next
  <2>5. CASE /\ Len(pend) >= HttpQueue
             /\ \E i \in 1..Len(pend) :
                  pend[i].kind = "scalars" /\ pend' = Append(RemoveAt(pend, i), r)
    <3>1. Service!GiveFull(r)
      BY <2>2, <2>5 DEF Service!GiveFull, Service!RemoveAt, RemoveAt, Wanted, Had
    <3> QED BY <3>1 DEF Service!Next
  <2> QED BY <1>5, <2>2, <2>3, <2>4, <2>5
<1>7. CASE UNCHANGED <<hqueue, hbatch, service, hlost>>
  BY <1>5, <1>7 DEF Wanted, Had
<1>8. CASE SendHeartbeat
  <2>1. /\ hpc = "beat" /\ hbatch' = <<[seq |-> seq + 1, kind |-> "heartbeat"]>>
        /\ UNCHANGED <<hqueue, service, hlost>>
    BY <1>8 DEF SendHeartbeat, Heartbeat
  <2>2. hbatch = <<>>
    BY <2>1 DEF MetricsInv, HttpSide
  <2>3. Wanted = <<>> /\ Had' = Had /\ gone' = gone
    BY <1>3, <2>1, <2>2 DEF Wanted, Had
  <2>4. Wanted' = <<>>
    <3> DEFINE r == [seq |-> seq + 1, kind |-> "heartbeat"]
               S == ToSet(service') \cup Heartbeats
    <3>1. r \in Heartbeats
      <4>1. seq \in Nat /\ seq + 1 \in 1..(MaxSeq + 2)
        BY <2>1, LimitsAssumption DEF MetricsInv, TrainerSide, Extra
      <4> QED BY <4>1 DEF Heartbeats, Record, Kinds
    <3> HIDE DEF r
    <3>2. <<r>> \in Seq(Heartbeats) /\ ToSet(<<r>>) \subseteq S
      BY <3>1, SetOfOne
    <3> DEFINE t == <<r>>
    <3> HIDE DEF S, t
    <3>3. t \in Seq(Heartbeats) /\ ToSet(t) \subseteq S
      BY <3>2 DEF t
    <3>4. Without(t, S) = <<>>
      BY ONLY <3>3, WithoutAny
    <3> QED BY <2>1, <3>4 DEF Wanted, S, t, r
  <2> QED BY <1>5, <2>1, <2>3, <2>4
<1>9. CASE TakeBatch
  <2> DEFINE n == Min({BatchSize, Len(hqueue)})
  <2>1. /\ hpc = "wait" /\ hqueue # <<>>
        /\ hbatch' = SubSeq(hqueue, 1, n) /\ hqueue' = SubSeq(hqueue, n + 1, Len(hqueue))
        /\ UNCHANGED <<service, hlost>>
    BY <1>9 DEF TakeBatch
  <2>2. n \in 1..Len(hqueue) /\ Len(hqueue) \in Nat
    BY <1>1, <2>1, BatchIs, LenProperties
  <2> HIDE DEF n
  <2>3. n \in Nat /\ n <= Len(hqueue) /\ hqueue \in Seq(Record) /\ Distinct(hqueue)
    BY <1>1, <2>2 DEF MetricsInv, HttpSide
  <2> DEFINE a == First(hqueue, n)
             b == Rest(hqueue, n)
  <2>4. a \in Seq(Record) /\ a \o b = hqueue
    BY ONLY <2>3, Cut
  <2>5. ToSet(hqueue) = ToSet(a) \cup ToSet(b)
    BY ONLY <2>3, Cut
  <2>6. hbatch' = a /\ hqueue' = b
    BY <2>1 DEF First, Rest
  <2> HIDE DEF a, b
  <2>7. Wanted = <<>> /\ Had' = Had /\ gone' = gone
    <3>1. hbatch = <<>>
      BY <2>1 DEF MetricsInv, HttpSide
    <3> QED BY <1>3, <2>1, <3>1 DEF Wanted, Had
  <2>8. Wanted' = a
    <3> DEFINE S == ToSet(service) \cup Heartbeats
    <3>1. ToSet(a) \cap S = {}
      BY <1>4, <2>5 DEF MetricsInv, HttpSide
    <3>2. Without(a, S) = a
      BY <2>4, <3>1, WithoutNone
    <3> QED BY <2>1, <2>6, <3>2 DEF Wanted
  <2>9. pend' = pend
    BY <1>1, <1>2, <2>4, <2>6, <2>7, <2>8
  <2> QED BY <1>5, <2>7, <2>9
<1>10. CASE Delivered \/ Rejected \/ (PostFails /\ service' # service)
  <2> DEFINE n == Len(Wanted)
  <2>1. /\ UNCHANGED hqueue
        /\ \/ hbatch' = <<>> \/ (hbatch' = hbatch /\ service' = service \o Unsent)
        /\ \/ service' = service \o Unsent /\ UNCHANGED hlost
           \/ hlost' = hlost \cup ToSet(Unsent) /\ UNCHANGED service
    BY <1>10 DEF Delivered, Rejected, PostFails
  <2>2. Wanted' = <<>>
    <3>1. CASE hbatch' = <<>>
      BY <1>3, <3>1 DEF Wanted
    <3>2. CASE hbatch' = hbatch /\ service' = service \o Unsent
      <4> DEFINE S == ToSet(service') \cup Heartbeats
      <4>1. ToSet(hbatch) \subseteq S
        BY <3>2, UnsentIs
      <4>2. Without(hbatch, S) = <<>>
        BY <1>1, <4>1, WithoutAny
      <4> QED BY <3>2, <4>2 DEF Wanted
    <3> QED BY <2>1, <3>1, <3>2
  <2>3. pend' = hqueue
    BY <1>1, <1>2, <2>1, <2>2
  <2>4. \/ Had' = Had \o Wanted /\ gone' = gone
        \/ Had' = Had /\ gone' = gone \cup ToSet(Wanted)
    <3>1. CASE service' = service \o Unsent /\ UNCHANGED hlost
      BY <3>1, WantedIs DEF Had
    <3>2. CASE hlost' = hlost \cup ToSet(Unsent) /\ UNCHANGED service
      <4>1. gone' = gone \cup ToSet(Wanted)
        BY <3>2, WantedIs, UnsentIs
      <4> QED BY <3>2, <4>1 DEF Had
    <3> QED BY <2>1, <3>1, <3>2
  <2>5. CASE Wanted = <<>>
    <3>1. ToSet(<<>>) = {} /\ Had \in Seq(Record)
      BY EmptySeq, SetOf, WantedIs
    <3>2. Had' = Had /\ gone' = gone
      BY <1>2, <2>4, <2>5, <3>1
    <3>3. pend' = pend
      BY <1>1, <1>2, <2>3, <2>5
    <3> QED BY <1>5, <3>2, <3>3
  <2>6. CASE Wanted # <<>>
    <3>1. /\ First(pend, n) = Wanted /\ Rest(pend, n) = hqueue
          /\ {pend[i] : i \in 1..n} = ToSet(Wanted) /\ n \in 1..Len(pend)
      BY <1>1, <2>6, PartsOf
    <3> HIDE DEF pend, n
    <3>2. Service!Deliver(n) \/ Service!GiveUp(n)
      <4>1. pend' = Rest(pend, n)
        BY <2>3, <3>1
      <4>2. Service!Leave(n)
        BY <4>1 DEF Service!Leave, Rest, pend, Wanted
      <4>3. \/ Had' = Had \o First(pend, n) /\ gone' = gone
            \/ Had' = Had /\ gone' = gone \cup {pend[i] : i \in 1..n}
        BY <2>4, <3>1
      <4> QED BY <4>2, <4>3 DEF Service!Deliver, Service!GiveUp, First, pend, Wanted, Had
    <3>3. n \in 1..Len(Wanted \o hqueue)
      BY <3>1 DEF pend
    <3> QED BY <3>2, <3>3 DEF Service!Next, Wanted
  <2> QED BY <2>5, <2>6
<1>11. CASE SenderGivesUp
  <2> DEFINE n == Len(pend)
  <2>1. /\ hlost' = hlost \cup ToSet(Unsent) \cup ToSet(hqueue)
        /\ hbatch' = <<>> /\ hqueue' = <<>> /\ UNCHANGED service
    BY <1>11 DEF SenderGivesUp
  <2>2. Had' = Had /\ Wanted' = <<>> /\ pend' = <<>>
    <3>1. Had' = Had /\ Wanted' = <<>>
      BY <1>3, <2>1 DEF Had, Wanted
    <3>2. <<>> \in Seq(Record)
      BY EmptySeq
    <3>3. pend' = <<>>
      BY <1>2, <2>1, <3>1, <3>2
    <3> QED BY <3>1, <3>3
  <2>3. pend \in Seq(Record) /\ ToSet(pend) = ToSet(Wanted) \cup ToSet(hqueue)
    BY <1>1, SetOfConcat, ConcatProperties
  <2>4. gone' = gone \cup ToSet(pend)
    BY <1>4, <2>1, <2>3, WantedIs, UnsentIs
  <2>5. CASE pend = <<>>
    <3>1. ToSet(<<>>) = {}
      BY EmptySeq, SetOf
    <3>2. pend' = pend /\ gone' = gone
      BY <2>2, <2>4, <2>5, <3>1
    <3> QED BY <1>5, <2>2, <3>2
  <2>6. CASE pend # <<>>
    <3> HIDE DEF pend, n
    <3>1. /\ ToSet(pend) = {pend[i] : i \in 1..n} /\ n \in Nat /\ n # 0
      BY <2>3, <2>6, SetOf, LenProperties, EmptySeq DEF n
    <3>2. SubSeq(pend, n + 1, n) = <<>>
      BY <3>1, SubSeqEmpty
    <3>3. pend' = SubSeq(pend, n + 1, Len(pend))
      BY <2>2, <3>2 DEF n
    <3>4. Service!GiveUp(n)
      BY <2>2, <2>4, <3>1, <3>3 DEF Service!GiveUp, Service!Leave, pend, Wanted, Had
    <3>5. n \in 1..Len(Wanted \o hqueue)
      BY <3>1 DEF pend, n
    <3> QED BY <3>4, <3>5 DEF Service!Next, Wanted
  <2> QED BY <2>5, <2>6
<1>12. CASE Sender
  <2>1. CASE SenderEnds \/ Retry \/ (PostFails /\ service' = service)
    BY <1>7, <2>1 DEF SenderEnds, Retry, PostFails
  <2> QED BY <1>9, <1>10, <1>11, <1>12, <2>1 DEF Sender
<1> QED BY <1>6, <1>7, <1>8, <1>12, TrainerStepIs

\* Whatever the limits, and whatever the disk and the service do, the file and
\* the service get the records of the run in order and each once, a batch sent
\* again included; only scalars make room in a full queue, and what else does
\* not arrive is in a batch the sink gave up.
THEOREM ImplementsChannel == MetricsSpec => RefinesChannel
<1>1. MetricsInit => File!Init /\ Service!Init
  <2> SUFFICES ASSUME MetricsInit PROVE File!Init /\ Service!Init
    OBVIOUS
  <2>1. /\ jqueue = <<>> /\ jbatch = <<>> /\ file = <<>> /\ jlost = {}
        /\ hqueue = <<>> /\ hbatch = <<>> /\ service = <<>> /\ hlost = {}
    BY DEF MetricsInit, JsonlInit, HttpInit
  <2>2. <<>> \in Seq({}) /\ ToSet(<<>>) = {} /\ <<>> \o <<>> = <<>>
    BY EmptySeq, SetOf, ConcatEmptySeq
  <2>3. \A S : Without(<<>>, S) = <<>>
    BY <2>2, WithoutAny
  <2> QED BY <2>1, <2>2, <2>3 DEF File!Init, Service!Init
<1>2. /\ MetricsInv /\ [MetricsNext]_metricsVars => [File!Next]_File!vars
      /\ MetricsInv /\ [MetricsNext]_metricsVars => [Service!Next]_Service!vars
  BY FileStep, ServiceStep
<1>3. MetricsSpec => []MetricsInv
  BY MetricsAlways
<1> QED BY <1>1, <1>2, <1>3, PTL
      DEF MetricsSpec, RefinesChannel, File!Spec, Service!Spec

=============================================================================
