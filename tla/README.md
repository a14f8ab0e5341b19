# Verification of MotrixLab

TLA+ models, TLC runs and TLAPS proofs for MotrixLab, a reinforcement learning
framework for robots. MotrixLab trains policies in simulation (`motrix_rl*`,
`motrix_env*`) and runs them on simulated or real robots (`motrix_deploy*`,
`motrix_unitree_native`). Most of the repository is arithmetic: physics,
rewards, networks. The protocol logic, where an error hides from every unit
test, is in two places:

* **asynchronous FastSAC** (`motrix_rl_builtin/.../fastsac/async_impl`):
  processes that share memory without locks, GPU streams that run behind the
  host's back, and a start-up and shutdown protocol over them;
* **deployment**: a robot-level state machine, a control session and the
  Unitree writers, where threads share the command sent to the motors.

Both are modelled, with the replay buffer the first one feeds, and with the
live metrics (`motrix_rl/metrics.py`), whose sinks are threads that outlive the
training loop. What is not modelled is listed in section 6.

Throughout, `async_impl/` stands for
`src/motrix_rl_builtin/src/motrix_rl_builtin/fastsac/async_impl/`, `runtime/`
for `src/motrix_deploy/src/motrix_deploy/runtime/`.

## 1. Inventory

### Asynchronous FastSAC

| Component | State | Operations | Hard behaviour | What makes it correct |
|---|---|---|---|---|
| Final-observation store, `transport/ring.py` `FinalObsStorage` | row cells, per-slot start/count/end, private `_row_write`, `_row_read`, `_reclaimed_slots` | `can_write_rows`, `can_write`, `write`, `read` | rows and slots wrap at different rates; rows are released only when the producer next looks | rows of an unreleased slot are never overwritten; all rows are released in the end |
| Host ring, `transport/ring.py` `SharedTransitionRing` | two cursors, six field tensors per slot | `is_full`, `push`, `read_span`, `read_final_span`, `commit_reads` | one producer and one consumer process, no lock, zero-copy views | a bounded FIFO of intact env steps; no step is lost |
| CUDA-IPC ring, `transport/ipc_ring.py` | cursors, device slots, one pinned staging buffer, issued counts, event deques | same interface | host cursors may move only past copies whose CUDA event completed; pushes become visible late | the same FIFO |
| Weight channel, `transport/weight_channel.py` | seqlock counter, two snapshot slots, statistics, receiver's staging, `_loaded_version` | `publish`, `maybe_load` | neither side waits; copies are torn; two transports differ in where the copy lands | a versioned register: whole versions only, increasing, the last one reached |
| Collector, `collector.py` | env, episode statistics, step counter | `step_once`, `sync_weights` | relies on a check made before the env step | every env step is published exactly once |
| Learner drain, `learner.py` | assembler slots, `next_gen`, pinned buffers, copy stream, replay buffer | `drain`, `maybe_train`, `publish_weights` | collectors run at different speeds; views stay valid across drains only while their slots are held | k-th replay batch = everybody's k-th env step |
| Learner ranks (DDP), `learner.py` `maybe_train`, `worker.py`, `../agent.py` | one process per rank, collectives paired by their order | each rank's loop, broadcast of the update count, gradient and statistics all-reduces, teardown barrier | every rank reads the stop flag for itself | all ranks enqueue the same collectives in the same order |
| Orchestration, `train.py`, `worker.py`, `transport/handshake.py`, `transport/common.py` | stop flag, start event, queues, step counters, processes and exit codes | spawn, barrier, handoff, monitor, shutdown ladder | any process may fail, be killed or be interrupted at any point | an aborted start trains nothing, no stuck child costs another its shutdown, success means a checkpoint, the run ends |
| Statistics, panels, placement, `stats.py`, `panels.py`, `topology.py` | aggregation windows | `collect`, `render` | dropped payloads | display only |
| Replay buffer, `../buffer.py` | circular time axis, table of terminal observations with owners and free rows | `extend_batch`, `write_final`, `sample` | host bookkeeping is ahead of the device; rows change owner; n-step windows across the write position | a sampled window is a piece of the trajectory, with its own terminal observation |

Interactions. A collector process steps its env, pushes the step to its ring
and every few steps polls its weight channel. The learner process drains all
rings into the replay buffer, trains and publishes weights. The parent spawns
both, opens the start barrier, watches exit codes and shuts down. Rings and
channels are shared memory with single-writer cursors; parent and workers use
queues, an event and a shared stop flag.

### Deployment

| Component | State | Hard behaviour | What makes it correct |
|---|---|---|---|
| State machine, `runtime/state_machine.py`, `hot_swapping.py`, `preparation.py` | current state, active transition, queued hops, pending skill, selected preparation | requests during a transition, routes of several hops, emergencies at any time, completion of finite states | an emergency always lands in passive and stays there; a skill runs only prepared, and ends |
| Control session and runtimes, `runtime/control.py`, `base.py`, `hardware.py` | started, stopped, finished, reason | failure in any phase of start or tick, interrupts, cleanup | stop and close are both tried; success is reported only behind a writer that ended with damping, and closed channels |
| Native Unitree backend, `motrix_unitree_native/src/backend.cpp` | command, flags, timestamps under a mutex; writer thread | publishing happens outside the mutex; stop, close and stale inputs | after stop only damping frames are picked; a corrupt frame does not end the session |
| Python Unitree robots, `motrix_deploy_unitree/g1`, `go2`, `remote.py` | the same in Python, latched writer faults | blocked DDS writes, remote stop | a latched fault stays latched; channels close once |
| Simulator runtimes, task programs, artifacts, CLI | physics state, files | none | not protocol code |

### Live metrics

| Component | State | Operations | Hard behaviour | What makes it correct |
|---|---|---|---|---|
| Logger, `metrics.py` `MetricsLogger`, driven by `contracts.py` and `runner.py` | sequence number, closed flag | `run`, `scalars`, `event`, `close` | setup fails half way, training raises, heartbeats come from another thread | one number per record, a terminal record, close always called |
| File sink, `JsonlSink` | queue, closing flag, thread | `write`, `close`, `_loop` | close while the thread writes or sleeps; the disk refuses | in order, once; the queue is empty when the thread ends |
| HTTP sink, `HttpSink` | queue, batch, flush deadline, thread | `put`, `close`, `_loop`, `_send_with_retry` | lost answers, rejections, retries, flush budget after close | in order, once for the service; the thread ends |

### The rest

Environment core, simulator back ends, task environments, robot descriptions,
the RL front end (`motrix_rl`), the SKRL and RSL-RL wrappers, the command line,
benches and docs. `PROJECT.json` lists each with the reason it is not modelled:
numerical code, generated kernels, wrappers over external libraries, or plain
input and output. It also lists the hazards of the two protocol parts, each at
its line with the property that would catch it.

## 2. Modules

```
FinalObsStore --+-- TransitionRing --- refines ---> TransitionFifo
  (EXTENDS)     +-- IpcRing ---------- refines ---> TransitionFifo
WeightChannel ------------------------ refines ---> AtomicRegister
ReplayBuffer <-- LearnerDrain   one bounded FIFO per collector
AsyncTrainer, LearnerRanks      rings as counters, channel left out

HotSwapping                     the robot-level state machine
ControlSession --+-- Go2Session <-- Go2Robot ---- refines ---> MotorBus
                 +-- NativeSession <-- NativeBackend

MetricsQueue <-- JsonlSink --+-- LiveMetrics --- refines ---> MetricsChannel
             <-- HttpSink  --+                                (once per sink)

FinalObsStoreProofs <-- TransitionRingProofs, IpcRingProofs
TrainingRunProofs               over AsyncTrainer and LiveMetrics, the two sides of a run
WeightChannelProofs, LearnerDrainProofs,
HotSwappingProofs, Go2SessionProofs     each over the module it is named for
```

`MC<Module>.tla` gives a module's constants their values; a `.cfg` selects the
constants, the specification and the properties of a run.

**FinalObsStore** is `FinalObsStorage` as a set of variables and operators for
its users to put into their actions. A row's observations are the label
`<<g, k>>`, the k-th row of the g-th env step. `can_write_rows` answers and
reclaims in one call: `CanWriteRows` is its answer and `ReclaimRows` its
effect, always used together. `write` is two operators, because its row copies
and its metadata stores are separate steps to the other process.

**TransitionRing** has `step_once` and `push` as a program counter `ppc` (`poll`,
`step`, `push`, `fields`, `rows`, `meta`, `publish`) and the drain as `cpc`. A
slot being filled holds `NoBatch` until its last field is in: a reader that saw
it would see a torn step. The learner copies slot by slot, then reads the final
payloads, then commits. It may take any prefix of the readable run, as the
drain's budget and assembly decide. The stores of one process are seen in order
by the other: the code relies on x86/TSO and says so (`ring.py:261-263`).

**IpcRing** adds the two streams as actors: `H2DBegin`/`H2DEnd` copy the staging
buffer to the next slot, `D2DCopy` copies a slot out for the learner. They run
in the order enqueued, any time after it. `FlushWrites` and `FlushReads` are
one round of the flush loops and happen only where the code polls: for the
producer in the `is_full` of a loop that still has a step to take
(`worker.py:425`), so the last pushes stay unpublished. An event is
complete when the copies enqueued before it are (`hDone`, `dDone`). A poll of an
unfinished loop is separated from the decision after it by the guard that no
completed event is left. The final-row store stays on the host.

**TransitionFifo** is the promise: `Put` one whole batch, `Take` a prefix. The
refinement maps the queue to the slots between the two cursors.

**WeightChannel** copies word by word, the parameters in two or more words and
the statistics in one or more; a word's value is its version. `transport` is
chosen at the start. On the host transport `CopyWord` fills private staging and
`LoadSnapshot` moves it to the actor after `Recheck`. On the IPC transport the
parameters go straight to the actor, as `_snapshot` does.

**AtomicRegister** is the promise: `Publish` the next version, `Load` the
published one whole.

**LearnerDrain** has a program counter `lpc` along `_drain_rings`,
`pop_ready`, `acquire`, the merge, `read_final_span`, `stage` and
`commit_reads`, then `maybe_train`, the update and the publish, with the ring
each loop has come to. `pending` maps a shard to
the slot its view shows, not to a value: the merge reads the slot as it is by
then. The device is two queues behind the learner's back: `CopyStream` moves
the pinned rows and `ComputeStream` executes the sampling kernels, each in the
order enqueued and any time later; the events and synchronisations the code
makes are what orders them. It models a rank with only host rings on a CUDA
learner, the case with the most concurrency. An update is enqueued with the
number of steps it was called at; what it may sample is checked when it runs.

**ReplayBuffer** is `SimpleReplayBuffer` for LearnerDrain to put into its
actions. The host's part of an operation (`ptr`, free rows, owners) changes when
it is called; `ExtendOps` and `FinalOps` are what it enqueues and `Execute` is
the device carrying one of these out. `Sampled` is `sample()` on the arrays,
`Trajectory` the same window read off the trajectory: the reference.

**LearnerRanks** is the loop of several learner processes. A rank enqueues a
collective into `calls` and goes on, except where the code reads a result back
(`int(count_tensor[0])`), publishes or meets the barrier. `Collective` runs
when every rank's next one is of the same kind.

**HotSwapping** has one action per outcome of `StateMachineController.step()`
with the overrides of `RobotHotSwappingController`: a call refuses contradictory
intents, breaks off a blend for an emergency, goes on blending, runs the current
state, leaves it, completes it or raises. `Enter` is `_begin_transition`, the
first step of the entered state included: a preparation that is ready at once
hands over in the same call. Time is counted in calls; the graph is the G1
program's.

**ControlSession** is the skeleton every robot is driven by: the phases of
`start`, `tick` and `stop`, and what each records when it raises. **Go2Robot**
and **NativeBackend** are the two robots, each with the SDK's callback, the
writer thread and the calls of the session; a step is one critical section or
one transport call. Clocks are left out: a sample or a command may become stale
at any time. **Go2Session** and **NativeSession** put a robot under the
session, the latter with the Python adapter in between.

In Go2Robot a write may fail. `tried` is the frame the writer last tried and
counts as an attempt, `handed` the one last written: a frame whose write failed
never gets there.

**MotorBus** is the promise of a robot: `Pick` a frame and `Publish` it, or lose
it on the way; once the output is latched off, only damping frames are picked,
for good.

**MetricsQueue** is `_bounded_append`. **JsonlSink** and **HttpSink** are the
two sinks with their threads; **LiveMetrics** is the logger as `TrainerHandle.train`
uses it, from setup to the exit hook. Its `MetricsInit`, `MetricsNext` and so on carry
that prefix because one proofs module extends it together with AsyncTrainer. **MetricsChannel** is the promise to each
sink's reader.

**AsyncTrainer** has a program counter for the parent and for each worker,
plus exit codes, the stop flag, the start event, the readiness and error
queues, the step counters and the final checkpoint. The shutdown ladder takes
the children one after the other, `turn` says whose turn it is and `signal` what
it was sent: the join returns (`JoinReturns`) or times out, then comes SIGTERM
(`Terminate`), SIGKILL (`Escalate`) and the next child, whether or not this one
has ended by then (`PassOver`). A signal takes effect later (`Dies`), SIGTERM perhaps
never. `GiveVerdict` looks at the exit codes there are. Faults are actions: an
exception in any worker at any point, a worker stuck for good (`Hang`), a
signal that cannot be sent (`SignalFails`), Ctrl+C to the process group wherever
the parent is, the ladder included (`Unwound`), a learner or collector killed
outright. `MaxFaults` bounds how many happen, `FaultKinds` which. The panel's data
gate is modelled because the handoff waits for it.

## 3. Runs

| Run | Instance | Shows |
|---|---|---|
| `transition_ring` | 4 slots, 2 envs (6 rows), 6 env steps | no step lost or torn, final rows aligned, FIFO refinement, all ingested |
| `ipc_ring` | 4 slots, 1 env (3 rows), 6 env steps | the same over two CUDA streams; at most two pushes stay unpublished |
| `weight_channel` | 2 parameter words, 1 word of statistics, both transports, 4 publishes | whole, increasing versions; register refinement; the last version arrives |
| `learner_drain` | 2 collectors, 3 slots, budget 2, 5 steps each; a replay ring of 2 steps; windows of 1, 2 and 3 steps; 9 finished episodes in 10 collector steps | alignment of the replay buffer and of the cursors; every window sampled is the trajectory's; progress |
| `async_trainer` | 2 collectors, 3 iterations, 2 slots, any 2 of exception, interrupt, killed learner, stuck worker, signal that cannot be sent | an aborted start trains nothing; the ladder reaches every child and ends every one it could signal; what a success means; termination |
| `hot_swapping` | 2 skills, gestures of up to two buttons, blends of 1 to 3 calls, ages up to 4 | skills run prepared; emergencies land and hold; skills and preparations end |
| `go2_session` | no parameters: all of it | the bus refinement; emergencies damp; what a success says of writer, channels and last frame |
| `live_metrics` | queues of 1 and 2 records, batches of 2, 2 records of training | each sink's channel refinement; nothing reported is lost at exit; threads end |
| `weight_channel_ipc` | the channel, IPC only | finding 1 |
| `async_trainer_kill` | one killed collector | finding 2 |
| `learner_ranks` | 2 ranks with a collector each, 4 iterations | finding 3 |
| `native_corrupt_frame` | no parameters | finding 4 |

Why the bounds are enough for what they show. In both ring instances the row
store is smaller than slots times environments, so rows fill before slots do
and both reasons for a full ring occur; six steps wrap both arrays. Two
parameter words are what a torn copy needs, and four publishes let both slots
be overwritten during one read and once more in its retry. Two collectors
can be three steps apart with rings that wrap, and a budget below the capacity
splits a run over several drains; the replay ring wraps in the middle of the
run, and truncations are frequent enough for the table to grow once and for its
rows to change owner. The two skills differ in what matters: one is ready at the
step that enters its preparation, the other has to settle and may time out.
Ages beyond every duration are alike, so `MaxAge` loses nothing. A queue of one
overflows with a kept record in it, a batch of two leaves a rest behind. A run of three iterations does not fit into
a ring of two, so no collector can finish before the learner ingests; section
5 says what happens otherwise. The error queue of eight is never full with
three workers. Two faults are
enough for a stuck child and what sets the shutdown off, for a signal that
cannot be sent, and for a Ctrl+C with a second one in the ladder; with three
(two stuck children among them) the ladder's two properties hold as well, in a
run of 557352 states that is not kept for its length. `MaxSteps`, `MaxVersion`, `MaxFaults`, `MaxSeq` and `MaxAge` are
the only bounds that are not parameters of the program. The proofs of section 4 hold for every
value of `MaxSteps` and `MaxVersion`, and of the program's own constants.

The invariants are about what a step of one actor may do to another's state.
Each property has a mutant in `PROJECT.json`: a change of the code, such as a
row check left out of `is_full`, a cursor moved before its event, or a stop
that leaves the last command pending, under which TLC finds the property violated.

### Fairness

* Rings: weak fairness of `Produce` and `Consume` as wholes. Both processes loop
  until they are told to stop, polling again after `idle_sleep_s`. Nothing is
  assumed about a single action inside a process.
* IPC ring: also of the host-to-device and of the device-to-device stream. A
  CUDA stream executes what was enqueued.
* Weight channel: of `Publish` and `MaybeLoad`. The learner finishes a publish
  it began, and `step_once` polls every `weight_poll_interval` steps.
  `EventuallyCurrent` is about the end of publishing; a learner that publishes
  for ever may keep a collector retrying, as the code accepts.
* Drain: of the learner and its two streams only. The collectors owe nothing,
  so `GenerationsIngested` says that a complete generation gets through even if
  every collector stops.
* Trainer: of each collector, the learner and the parent, since
  `p.join(timeout=...)` returns, and of a SIGKILL taking effect. A worker that is
  stuck takes no step of its own any more, and SIGTERM need not end it. No fault
  is fair. With a worker stuck outside the ladder the parent may poll for ever, and
  `RunEnds` promises nothing for that case; `LadderEnds` does for the others.
* State machine: of the calls of `step()` as a whole; a session calls it every
  control period until it is done. Which buttons are pressed, what the robot
  measures and whether a step raises are free.
* Go2 session: of the writer thread and of the session thread, which both loop.
  A blocked write is a step that may be delayed only by the other's choice; the
  session gives up waiting after its timeouts. The emergency button, stale
  samples and Ctrl+C are free, and the session may fail anywhere.
* Live metrics: of the closing thread, of each sink's thread and of the flush
  clock. The service may stay away for ever; training need not end.

## 4. Proofs

TLAPS proves, for every capacity, number of environments, collectors, steps and
versions, set of words, set of skills, duration, queue limit and batch size:

| Module | Theorems |
|---|---|
| TransitionRingProofs | `TypeCorrect`, `NoStepIsDropped`, `NothingClobbered`, `FinalRowsAreAligned`, `IngestIsIntact`, `ImplementsFifo` (`Spec => RefinesFifo`) |
| IpcRingProofs | `TypeCorrect`, `NoStepIsDropped`, `IngestIsIntact`, `ImplementsFifo` (the same queue) |
| WeightChannelProofs | `TypeCorrect`, `HostPolicyIsIntact`, `LoadsAreConsistent`, `ImplementsRegister` (`Spec => RefinesRegister`) |
| LearnerDrainProofs | `TypeCorrect`, `CursorsAgree`, `ViewsStayIntact`, `BatchesAreAligned`, `PayloadsAreAligned`, `SamplesAreIntact` |
| TrainingRunProofs, trainer | `TypeCorrect`, `LadderIsThrough`, `StaysWithinOneRing`, `AbortedStaysIdle`, `SuccessIsSaved` |
| TrainingRunProofs, metrics | `MetricsTyped`, `ExitLosesNothing`, `ImplementsChannel` (`MetricsSpec => RefinesChannel`, both sinks) |
| HotSwappingProofs | `TypeCorrect`, `SkillsArePrepared`, `PassiveIsLeftOnRequest`, for any skills with any durations and any gestures |
| Go2SessionProofs | `TypeCorrect`, `SuccessEndsWriter`, `ImplementsBus` (`Spec => RefinesBus`) |

The assumptions are the named ASSUMEs of the modules: sizes are positive naturals,
the parameter words are not empty and disjoint from the statistics' words, there
are finitely many words, the skills' names are not those of the other states,
every blended edge has a positive duration, `Nothing` is not the name of a
motor frame, and the limits of the metrics queues are naturals.
Two theorems have a hypothesis of their own, and section 5 says what
happens without it: `SuccessIsSaved`, `Capacity < NumIterations`; and `SamplesAreIntact`,
that `PublishInterval` divides `NumUpdates` (`PublishesEach`). The shipped interval
is 4 (`algo_base/motrix.fastsac.yaml:83`) and `num_updates` is 8 there, or 4 in the tasks
that override it, except go2-walk-flat and go2-walk-rough: they set 2, so the theorem
does not cover them.

*The ring.* `NoStepDropped` and `FinalRowsAligned` are not inductive: nothing in
them says what the row cells between `rowRead` and `rowWrite` hold, nor that the
poll's answer survives the env step. The strengthening `IInv` has three parts
besides the types. `StoreSide` says of the store that every slot from
`reclaimed` on owns its rows: they lie between `rowRead` and `rowWrite`, hold the
labels of their step, and follow each other in slot order
(`StoreInv` in FinalObsStoreProofs). It also tracks the step being written
through its two halves, and carries the answer of the last poll to `push`.
`SlotSide` says that published slots hold their own batch, and which slot is
being filled. `ConsumerSide` says that the learner's copies are what it was to
copy. The store lemmas (`CopyKeepsStore`, `RecordKeepsStore`,
`ReclaimKeepsStore`) know nothing of the ring, and both rings use them. They rest
on arithmetic: two numbers less than a capacity apart have different places, and
where a place lies seen from the write position.

That the ring implements `TransitionFifo` follows from `IInv`. Seen as a queue, the
ring holds the batches of its unread steps (`QueueIntact`); a publish appends
one, a commit removes what the learner took, and every other step keeps it
(`QueueKept`), since none touches a slot or a row of an unread step.

*The IPC ring.* Two cursors are five: a push is issued, copied by the device, then
published, a drain issued, copied, then released. `Cursors` bounds their distances,
`Staged` says what the one staging buffer holds and that at most one push is in
flight, `EventsOrdered` that events wait in the order in which they release. The
learner copies on its own stream, after the host has gone on: `CopiesMatch` and
`FinalsMatch` speak of the copies done so far, `SlotsHeld` of the slots not yet
released. A push not yet published and an event not yet passed both take up room,
so `NoStepIsDropped` is about the collector's stale view, not the ring's contents.

*The channel.* A slot's words are all of the version the counter makes active,
except for those a publish is writing into the other slot. `CopyConsistent`
says that the words copied in an attempt belong to the version read from `s1`
as long as the counter has not passed the next publish's beginning; a re-check
that succeeds therefore loads one version. `AttemptFresh` says that this
version is newer than the one loaded. `StagedPolicy` covers the actor on the
host transport.

*The state machine.* `SkillPrepared` is not inductive: with a hop left in the queue
when the robot heads for the preparation, the next call would route from there to
walking through a skill nobody prepared. `QueueSide` excludes this: a hop is left
over only on the way through fixstand, since passive-fixstand-walk is the only
route of two hops a request can ask for (`Routes`). With it and the types,
`EnterKeeps` says when a transition may be begun, and each action that begins one
shows that it may. `PassiveUntilAsked` follows from the same invariant: a robot
in passive has no hop queued, and arms no skill. That the one call to `CHOOSE`
in `PathTo` has a single answer is part of `Routes`.

*The drain.* The collectors run apart, so shards of one generation arrive in different
drains and wait as views of slots that are still held. `Assembly` bounds how far
ahead a view may be: below its ring's write cursor and at most one budget
past the oldest generation not released (`First`). With `RingsHold`, which says that a
ring holds the steps between its cursors, no view's slot is refilled.
`Cursors` says where the cursors are while the release goes from ring to ring, and
`Merged` and `PayloadsRead` that what was merged is uniform: batch i is step
`First + i - 1` on every ring. The last part is about copies in flight: `InPlace` says that
each of the newest steps is in its slot or has a copy on the stream that will bring
it there, and that a copy on the stream goes where it belongs and still finds its pinned
row. That two of the newest steps never share a slot is `ModDistinct`.

*The final-observation table.* Its bookkeeping says little of itself: counts agree
and rows are in range (`ReplayTypeOK`, `RowsPartitioned`). `RowsHeld` says what it
is: each row is owned by one step at most, and `freeRows` lists the others, each
once. Overwriting slots appends the rows of several owners (`ExtendRows`),
and a truncated batch takes rows off the end of the free ones, its own
replaced rows and those of a grown table (`WriteFinalRows`). There are
always enough, because a step has one row at most, so the rows of other steps and
the envs that need one are no more than the cells of the ring (`OthersCount`). `GridHeld`
adds the rows that grid and stream name. What sorting, popping and flattening
do to a list are lemmas about `Lists`, by induction on length.
`StepsHeld` bounds the progress the learner trains for by the sum of the collectors' steps.

*Sampling.* `SamplesIntact` reads a table row through the slot's grid, and both are
written by the copy stream after the host has reassigned the row. `FinalsHeld` says
of each of the newest steps that its terminal observations are in the rows it owns
or on their way (`Stored`, `OnItsWay`), and that no clear still on the stream is of its slot;
a drain's only clear comes first (`OpsHeld`), so no clear undoes a later write. A row
changes owner while the old owner's copy may be under way, and that is harmless because
the old owner is no longer among the newest. `SamplingHeld` says that
the kernels not yet run sample the buffer as the host left it and that none outlives
the publish, which is where `PublishesEach` is needed; once the copies
they wait for are done, nothing is on the stream, so each read is of its own step
(`ReadsAre`) and the window is the trajectory (`WindowIs`).

*The trainer.* `LadderReachesAll` speaks of the end of the ladder only.
`TurnsTaken` says on the way that every child whose turn is over was dealt with,
that a parent behind the ladder has no turn left, and that the turns are everybody's:
`ChildIsWorker` finds the turn of a worker. `SuccessHasCheckpoint` cannot lean on
exit codes alone, since a child without one passes for well: `VerdictKnows` keeps,
from the monitor to the verdict, that the learner has ended or a failure is on
record, and `ReturnSaves` that a learner which returns after training
has saved. `CollectorsWithinOneRing`
needs `Backpressure` (no collector is more than a ring ahead of the merge) and, for a
successful run, a reason why training ended: `EndHasCause` says a crash, a failing
parent or a collector with all its steps taken. `StartsIdle` says that no worker is in
its loop while the barrier is closed, nor behind an abort. `AbortedBootNeverTrains` is an
action property over the aggregate counter, a fold over the collectors' steps.
That this sum is bounded, maximal only if all are, and zero if all are zero is
proved by induction on the size of the set summed over; `SetInduction`
derives it from the least counterexample, because the library's induction
theorem, which takes a predicate, is out of the provers' reach.

*The robot session.* `SuccessEndsOutput` is about the frame a second thread tried
last. `Phases` says what the session has done to the robot by its next call,
and `LastFrame` that a writer told to leave has only a damping frame to go, since it
is told so after the output was stopped. `LossesLatched` says that a frame is lost
only with a fault on record. `CleanEnd` ties the reported reason to a
`close()` that came to its end. For `RefinesBus` the latch is
`stopped \/ emergency \/ fault # "none"`: no step of either thread opens it.

*The live metrics.* `ExitKeepsRecords` needs to know where a record that has to be
kept is at any time: in a queue, in the batch under way, at its destination, or in a
batch given up (the last line of `JsonlSide` and `HttpSide`). A full queue removes a
scalars record only, so an emission keeps this (`BoundedAppendHas`). The other half
is that each thread ends with nothing queued: the file's writer ends only if
it saw the closing flag before it took the queue, and nobody writes after that;
the sender ends when the queue is empty and `close()` was called, or by giving
up what is left. The refinement needs more. The service's channel has pending
what it lacks of the batch, without heartbeats, and then the queue. A lost answer leaves a
batch that has arrived with the sender, and such a batch must count as nothing.
`HttpSide` therefore says that the queue holds each record once and shares none with the
batch or the service, which follows from the numbers: no record has one above
`seq`, and an emission takes the next. `TrainerSide` bounds `seq`, also
for a heartbeat the sender has decided on and not yet numbered. What leaving out records
does to one sequence, to two in a row and when done twice are the `Without` lemmas, by
induction on length. `Without` is a fold and not `SelectSeq`, whose definition the
provers cannot open.

What TLC alone checks: liveness (out of TLAPS's reach here); and the two runs without
theorems, the ranks and the session over the native backend, which show findings, as
the other `violation` runs do. The inductive invariant of every
proved module was itself checked by TLC, on the instances above and on smaller and
larger ones.

## 5. Findings

1. **CUDA-IPC weights can be torn** (`weight_channel.py:408`).
   `GpuIpcWeightReceiver._snapshot` copies into the actor before the re-check.
   When the re-check fails and the retry finds the learner publishing,
   `maybe_load` returns the old version, with an actor that holds words of
   others. The base class promises a private copy, an actor touched only when a
   version is loaded, and that a torn copy is discarded. It needs two publishes
   to begin during one snapshot and is repaired by a later poll.
   `LoadIsConsistent` holds on both transports: what is *announced* is whole.
2. **A killed collector can hang the handoff** (`train.py:569`). Between the
   barrier and the first panel data the parent looks at tracebacks and at the
   learner's liveness only. A collector killed by the system leaves neither, so the
   parent waits for ever. The monitor would notice, and is not reached.
3. **Learner ranks fall out of step at the end of a run** (`worker.py:811`). Each
   rank reads the stop flag and the step counters for itself: at the head of its
   loop, between the updates of a round, and while it waits for data. The first
   collector to finish raises the flag, at the ordinary end of every run. One
   rank then enqueues the teardown barrier while another enqueues the gradients
   of an update or the next round's broadcast, although the comment says that
   the collectives are matched. Before the flag is raised and the last step
   counted TLC finds no mismatch. What NCCL does with one is not modelled; the code's
   own timeout of 90 s and an unwritten final checkpoint are the likely end.
4. **One corrupt IMU frame can end a session** (`backend.cpp:187`). A frame with
   a degenerate quaternion is dropped "instead of latching an error", but
   `state_error_` is set until the next valid frame, and a health check or
   `enable()` in between fails.

Observed while modelling; no run states it:

* **A stuck worker may have no backstop** (`train.py:593`). `worker.py:254-256`
  names the parent's ladder as the backstop for a worker that is blocked and
  cannot hear Ctrl+C. The ladder is in the monitor's `finally`. In the handoff
  the workers train already, but a Ctrl+C or a traceback there leaves
  `train()` by a `finally` that only opens the barrier: no join, no signal. In
  AsyncTrainer that is `ppc = "raised"` with a worker at `stuck`, for good
  (`ppc = "raised" ~> \A w \in Workers : ~Alive(w)` fails with the faults `hang`
  and `interrupt`); the workers are not daemons, so the interpreter waits for
  them. Once the ladder has begun it keeps its word (`LadderEnds`).
* **A stop on the Go2 may succeed without damping** (`go2/robot.py:547-551`). The
  interface says of `stop()` "Enter the declared safe stopped state"
  (`robot/interface.py:62`), which is damping here. `stop()` waits for an
  attempt, and a write that failed is one. The fault is latched, but after
  the session's last health check nobody looks at it (`control.py:285-309`). A
  session whose controller is done while every damping write fails ends as a
  success with an active frame as the last one the motors got: as an
  invariant, `Succeeded => handed # "active"` fails after 33 states.
  `SuccessEndsOutput` is what does hold.
* **The aggregate step count is not reached** (`worker.py:667-668`, `448`). The
  first collector to finish stops the others. `CollectorsWithinOneRing` bounds
  what is lost: no more than one ring per collector.
* **Sampling can read rows being overwritten** (`learner.py:137`). The copy
  stream does not wait for sampling kernels; only a due publish synchronises the
  two. With `weight_publish_interval` 4 and `num_updates` 2 TLC finds
  `SamplesIntact` violated in 57 states. These are the values of go2-walk-flat and
  go2-walk-rough (`configs/task/go2-walk-flat/motrix.fastsac.yaml:22`); all other
  shipped tasks publish after every update, as the run does.
* **Rewards of an n-step window run past a truncation** while its bootstrap stops
  there (`buffer.py:301-306`). A test pins this, and `Trajectory` says it; the
  default is one step.
* **The last frame may be active** (`backend.cpp:398`). The native writer copies
  the command under the lock and publishes outside: a frame copied before
  `stop()` may follow the damping frames of `stop()` and `close()`. The Go2
  joins its writer before it reports success, so the last frame it tries is damping
  (`SuccessEndsOutput`).
* **The start barrier may open without the stop flag** (`train.py:593`). An
  exception of the parent's own in the boot loop, or a Ctrl+C before any worker has
  its handler installed, passes through the `finally` alone, and the workers that are
  ready would train unwatched. The model's parent has no such exceptions, and its
  Ctrl+C reaches the workers' handlers.
* **A child that outlives the ladder counts as a success** (`train.py:716-723`): its
  exit code is None. It has got SIGKILL or could not be signalled by then.
* **State machine**: a request for the state the robot is already in leaves a
  queued hop standing, which is then followed; requests during a blend other
  than emergencies are dropped; and a queued hop overwrites the rest of the
  queue (`state_machine.py:278`), which needs a route of three hops, and no
  shipped graph has one.

One more case is documented by a bound. With `num_iterations <= ring_capacity`
a collector can finish before the learner has left `wait_for_start`; the
learner then returns without training or saving, all exit codes are zero and the
run succeeds without a checkpoint. `SuccessHasCheckpoint` is checked for runs
longer than a ring, where backpressure excludes it.

## 6. What the models leave out

* Tensor contents, dtypes and shapes; logging, panels and timing measurements.
* Memory models weaker than x86/TSO, which the code excludes itself.
* The device queue behind the host receiver's non-blocking copies: the code's
  comment (`weight_channel.py:351-355`) says that an inference synchronises between
  polls, and the model takes it at its word.
* A ring without a final-observation store (`final_obs_store is None`): it is
  the modelled ring whose steps have no finished episode and whose row check
  always passes.
* The learner's mixed and device-only ranks, `utd_mode` other than strict, faults
  in runs with several learners, resume and periodic checkpoints.
* In LearnerDrain, the counter of steps moves with the push, and the fields of a
  row land on the device together.
* In the deployment models: commands and measurements beyond fresh or stale,
  clocks, the scheduler, the simulators, and the Python G1 robot and its
  control-mode clients.
* In LiveMetrics: a process killed by a signal, sinks used without the logger,
  and the seeding of sequence numbers by the wall clock (`metrics.py:74-76`).
* `SaveFinal` is one step; a file cut short by the ladder is not modelled.
* Of the interpreter: that it joins non-daemon children at exit, and that a
  queue delivers what was put. Both are external assumptions.

## 7. Plan

1. *Done*: asynchronous FastSAC with its replay buffer and several ranks, the
   deployment state machine, the control session over the Go2 and over the native
   G1 backend, the live metrics; proofs for both rings and their store, the
   weight channel, the drain, the trainer, the state machine, the Go2 session and
   the live metrics. Every safety property of the passing runs has its theorem.
2. *Modules not written*: the Python G1 robot, whose protocol is close to the
   Go2's; the mixed ranks of LearnerDrain; resume and checkpoints; the
   synchronous trainer. The rest of the repository is numerical code, generated
   kernels, wrappers and plain input and output (section 1).

## 8. Running it

In this directory: `tlc -config TransitionRing.cfg MCTransitionRing` (and so on
for each row of section 3, see `runs` in `PROJECT.json`), and
`tlapm` on each of the eight modules named `...Proofs.tla`. The ring runs,
`learner_drain`, `async_trainer`, `hot_swapping` and `live_metrics` take a minute or two, the others
seconds; the proofs half an hour in all.
