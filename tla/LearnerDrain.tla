---------------------------- MODULE LearnerDrain ----------------------------
(***************************************************************************)
(* Learner.drain (async_impl/learner.py) over one ring per collector: the  *)
(* GenerationAssembler joins the k-th env step of every collector into the *)
(* k-th full batch, and DrainStaging moves the merged batches to the       *)
(* replay buffer through pinned buffers and a copy stream.  The collectors *)
(* run at their own speeds.  The shards waiting for assembly are zero-copy *)
(* views: they show whatever their ring slot holds when they are read.     *)
(*                                                                         *)
(* Between two drains maybe_train samples the replay buffer.  Sampling is  *)
(* enqueued too: it reads the buffer when the compute stream gets to it,   *)
(* while the host may be ahead; a weight publish is what makes it wait.    *)
(*                                                                         *)
(* Each ring is taken as what TransitionRing is shown to implement, a      *)
(* bounded FIFO: a push is one step here.  A slot's contents, transitions  *)
(* and final rows, are abstracted to the ordinal of its env step.          *)
(***************************************************************************)
EXTENDS ReplayBuffer

CONSTANTS Capacity,        \* ring_capacity
          Budget,          \* max_ingest_per_iter
          LearningStarts,  \* learning_starts
          NumUpdates,      \* num_updates, of each update call
          PublishInterval, \* weight_publish_interval
          WindowSizes,     \* the n_steps sampling is checked for
          MaxSteps         \* bound: env steps of each collector

ASSUME DrainAssumption ==
  /\ Capacity \in Nat \ {0} /\ Budget \in Nat \ {0} /\ MaxSteps \in Nat
  /\ LearningStarts \in Nat /\ NumUpdates \in Nat \ {0}
  /\ PublishInterval \in Nat \ {0} /\ WindowSizes \subseteq Nat \ {0}

\* One env block of the buffer, and one ring, per collector.
NumCollectors == NumEnvs
Collectors    == Envs
Slots         == 0..(Capacity - 1)

VARIABLES
  write,    \* per ring: published env steps
  read,     \* per ring: released env steps
  slots,    \* per ring and slot: the env step it holds
  lpc,      \* where the learner's loop is: scanning ring ring, merging, ...
  ring,     \* the ring a loop over the rings has come to
  pending,  \* GenerationAssembler._slots: <<generation, collector>> -> slot viewed
  nextGen,  \* GenerationAssembler.next_gen
  ready,    \* generations pop_ready returned in this drain
  runs,     \* the merged batches of this drain, oldest first
  finals,   \* per ring: the final payloads read in this drain
  written,  \* generations of this drain whose final rows are attached
  buffers,  \* DrainStaging.buffers: the pinned rows of the last staged run
  stream,   \* operations the copy stream has still to execute
  done,     \* how many it has executed
  gstep,    \* progress the loop read: full batches the collectors stepped
  trained,  \* _last_train_gstep
  toTrain,  \* update calls left in this maybe_train
  updates,  \* update_idx, modulo the publish interval
  kernels   \* sampling the compute stream has still to execute, oldest first

rings   == <<write, read, slots>>
drain   == <<ring, pending, nextGen, ready, runs, finals, written>>
stage   == <<buffers, replayHost>>
copies  == <<stream, done, replayDevice>>
train   == <<gstep, trained, toTrain, updates>>
vars    == <<rings, lpc, drain, stage, copies, train, kernels>>

Init ==
  /\ write = [c \in Collectors |-> 0] /\ read = [c \in Collectors |-> 0]
  /\ slots = [c \in Collectors |-> [s \in Slots |-> -1]]
  /\ lpc = "loop" /\ ring = 1
  /\ pending = <<>>
  /\ nextGen = 0 /\ ready = 0 /\ runs = <<>>
  /\ finals = [c \in Collectors |-> <<>>]
  /\ written = 0
  /\ ReplayInit /\ buffers = <<>> /\ stream = <<>> /\ done = 0
  /\ gstep = 0 /\ trained = 0 /\ toTrain = 0 /\ updates = 0
  /\ kernels = <<>>

-----------------------------------------------------------------------------
(* A collector publishes an env step; a full ring holds back only its own. *)

Push(c) ==
  /\ write[c] < MaxSteps /\ write[c] - read[c] < Capacity
  /\ slots' = [slots EXCEPT ![c][write[c] % Capacity] = write[c]]
  /\ write' = [write EXCEPT ![c] = @ + 1]
  /\ UNCHANGED <<read, lpc, drain, stage, copies, train, kernels>>

\* control.collector_steps: the counter moves with the push.
CollectorSteps == FoldFunction(LAMBDA n, m : n + m, 0, write)

-----------------------------------------------------------------------------
(* The learner's drain.                                                    *)

\* The top of the worker's loop.
ReadProgress ==
  /\ lpc = "loop"
  /\ gstep' = CollectorSteps \div NumCollectors
  /\ lpc' = "scan"
  /\ UNCHANGED <<rings, drain, stage, copies, trained, toTrain, updates, kernels>>

\* Mutant: the end of the slot array off by one.
VisitShort(c) == Min({Budget, write[c] - read[c], Capacity - 1 - (read[c] % Capacity)})

\* What one visit takes from ring c: bounded by the budget, by what is
\* published and by the end of the slot array.
Visit(c) == Min({Budget, write[c] - read[c], Capacity - (read[c] % Capacity)})

NextRing == IF ring < NumCollectors THEN ring + 1 ELSE 1

\* _drain_rings: add() places ring's shards at their absolute generations,
\* again if an earlier drain already did.
ScanRing ==
  /\ lpc = "scan"
  /\ LET shards == { <<read[ring] + i, ring>> : i \in 0..(Visit(ring) - 1) }
     IN  pending' = [p \in (DOMAIN pending) \cup shards |-> p[1] % Capacity]
  /\ ring' = NextRing
  /\ lpc' = IF ring = NumCollectors THEN "pop" ELSE "scan"
  /\ UNCHANGED <<rings, nextGen, ready, runs, finals, written, stage, copies, train, kernels>>

Complete(g) == \A c \in Collectors : <<g, c>> \in DOMAIN pending

\* pop_ready: the complete generations in a row from next_gen on.
ReadyCount ==
  Max({ k \in 0..Capacity : \A g \in nextGen..(nextGen + k - 1) : Complete(g) })

PopReady ==
  /\ lpc = "pop"
  /\ ready' = ReadyCount
  /\ nextGen' = nextGen + ReadyCount
  /\ lpc' = IF ReadyCount = 0 THEN "train" ELSE "acquire"
  /\ UNCHANGED <<rings, ring, pending, runs, finals, written, stage, copies, train, kernels>>

\* Mutant: the buffers are refilled while they are being copied.
AcquireAtOnce ==
  /\ lpc = "acquire"
  /\ lpc' = "merge"
  /\ UNCHANGED <<rings, drain, stage, copies, train, kernels>>

\* DrainStaging.acquire: the previous drain's copies have left the buffers.
Acquire ==
  /\ lpc = "acquire" /\ stream = <<>>
  /\ lpc' = "merge"
  /\ UNCHANGED <<rings, drain, stage, copies, train, kernels>>

\* The views of one generation are concatenated, shard by shard.
MergeGeneration ==
  /\ lpc = "merge" /\ Len(runs) < ready
  /\ LET g == nextGen - ready + Len(runs)
     IN  runs' = Append(runs, [c \in Collectors |-> slots[c][pending[<<g, c>>]]])
  /\ UNCHANGED <<rings, lpc, ring, pending, nextGen, ready, finals, written,
                 stage, copies, train, kernels>>

\* read_final_span on each ring, from that ring's own read cursor.
ReadFinals ==
  /\ lpc = "merge" /\ Len(runs) = ready
  /\ finals' = [finals EXCEPT ![ring] =
                  [i \in 1..ready |-> slots[ring][(read[ring] + i - 1) % Capacity]]]
  /\ ring' = NextRing
  /\ lpc' = IF ring = NumCollectors THEN "stage" ELSE "merge"
  /\ UNCHANGED <<rings, pending, nextGen, ready, runs, written, stage, copies,
                 train, kernels>>

\* stage(): ring data to the pinned buffers, then extend_batch on the copy
\* stream; what it enqueues runs later.
StageRuns ==
  /\ lpc = "stage"
  /\ buffers' = runs
  /\ Extend(ready)
  /\ stream' = stream \o ExtendOps(ready)
  /\ lpc' = "attach"
  /\ UNCHANGED <<rings, drain, done, replayDevice, train, kernels>>

\* The payload of the generation WriteFinals has come to, if it was stored,
\* and its slot.
FinalRow  == [c \in Collectors |-> finals[c][written + 1]]
FinalEnvs == {c \in Collectors : written >= Skip(ready) /\ <<FinalRow[c], c>> \in Truncated}
FinalSlot == SlotAt(ptr - ready + written)

\* The end of extend_batch: write_final for each generation in turn.  A
\* table that has to grow is replaced once the device is idle.
WriteFinals ==
  /\ lpc = "attach" /\ written < ready
  /\ Lacking(FinalEnvs, FinalSlot) > 0 => stream = <<>> /\ kernels = <<>>
  /\ written' = written + 1
  /\ IF FinalEnvs = {} THEN UNCHANGED <<freeRows, owners, table, stream>>
     ELSE /\ WriteFinal(FinalEnvs, FinalSlot)
          /\ stream' = stream \o FinalOps(FinalEnvs, FinalSlot, FinalRow)
  /\ UNCHANGED <<rings, lpc, ring, pending, nextGen, ready, runs, finals, buffers,
                 ptr, done, replay, grid, train, kernels>>

\* Mutant: everything scanned is released, merged or not.
ReleaseScanned == Visit(ring)

\* What _ingest_runs releases on each ring.
Release == ready

\* commit_reads(ingested) on every ring in turn.  The popped generations'
\* views are dropped with them.
CommitRing ==
  /\ lpc = "attach" /\ written = ready
  /\ read' = [read EXCEPT ![ring] = @ + Release]
  /\ ring' = NextRing
  /\ IF ring = NumCollectors
       THEN /\ lpc' = "train" /\ ready' = 0 /\ runs' = <<>> /\ written' = 0
            /\ finals' = [c \in Collectors |-> <<>>]
            /\ pending' = [p \in {q \in DOMAIN pending : q[1] >= nextGen} |-> pending[p]]
       ELSE UNCHANGED <<lpc, ready, runs, finals, written, pending>>
  /\ UNCHANGED <<write, slots, nextGen, stage, copies, train, kernels>>

\* The copy stream executes the next operation of an ingest.
CopyStream ==
  /\ stream # <<>>
  /\ Execute(Head(stream), buffers)
  /\ stream' = Tail(stream) /\ done' = done + 1
  /\ UNCHANGED <<rings, lpc, drain, stage, train, kernels>>

-----------------------------------------------------------------------------
(* The learner's updates, in utd_mode strict.                              *)

\* maybe_train of a single learner: an update call per full batch stepped
\* since the last ones; an empty buffer only defers them.
Due == IF /\ gstep > trained /\ CollectorSteps >= LearningStarts * NumCollectors
          /\ NumStored(ptr) > 0
         THEN gstep - trained ELSE 0

MaybeTrain ==
  /\ lpc = "train"
  /\ toTrain' = Due
  /\ trained' = IF Due > 0 THEN gstep ELSE trained
  /\ lpc' = IF Due > 0 THEN "update" ELSE "loop"
  /\ UNCHANGED <<rings, drain, stage, copies, gstep, updates, kernels>>

\* update: its sample() is enqueued behind the wait for the ingests of all
\* drains so far, and computes its window from ptr at once.
Update ==
  /\ lpc = "update"
  /\ kernels' = Append(kernels, [ptr |-> ptr, after |-> done + Len(stream)])
  /\ toTrain' = toTrain - 1
  /\ updates' = (updates + NumUpdates) % PublishInterval
  /\ lpc' = "publish"
  /\ UNCHANGED <<rings, drain, stage, copies, gstep, trained>>

\* A publish that is due waits for its own copy, so for the compute stream.
PublishSynced == updates = 0 => kernels = <<>>

\* publish_if_due.
Publish ==
  /\ lpc = "publish" /\ PublishSynced
  /\ lpc' = IF toTrain > 0 THEN "update" ELSE "loop"
  /\ UNCHANGED <<rings, drain, stage, copies, train, kernels>>

\* Mutant: the compute stream does not wait for the copies.
SampleUnwaited == kernels # <<>>

\* DrainStaging.wait: the ingests the sampling waits for have been executed.
SampleReady == kernels # <<>> /\ done >= Head(kernels).after

ComputeStream ==
  /\ SampleReady
  /\ kernels' = Tail(kernels)
  /\ UNCHANGED <<rings, lpc, drain, stage, copies, train>>

-----------------------------------------------------------------------------
Drain == \/ ScanRing \/ PopReady \/ Acquire \/ MergeGeneration \/ ReadFinals
         \/ StageRuns \/ WriteFinals \/ CommitRing

Learner == ReadProgress \/ Drain \/ MaybeTrain \/ Update \/ Publish

Next == (\E c \in Collectors : Push(c)) \/ Learner \/ CopyStream \/ ComputeStream

Spec == Init /\ [][Next]_vars

\* The learner keeps looping and its device's streams run what is enqueued;
\* the collectors owe nothing.
FairSpec == Spec /\ WF_vars(Learner) /\ WF_vars(CopyStream) /\ WF_vars(ComputeStream)

-----------------------------------------------------------------------------
Step == -1..MaxSteps

DrainTypeOK ==
  /\ write \in [Collectors -> 0..MaxSteps] /\ read \in [Collectors -> 0..MaxSteps]
  /\ slots \in [Collectors -> [Slots -> Step]]
  /\ lpc \in {"loop", "scan", "pop", "acquire", "merge", "stage", "attach",
              "train", "update", "publish"}
  /\ ring \in Collectors
  /\ DOMAIN pending \subseteq (0..MaxSteps) \X Collectors
  /\ nextGen \in 0..MaxSteps /\ ready \in 0..Budget /\ written \in 0..ready

TrainTypeOK ==
  /\ gstep \in 0..MaxSteps /\ trained \in 0..gstep /\ toTrain \in 0..gstep
  /\ updates \in 0..(PublishInterval - 1)

\* Types, and the bounds of the fixed buffers: a flush never holds more
\* generations than the pinned buffers have rows, even when shards of several
\* drains complete together, and each table row is free or owned once.
TypeOK == DrainTypeOK /\ TrainTypeOK /\ ReplayTypeOK /\ RowsPartitioned

\* With the ingests executed, the k-th batch appended is the k-th env step of
\* every collector, whatever their speeds: env trajectories stay contiguous
\* along the buffer's time axis.
ReplayAligned ==
  stream = <<>> => \A t \in Max({0, ptr - Cap})..(ptr - 1) : \A c \in Collectors :
                     StepAt(t, c) = t

\* The views waiting for assembly show the step they were added for while
\* their slots are held: proved in LearnerDrainProofs, not part of a run.
PendingViewsIntact ==
  \A p \in DOMAIN pending : p[1] >= read[p[2]] => slots[p[2]][pending[p]] = p[1]

\* Between two drains every ring's read cursor stands at the assembler's
\* next generation: the desynchronisation _ingest_runs warns about.
CursorsInLockstep ==
  lpc # "attach" /\ ready = 0 => \A c \in Collectors : read[c] = nextGen

\* Sampling the compute stream may execute now returns, for every start it
\* may have drawn, the trajectory as it was when the update was called: each
\* next observation the successor's or the step's own terminal one, nothing
\* past the newest complete step, no row an ingest or a later owner changed.
SamplesIntact ==
  SampleReady =>
    LET p == Head(kernels).ptr
    IN  \A n \in WindowSizes : \A t \in Starts(n, p) : \A c \in Collectors :
          Sampled(n, p, t, c) = Trajectory(n, p, t, c)

\* A generation all collectors have published reaches the replay buffer, and
\* it does so without any collector publishing more.
GenerationsIngested ==
  \A k \in 1..MaxSteps :
    (\A c \in Collectors : write[c] >= k) ~> (ptr >= k /\ stream = <<>>)
=============================================================================
