------------------------------- MODULE IpcRing -------------------------------
(***************************************************************************)
(* IpcTransitionRing (transport/ipc_ring.py): the transition ring whose    *)
(* slots live on a GPU both processes map.  The cursors are host stores,   *)
(* but slots are written and read by copies the host only enqueues; a      *)
(* cursor may advance only past copies whose CUDA event completed.  Four   *)
(* actors interleave: the collector, the stream of its host-to-device      *)
(* copies, the learner, and the stream of its device-to-device copies.     *)
(* Final-observation rows stay in the host store.                          *)
(***************************************************************************)
EXTENDS FinalObsStore, Sequences

CONSTANT MaxSteps    \* bound: env steps the collector takes

ASSUME MaxStepsAssumption == MaxSteps \in Nat

VARIABLES
  write,     \* RingCursors._write: published batches
  read,      \* RingCursors._read: released batches
  slots,     \* the device slots
  ppc,       \* where the collector is in step_once and push
  batch,     \* final rows of the env step being pushed
  dropped,   \* env steps whose push returned False
  wIssued,   \* _write_issued_count: batches whose copy was enqueued
  staging,   \* the single pinned staging buffer
  hDone,     \* host-to-device copies the device completed
  hBusy,     \* whether one is under way
  cpc,       \* where the learner is in its drain
  span,      \* slots of the run the learner is ingesting
  rIssued,   \* _read_issued_count: batches whose reads were committed
  rEvents,   \* _read_events: cursors waiting for their event, oldest first
  dIssued,   \* batches whose device-to-device read was enqueued
  copied,    \* transition tensors the device copied out, from batch read on
  finals,    \* final payloads the learner copied out, from batch read on
  taken      \* every batch ingested and released, in order

collector == <<ppc, batch, dropped, wIssued, staging>>
h2d       == <<hDone, hBusy>>
learner   == <<cpc, span, rIssued, rEvents, dIssued, finals>>
history   == <<copied, taken>>
vars == <<storeVars, write, read, slots, collector, h2d, learner, history>>

NoBatch == [gen |-> -1, n |-> 0]

Init ==
  /\ StoreInit
  /\ write = 0 /\ read = 0
  /\ slots = [s \in Slots |-> NoBatch]
  /\ ppc = "poll" /\ batch = 0 /\ dropped = 0
  /\ wIssued = 0 /\ staging = NoBatch
  /\ hDone = 0 /\ hBusy = FALSE
  /\ cpc = "poll" /\ span = 0
  /\ rIssued = 0 /\ rEvents = <<>> /\ dIssued = 0
  /\ copied = <<>> /\ finals = <<>> /\ taken = <<>>

-----------------------------------------------------------------------------
(* The collector.                                                          *)

\* Mutant: a push is published without waiting for its event.
WriteIssued == write < wIssued

\* _flush_writes: the oldest push that is not published has its event
\* completed.  Each push appends the next cursor value to _write_events, so
\* the deque always holds write+1 .. wIssued.
WriteCompleted == write < wIssued /\ write < hDone

\* The collector is in an is_full(): step_once's or push's.  Its loop ends
\* with its last env step, and with it the polls.
PollsRing == ppc \in {"poll", "push"} /\ wIssued + dropped < MaxSteps

\* One round of _flush_writes' loop, at the start of every is_full().
FlushWrites ==
  /\ PollsRing /\ WriteCompleted
  /\ write' = write + 1
  /\ UNCHANGED <<storeVars, read, slots, collector, h2d, learner, history>>

\* Mutant: pushes in flight are not counted.
SlotFreeOfPublished == write - read < Capacity

\* is_full() counts the batches issued, in flight or not, and reclaims final
\* rows of event-proven releases only.
SlotFree == wIssued - read < Capacity

IsFull == ~SlotFree \/ ~CanWriteRows(NumEnvs, read)

ReclaimIfSlotFree ==
  IF SlotFree THEN ReclaimRows(read) ELSE UNCHANGED producerVars

PollNotFull ==
  /\ ppc = "poll" /\ ~WriteCompleted /\ wIssued + dropped < MaxSteps
  /\ ~IsFull
  /\ ReclaimRows(read)
  /\ ppc' = "step"
  /\ UNCHANGED <<rows, metaVars, rowWrite, write, read, slots, batch, dropped,
                 wIssued, staging, h2d, learner, history>>

PollFull ==
  /\ ppc = "poll" /\ ~WriteCompleted /\ wIssued + dropped < MaxSteps
  /\ IsFull
  /\ ReclaimIfSlotFree
  /\ UNCHANGED <<rows, metaVars, rowWrite, write, read, slots, collector, h2d,
                 learner, history>>

StepEnv ==
  /\ ppc = "step"
  /\ batch' \in 0..NumEnvs
  /\ ppc' = "push"
  /\ UNCHANGED <<storeVars, write, read, slots, dropped, wIssued, staging, h2d,
                 learner, history>>

\* push: its own is_full() and can_write(); step_once ignores a refusal.
PushBegin ==
  /\ ppc = "push" /\ ~WriteCompleted
  /\ ReclaimIfSlotFree
  /\ IF ~IsFull /\ CanWriteRows(batch, read)
       THEN ppc' = "staging" /\ dropped' = dropped
       ELSE ppc' = "poll" /\ dropped' = dropped + 1
  /\ UNCHANGED <<rows, metaVars, rowWrite, write, read, slots, batch, wIssued,
                 staging, h2d, learner, history>>

\* push waits for _staging_event: the previous copy has left the staging.
StagingIdle == hDone = wIssued

PushStaging ==
  /\ ppc = "staging" /\ StagingIdle
  /\ staging' = [gen |-> wIssued, n |-> batch]
  /\ ppc' = "rows"
  /\ UNCHANGED <<storeVars, write, read, slots, batch, dropped, wIssued, h2d,
                 learner, history>>

PushRows ==
  /\ ppc = "rows"
  /\ CopyRowsIn(wIssued, batch)
  /\ ppc' = "meta"
  /\ UNCHANGED <<metaVars, rowWrite, producerVars, write, read, slots, batch,
                 dropped, wIssued, staging, h2d, learner, history>>

PushMeta ==
  /\ ppc = "meta"
  /\ RecordRows(wIssued, batch)
  /\ ppc' = "enqueue"
  /\ UNCHANGED <<rows, producerVars, write, read, slots, batch, dropped, wIssued,
                 staging, h2d, learner, history>>

\* The fused copy is enqueued and its events are recorded behind it.
PushEnqueue ==
  /\ ppc = "enqueue"
  /\ wIssued' = wIssued + 1
  /\ ppc' = "poll"
  /\ UNCHANGED <<storeVars, write, read, slots, batch, dropped, staging, h2d,
                 learner, history>>

-----------------------------------------------------------------------------
(* The collector's stream: slot <- staging, in the order enqueued.         *)

H2DBegin ==
  /\ ~hBusy /\ hDone < wIssued
  /\ hBusy' = TRUE
  /\ slots' = [slots EXCEPT ![SlotOf(hDone)] = NoBatch]
  /\ UNCHANGED <<storeVars, write, read, collector, hDone, learner, history>>

H2DEnd ==
  /\ hBusy
  /\ slots' = [slots EXCEPT ![SlotOf(hDone)] = staging]
  /\ hDone' = hDone + 1 /\ hBusy' = FALSE
  /\ UNCHANGED <<storeVars, write, read, collector, learner, history>>

-----------------------------------------------------------------------------
(* The learner.                                                            *)

\* Batches whose device-to-device copy has completed.
dDone == read + Len(copied)

ReadCompleted == rEvents # <<>> /\ Head(rEvents) <= dDone

\* One round of _flush_reads' loop, at the start of every size/read_span.
FlushReads ==
  /\ cpc = "poll" /\ ReadCompleted
  /\ LET n == Head(rEvents) - read
     IN  /\ taken' = taken \o [i \in 1..n |-> [slot |-> copied[i], final |-> finals[i]]]
         /\ copied' = SubSeq(copied, n + 1, Len(copied))
         /\ finals' = SubSeq(finals, n + 1, Len(finals))
  /\ read' = Head(rEvents)
  /\ rEvents' = Tail(rEvents)
  /\ UNCHANGED <<storeVars, write, slots, collector, h2d, cpc, span, rIssued, dIssued>>

\* read_span(): a contiguous run of published batches whose reads were not
\* issued yet; its device-to-device copies are enqueued on the stream.
ReadSpan ==
  /\ cpc = "poll" /\ ~ReadCompleted
  /\ \E k \in 1..(write - rIssued) :
        /\ k <= Capacity - SlotOf(rIssued)
        /\ span' = k
        /\ dIssued' = rIssued + k
  /\ cpc' = "finals"
  /\ UNCHANGED <<storeVars, write, read, slots, collector, h2d, rIssued, rEvents,
                 finals, history>>

\* read_final_span(): a host copy of each slot's rows.
NextFinal == read + Len(finals)

ReadFinal ==
  /\ cpc = "finals" /\ NextFinal < rIssued + span
  /\ finals' = Append(finals, PayloadAt(NextFinal))
  /\ UNCHANGED <<storeVars, write, read, slots, collector, h2d, cpc, span, rIssued,
                 rEvents, dIssued, history>>

\* commit_reads(span): an event behind the run's copies, no cursor store.
CommitReads ==
  /\ cpc = "finals" /\ NextFinal = rIssued + span
  /\ rIssued' = rIssued + span
  /\ rEvents' = Append(rEvents, rIssued + span)
  /\ cpc' = "poll" /\ span' = 0
  /\ UNCHANGED <<storeVars, write, read, slots, collector, h2d, dIssued, finals, history>>

\* The learner's stream copies the next enqueued slot out.
D2DCopy ==
  /\ dDone < dIssued
  /\ copied' = Append(copied, slots[SlotOf(dDone)])
  /\ UNCHANGED <<storeVars, write, read, slots, collector, h2d, learner, taken>>

-----------------------------------------------------------------------------
\* The collector took its last env step and no device copy is left to do.
Finished ==
  /\ ppc = "poll" /\ wIssued + dropped = MaxSteps /\ hDone = wIssued
  /\ rIssued = write /\ rEvents = <<>> /\ cpc = "poll"
  /\ UNCHANGED vars

Collector == \/ FlushWrites \/ PollNotFull \/ PollFull \/ StepEnv \/ PushBegin
             \/ PushStaging \/ PushRows \/ PushMeta \/ PushEnqueue
Device    == H2DBegin \/ H2DEnd \/ D2DCopy
Learner   == FlushReads \/ ReadSpan \/ ReadFinal \/ CommitReads

Next == Collector \/ Device \/ Learner \/ Finished

Spec == Init /\ [][Next]_vars

\* Both processes keep looping and the device executes what was enqueued.
FairSpec == /\ Spec /\ WF_vars(Collector) /\ WF_vars(Learner)
            /\ WF_vars(H2DBegin \/ H2DEnd) /\ WF_vars(D2DCopy)

-----------------------------------------------------------------------------
Item == [gen : Nat \cup {-1}, n : 0..NumEnvs]

TypeOK ==
  /\ StoreTypeOK
  /\ write \in Nat /\ read \in Nat /\ wIssued \in Nat /\ rIssued \in Nat
  /\ dIssued \in Nat /\ hDone \in Nat /\ hBusy \in BOOLEAN
  /\ slots \in [Slots -> Item] /\ staging \in Item
  /\ ppc \in {"poll", "step", "push", "staging", "rows", "meta", "enqueue"}
  /\ cpc \in {"poll", "finals"}
  /\ batch \in 0..NumEnvs /\ dropped \in Nat
  /\ span \in 0..Capacity
  /\ rEvents \in Seq(Nat) /\ copied \in Seq(Item)

\* What the device copied out of a run and what the host copied of its final
\* rows belong to the same env step, release or not: no copy under way found
\* its slot reused or the one staging buffer refilled.
IngestIntact ==
  /\ \A i \in 1..Len(copied) : copied[i].gen = read + i - 1
  /\ \A i \in 1..Len(finals) : i <= Len(copied) =>
        finals[i] = [k \in 1..copied[i].n |-> <<read + i - 1, k>>]

\* Seen through its cursors the device ring, too, is a bounded FIFO of intact
\* batches, although pushes and releases become visible late.
queueBar == [i \in 1..(write - read) |->
               [slot  |-> slots[SlotOf(read + i - 1)],
                final |-> PayloadAt(read + i - 1)]]

Fifo == INSTANCE TransitionFifo WITH queue <- queueBar

RefinesFifo == Fifo!Spec

\* Nothing but the collector's own polls publishes a batch, and behind its
\* last env step there are none: the last two pushes may stay unpublished
\* although their copies are done.  Everything before them reaches the
\* learner, so no push is refused either.
AllButLastTwoIngested == <>(Len(taken) >= MaxSteps - 2)
=============================================================================
