--------------------------- MODULE TransitionRing ---------------------------
(***************************************************************************)
(* SharedTransitionRing (transport/ring.py): the host shared-memory ring   *)
(* between one collector process and one learner process, with the         *)
(* collector's step_once as its producer and the learner's drain as its    *)
(* consumer.  The two processes share only the cursors, the slots and the  *)
(* final-row store, and take no lock: every action below is a step of one  *)
(* of them, and a slot being filled holds no batch until its last field    *)
(* is copied.                                                              *)
(***************************************************************************)
EXTENDS FinalObsStore, Sequences

CONSTANT MaxSteps    \* bound: env steps the collector takes

ASSUME MaxStepsAssumption == MaxSteps \in Nat

VARIABLES
  write,     \* RingCursors._write: published env-step batches, cumulative
  read,      \* RingCursors._read: released env-step batches, cumulative
  slots,     \* the transition tensors of each slot
  ppc,       \* where the collector is in step_once and push
  batch,     \* final rows of the env step being published
  dropped,   \* env steps whose push returned False (step_once ignores it)
  cpc,       \* where the learner is in its drain
  span,      \* slots of the run the learner is ingesting
  copied,    \* transition tensors copied out of that run so far
  finals,    \* final payloads copied out of that run so far
  taken      \* every batch ingested and acknowledged, in order

ringVars     == <<write, read, slots>>
producer     == <<ppc, batch, dropped>>
consumer     == <<cpc, span, copied, finals, taken>>
vars == <<storeVars, ringVars, producer, consumer>>

NoBatch == [gen |-> -1, n |-> 0]

Init ==
  /\ StoreInit
  /\ write = 0 /\ read = 0
  /\ slots = [s \in Slots |-> NoBatch]
  /\ ppc = "poll" /\ batch = 0 /\ dropped = 0
  /\ cpc = "poll" /\ span = 0 /\ copied = <<>> /\ finals = <<>>
  /\ taken = <<>>

-----------------------------------------------------------------------------
(* The collector.                                                          *)

Size == write - read

\* Mutants: the row check forgotten; the slot check off by one.
IsFullBySlots  == Size >= Capacity
IsFullOneLate  == Size > Capacity \/ ~CanWriteRows(NumEnvs, read)

\* is_full(): no free slot, or the worst case of NumEnvs final rows does not
\* fit.  The row check, which reclaims, runs only when a slot is free.
IsFull == Size >= Capacity \/ ~CanWriteRows(NumEnvs, read)

ReclaimIfSlotFree ==
  IF Size < Capacity THEN ReclaimRows(read) ELSE UNCHANGED producerVars

\* step_once, first lines: poll is_full() and go on only if there is room.
PollNotFull ==
  /\ ppc = "poll" /\ write + dropped < MaxSteps
  /\ ~IsFull
  /\ ReclaimRows(read)
  /\ ppc' = "step"
  /\ UNCHANGED <<rows, metaVars, rowWrite, ringVars, batch, dropped, consumer>>

\* step_once returns False: backpressure.  The poll still reclaims rows.
PollFull ==
  /\ ppc = "poll" /\ write + dropped < MaxSteps
  /\ IsFull
  /\ ReclaimIfSlotFree
  /\ UNCHANGED <<rows, metaVars, rowWrite, ringVars, producer, consumer>>

\* env.step: any number of the environments may finish their episode.
StepEnv ==
  /\ ppc = "step"
  /\ batch' \in 0..NumEnvs
  /\ ppc' = "push"
  /\ UNCHANGED <<storeVars, ringVars, dropped, consumer>>

PushHasRoom == ~IsFull /\ CanWriteRows(batch, read)

\* push starts.  When its own is_full() and can_write() pass, the first field
\* copy makes the slot's old contents unusable; otherwise it returns False,
\* which step_once ignores, and the env step is lost.
PushBegin ==
  /\ ppc = "push"
  /\ ReclaimIfSlotFree
  /\ IF PushHasRoom
       THEN /\ slots' = [slots EXCEPT ![SlotOf(write)] = NoBatch]
            /\ ppc' = "fields" /\ dropped' = dropped
       ELSE /\ dropped' = dropped + 1
            /\ ppc' = "poll" /\ slots' = slots
  /\ UNCHANGED <<rows, metaVars, rowWrite, write, read, batch, consumer>>

\* The last of the six field copies lands.
PushFields ==
  /\ ppc = "fields"
  /\ slots' = [slots EXCEPT ![SlotOf(write)] = [gen |-> write, n |-> batch]]
  /\ ppc' = "rows"
  /\ UNCHANGED <<storeVars, write, read, batch, dropped, consumer>>

PushRows ==
  /\ ppc = "rows"
  /\ CopyRowsIn(write, batch)
  /\ ppc' = "meta"
  /\ UNCHANGED <<metaVars, rowWrite, producerVars, ringVars, batch, dropped, consumer>>

PushMeta ==
  /\ ppc = "meta"
  /\ RecordRows(write, batch)
  /\ ppc' = "publish"
  /\ UNCHANGED <<rows, producerVars, ringVars, batch, dropped, consumer>>

\* The cursor store that makes the slot visible to the learner.
PushPublish ==
  /\ ppc = "publish"
  /\ write' = write + 1
  /\ ppc' = "poll"
  /\ UNCHANGED <<storeVars, read, slots, batch, dropped, consumer>>

-----------------------------------------------------------------------------
(* The learner.                                                            *)

\* read_span(): the longest contiguous unread run.  The learner ingests the
\* part of it whose generations are complete on every ring: any k of it.
ReadSpan ==
  /\ cpc = "poll" /\ Size > 0
  /\ \E k \in 1..Size : k <= Capacity - SlotOf(read) /\ span' = k
  /\ cpc' = "copy"
  /\ UNCHANGED <<storeVars, ringVars, producer, copied, finals, taken>>

\* One slot of the zero-copy views moves to the ingest side.
CopySlot ==
  /\ cpc = "copy" /\ Len(copied) < span
  /\ copied' = Append(copied, slots[SlotOf(read + Len(copied))])
  /\ UNCHANGED <<storeVars, ringVars, producer, cpc, span, finals, taken>>

\* read_final_span(): after the transitions, the payload of each slot.
ReadFinal ==
  /\ cpc = "copy" /\ Len(copied) = span /\ Len(finals) < span
  /\ finals' = Append(finals, PayloadAt(read + Len(finals)))
  /\ UNCHANGED <<storeVars, ringVars, producer, cpc, span, copied, taken>>

\* Mutant: one slot is released whatever the length of the run.
ReleaseOne == 1

Release == span

\* commit_reads(span): only now may the producer reuse the slots.
CommitReads ==
  /\ cpc = "copy" /\ Len(finals) = span
  /\ read' = read + Release
  /\ taken' = taken \o [i \in 1..span |-> [slot |-> copied[i], final |-> finals[i]]]
  /\ cpc' = "poll" /\ span' = 0 /\ copied' = <<>> /\ finals' = <<>>
  /\ UNCHANGED <<storeVars, write, slots, producer>>

-----------------------------------------------------------------------------
\* The bound MaxSteps is reached and everything published was ingested.
Finished ==
  /\ ppc = "poll" /\ write + dropped = MaxSteps /\ read = write /\ cpc = "poll"
  /\ UNCHANGED vars

Produce == \/ PollNotFull \/ PollFull \/ StepEnv \/ PushBegin
           \/ PushFields \/ PushRows \/ PushMeta \/ PushPublish

Consume == ReadSpan \/ CopySlot \/ ReadFinal \/ CommitReads

Next == Produce \/ Consume \/ Finished

Spec == Init /\ [][Next]_vars

\* Both processes loop until told to stop, so each keeps taking its steps.
FairSpec == Spec /\ WF_vars(Produce) /\ WF_vars(Consume)

-----------------------------------------------------------------------------
Item == [gen : Nat \cup {-1}, n : 0..NumEnvs]

TypeOK ==
  /\ StoreTypeOK
  /\ write \in Nat /\ read \in Nat
  /\ slots \in [Slots -> Item]
  /\ ppc \in {"poll", "step", "push", "fields", "rows", "meta", "publish"}
  /\ batch \in 0..NumEnvs /\ dropped \in Nat
  /\ cpc \in {"poll", "copy"}
  /\ span \in 0..Capacity
  /\ copied \in Seq(Item) /\ finals \in Seq(Seq(Row))

\* The slots the learner may still read.
Unread == read..(write - 1)

\* Until the learner acknowledges it, a published slot keeps the batch that
\* was pushed there, however far the collector runs ahead ("the producer can
\* never clobber a slot that is still being ingested").
NoClobber == \A g \in Unread : slots[SlotOf(g)].gen = g

\* ... and its final rows are exactly the rows of that env step's finished
\* episodes, although rows and slots wrap and are reclaimed at different rates.
FinalRowsAligned ==
  \A g \in Unread :
    PayloadAt(g) = [k \in 1..slots[SlotOf(g)].n |-> <<g, k>>]

\* "The pre-step check guarantees this step can be published": step_once
\* drops push's result, so a refused push would lose an env step.
NoStepDropped == dropped = 0

\* What the learner copied out of a run before acknowledging it is the run,
\* whatever the collector did meanwhile.
IngestIntact ==
  /\ \A i \in 1..Len(copied) : copied[i].gen = read + i - 1
  /\ \A i \in 1..Len(finals) :
        finals[i] = [k \in 1..copied[i].n |-> <<read + i - 1, k>>]

\* The ring is a bounded FIFO of intact batches.
queueBar == [i \in 1..Size |-> [slot  |-> slots[SlotOf(read + i - 1)],
                                final |-> PayloadAt(read + i - 1)]]

Fifo == INSTANCE TransitionFifo WITH queue <- queueBar

RefinesFifo == Fifo!Spec

\* Backpressure never wedges: the collector gets all its steps through and
\* the learner ingests every one of them.
AllIngested == <>(read = MaxSteps /\ Len(taken) = MaxSteps)
=============================================================================
