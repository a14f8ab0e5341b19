---------------------------- MODULE IpcRingProofs ---------------------------
(***************************************************************************)
(* Proofs about IpcRing, for every capacity and every number of            *)
(* environments: type correctness, that no step is dropped, that what the  *)
(* learner copies is what was pushed, and that the ring implements         *)
(* TransitionFifo.                                                         *)
(*                                                                         *)
(* Two cursors of the host ring are five here: a push is issued, then      *)
(* copied by the device, then published; a read is issued, then copied,    *)
(* then released.  IInv says how far apart they may be and what holds in   *)
(* between; its part about the final-row store is the host ring's.         *)
(***************************************************************************)
EXTENDS IpcRing, FinalObsStoreProofs

\* The collector is past its poll, that is, allowed to issue one push.
Admitted == ppc # "poll"

\* Publication follows the device, which follows the collector; only events
\* the device passed release slots; rows are released behind the slots.
Cursors ==
  /\ reclaimed <= read /\ read <= rIssued /\ rIssued <= write
  /\ write <= hDone /\ hDone <= wIssued
  /\ Admitted => wIssued - reclaimed < Capacity
  /\ hBusy => hDone < wIssued

\* Where the recorded slots end: metadata is recorded before the push is issued.
Recorded == IF ppc = "enqueue" THEN wIssued + 1 ELSE wIssued

RowsStored == StoreInv(Recorded)

\* An admitted collector finds room for the rows it may still add ...
RowsFit ==
  /\ ppc \in {"step", "push"} => rowWrite - rowRead + NumEnvs <= RowCapacity
  /\ ppc \in {"staging", "rows", "meta"} => rowWrite - rowRead + batch <= RowCapacity

\* ... and those it copied in are there.
RowsCopied ==
  ppc = "meta" =>
    \A k \in 1..batch : rows[CellOf(rowWrite + k - 1)] = <<wIssued, k>>

\* The staging buffer holds the push being prepared, or else the one that the
\* device has still to copy: there is one at most, and one buffer is enough.
Staged ==
  /\ ppc \in {"rows", "meta", "enqueue"} =>
       hDone = wIssued /\ staging = [gen |-> wIssued, n |-> batch]
  /\ ppc = "enqueue" => counts[SlotOf(wIssued)] = batch
  /\ hDone < wIssued =>
       /\ hDone + 1 = wIssued
       /\ staging.gen = hDone /\ staging.n = counts[SlotOf(hDone)]

\* A slot that the device has filled keeps its batch until it is released.
Landed == read..(hDone - 1)

SlotsHeld ==
  \A g \in Landed : slots[SlotOf(g)].gen = g /\ slots[SlotOf(g)].n = counts[SlotOf(g)]

\* The learner copies published slots only, the final rows of a run before it
\* commits, the transitions whenever the device gets to it.
DrainInOrder ==
  /\ dIssued = rIssued + span /\ dIssued <= write
  /\ cpc = "poll" => span = 0
  /\ cpc = "finals" => span > 0
  /\ read + Len(copied) <= dIssued /\ read + Len(finals) <= dIssued
  /\ rIssued <= read + Len(finals)

\* Events wait in the order of the cursors they release.
EventsOrdered ==
  /\ \A i \in 1..Len(rEvents) : read < rEvents[i] /\ rEvents[i] <= rIssued
  /\ \A i, j \in 1..Len(rEvents) : i < j => rEvents[i] < rEvents[j]

\* What was copied is what the slots hold, and what they should hold.
CopiesMatch ==
  \A i \in 1..Len(copied) : copied[i] = slots[SlotOf(read + i - 1)]

FinalsMatch ==
  /\ finals \in Seq(Seq(Row))
  /\ \A i \in 1..Len(finals) :
       finals[i] = [k \in 1..slots[SlotOf(read + i - 1)].n |-> <<read + i - 1, k>>]

\* No push was refused for want of a slot.
NoStepDropped == dropped = 0

StoreSide   == Cursors /\ RowsStored /\ RowsFit /\ RowsCopied
DeviceSide  == Staged /\ SlotsHeld /\ NoStepDropped
LearnerSide == DrainInOrder /\ EventsOrdered /\ CopiesMatch /\ FinalsMatch

IInv == TypeOK /\ StoreSide /\ DeviceSide /\ LearnerSide

-----------------------------------------------------------------------------
(* The types.                                                              *)

\* A payload is a sequence of rows.
LEMMA PayloadTyped ==
  ASSUME StoreTypeOK, NEW g \in Int
  PROVE  PayloadAt(g) \in Seq(Row)
<1> DEFINE s == SlotOf(g)
<1>1. s \in Slots
  BY PlacesInRange
<1>2. counts[s] \in Nat /\ starts[s] \in Nat
  BY <1>1, SizesAssumption, SMT DEF StoreTypeOK
<1>3. \A k \in 1..counts[s] : rows[CellOf(starts[s] + k - 1)] \in Row
  BY <1>2, PlacesInRange, SMT DEF StoreTypeOK
<1> HIDE DEF s
<1>4. [k \in 1..counts[s] |-> rows[CellOf(starts[s] + k - 1)]] \in Seq(Row)
  BY <1>2, <1>3, SMT
<1> QED BY <1>4 DEF PayloadAt, s

LEMMA InitTypeOK == Init => TypeOK
<1> USE SizesAssumption
<1> SUFFICES ASSUME Init PROVE TypeOK
  OBVIOUS
<1>1. NoBatch \in Item /\ NoRow \in Row
  BY SMT DEF NoBatch, NoRow, Item, Row
<1>2. StoreTypeOK
  BY <1>1, SMT DEF Init, StoreInit, StoreTypeOK
<1>3. slots \in [Slots -> Item] /\ staging \in Item
  BY <1>1 DEF Init
<1>4. copied \in Seq(Item) /\ rEvents \in Seq(Nat)
  BY SMT DEF Init
<1>5. /\ span = 0 /\ batch = 0 /\ write = 0 /\ read = 0 /\ dropped = 0
      /\ wIssued = 0 /\ rIssued = 0 /\ dIssued = 0 /\ hDone = 0
  BY DEF Init
<1>6. ppc = "poll" /\ cpc = "poll" /\ hBusy \in BOOLEAN
  BY DEF Init
<1> QED BY <1>2, <1>3, <1>4, <1>5, <1>6, SMT DEF TypeOK

\* The oldest event releases slots that were copied and read to the end.
LEMMA FlushedRun ==
  ASSUME IInv, FlushReads
  PROVE  /\ Head(rEvents) \in Nat /\ Head(rEvents) - read \in Nat \ {0}
         /\ Head(rEvents) <= rIssued /\ Head(rEvents) - read <= Len(copied)
         /\ Head(rEvents) - read <= Len(finals)
         /\ Head(rEvents) = rEvents[1] /\ Len(rEvents) \in Nat \ {0}
<1> USE DEF IInv, TypeOK
<1>1. /\ rEvents \in Seq(Nat) /\ rEvents # <<>> /\ Head(rEvents) <= read + Len(copied)
      /\ read \in Nat /\ Len(copied) \in Nat /\ Len(finals) \in Nat /\ rIssued \in Nat
  BY LenProperties DEF FlushReads, ReadCompleted, dDone, LearnerSide, FinalsMatch
<1>2. Head(rEvents) = rEvents[1] /\ Len(rEvents) \in Nat \ {0} /\ Head(rEvents) \in Nat
  BY <1>1, EmptySeq, HeadTailProperties, LenProperties, SMT
<1>3. 1 \in 1..Len(rEvents)
  BY <1>2, SMT
<1>4. read < rEvents[1] /\ rEvents[1] <= rIssued
  BY <1>3 DEF LearnerSide, EventsOrdered
<1>5. rIssued <= read + Len(finals)
  BY DEF LearnerSide, DrainInOrder
<1> QED BY <1>1, <1>2, <1>4, <1>5, SMTT(30)

LEMMA TypeStep == IInv /\ [Next]_vars => TypeOK'
<1> USE SizesAssumption
<1> SUFFICES ASSUME IInv, TypeOK, [Next]_vars PROVE TypeOK'
  BY DEF IInv
<1>1. ASSUME NEW ack \in Nat, ReclaimRows(ack), UNCHANGED <<rows, metaVars, rowWrite>>
      PROVE  StoreTypeOK'
  <2>1. RowReadAfter(ack) \in Nat
    BY PlacesInRange, SMT DEF RowReadAfter, TypeOK, StoreTypeOK
  <2> QED BY <1>1, <2>1, SMT DEF ReclaimRows, metaVars, TypeOK, StoreTypeOK
<1>2. ASSUME UNCHANGED storeVars PROVE StoreTypeOK'
  BY <1>2 DEF storeVars, TypeOK, StoreTypeOK
<1>3. \A a \in Int : SlotOf(a) \in Slots
  BY PlacesInRange
<1>4. CASE PollNotFull
  BY <1>1, <1>4, SMT DEF PollNotFull, learner, history, h2d, TypeOK
<1>5. CASE PollFull
  <2>1. StoreTypeOK'
    BY <1>1, <1>2, <1>5 DEF PollFull, ReclaimIfSlotFree, TypeOK, storeVars, metaVars, producerVars
  <2> QED BY <1>5, <2>1 DEF PollFull, collector, learner, history, h2d, TypeOK
<1>6. CASE StepEnv
  BY <1>2, <1>6 DEF StepEnv, learner, history, h2d, TypeOK
<1>7. CASE PushBegin
  <2>1. StoreTypeOK'
    BY <1>1, <1>2, <1>7 DEF PushBegin, ReclaimIfSlotFree, TypeOK, storeVars, metaVars, producerVars
  <2>2. dropped' \in Nat /\ ppc' \in {"poll", "staging"}
    BY <1>7, SMT DEF PushBegin, TypeOK
  <2> QED BY <1>7, <2>1, <2>2 DEF PushBegin, learner, history, h2d, TypeOK
<1>8. CASE PushStaging
  <2>1. staging' \in Item
    BY <1>8 DEF PushStaging, TypeOK, Item
  <2> QED BY <1>2, <1>8, <2>1 DEF PushStaging, learner, history, h2d, TypeOK
<1>9. CASE PushRows
  <2>1. rows' \in [RowCells -> Row]
    BY <1>9, CopyTypeOK DEF PushRows, TypeOK
  <2>2. StoreTypeOK'
    BY <1>9, <2>1 DEF PushRows, metaVars, producerVars, TypeOK, StoreTypeOK
  <2> QED BY <1>9, <2>2 DEF PushRows, learner, history, h2d, TypeOK
<1>10. CASE PushMeta
  <2>1. rowWrite + batch \in Nat
    BY SMT DEF TypeOK, StoreTypeOK
  <2>2. StoreTypeOK'
    BY <1>10, <2>1 DEF PushMeta, RecordRows, producerVars, TypeOK, StoreTypeOK
  <2> QED BY <1>10, <2>2 DEF PushMeta, learner, history, h2d, TypeOK
<1>11. CASE PushEnqueue
  BY <1>2, <1>11, SMT DEF PushEnqueue, learner, history, h2d, TypeOK
<1>12. CASE FlushWrites
  BY <1>2, <1>12, SMT DEF FlushWrites, collector, learner, history, h2d, TypeOK
<1>13. CASE H2DBegin
  <2>1. slots' \in [Slots -> Item]
    <3>1. NoBatch \in Item
      BY SMT DEF NoBatch, Item
    <3> QED BY <1>13, <3>1 DEF H2DBegin, TypeOK
  <2> QED BY <1>2, <1>13, <2>1 DEF H2DBegin, collector, learner, history, TypeOK
<1>14. CASE H2DEnd
  <2>1. slots' \in [Slots -> Item]
    BY <1>14 DEF H2DEnd, TypeOK
  <2>2. hDone' \in Nat
    BY <1>14, SMT DEF H2DEnd, TypeOK
  <2>3. hBusy' = FALSE
    BY <1>14 DEF H2DEnd
  <2> QED BY <1>2, <1>14, <2>1, <2>2, <2>3 DEF H2DEnd, collector, learner, history, TypeOK
<1>15. CASE D2DCopy
  <2>1. slots[SlotOf(dDone)] \in Item
    BY <1>3, LenProperties, SMT DEF TypeOK, dDone
  <2>2. copied' \in Seq(Item)
    BY <1>15, <2>1, AppendProperties DEF D2DCopy, TypeOK
  <2> QED BY <1>2, <1>15, <2>2 DEF D2DCopy, collector, learner, h2d, TypeOK
<1>16. CASE FlushReads
  <2> DEFINE n == Head(rEvents) - read
  <2>1. Head(rEvents) \in Nat /\ n \in Nat /\ rEvents # <<>>
    BY <1>16, FlushedRun DEF FlushReads, ReadCompleted
  <2>2. rEvents' \in Seq(Nat)
    BY <1>16, <2>1, HeadTailProperties DEF FlushReads, TypeOK
  <2>3. copied' \in Seq(Item)
    <3>1. Len(copied) \in Nat /\ copied \in Seq(Item)
      BY LenProperties DEF TypeOK
    <3>2. n + 1 \in Int /\ Len(copied) \in Int
      BY <2>1, <3>1, SMT
    <3>3. \A i \in (n + 1)..Len(copied) : i \in 1..Len(copied)
      BY <2>1, <3>1, SMT
    <3>4. \A i \in (n + 1)..Len(copied) : copied[i] \in Item
      BY <3>1, <3>3, ElementOfSeq
    <3>5. copied' = SubSeq(copied, n + 1, Len(copied))
      BY <1>16 DEF FlushReads
    <3> HIDE DEF n
    <3> QED BY <3>2, <3>4, <3>5, SubSeqProperties
  <2>4. read' \in Nat
    BY <1>16, <2>1 DEF FlushReads
  <2> QED BY <1>2, <1>16, <2>2, <2>3, <2>4 DEF FlushReads, collector, h2d, TypeOK
<1>17. CASE ReadSpan
  <2>1. PICK k \in 1..(write - rIssued) :
               k <= Capacity - SlotOf(rIssued) /\ span' = k /\ dIssued' = rIssued + k
    BY <1>17 DEF ReadSpan
  <2>2. k \in Nat /\ SlotOf(rIssued) \in Slots
    BY <1>3, SMT DEF TypeOK
  <2>3. span' \in 0..Capacity /\ dIssued' \in Nat
    BY <2>1, <2>2, SMT DEF Slots, TypeOK
  <2> QED BY <1>2, <1>17, <2>3 DEF ReadSpan, collector, history, h2d, TypeOK
<1>18. CASE ReadFinal
  BY <1>2, <1>18 DEF ReadFinal, collector, history, h2d, TypeOK
<1>19. CASE CommitReads
  <2>1. rIssued + span \in Nat
    BY SMT DEF TypeOK
  <2>2. rEvents' \in Seq(Nat)
    BY <1>19, <2>1, AppendProperties DEF CommitReads, TypeOK
  <2> QED BY <1>2, <1>19, <2>1, <2>2, SMT DEF CommitReads, collector, history, h2d, TypeOK
<1>20. CASE UNCHANGED vars
  BY <1>2, <1>20 DEF vars, collector, learner, history, h2d, TypeOK
<1> QED BY <1>4, <1>5, <1>6, <1>7, <1>8, <1>9, <1>10, <1>11, <1>12, <1>13, <1>14, <1>15,
           <1>16, <1>17, <1>18, <1>19, <1>20 DEF Next, Collector, Device, Learner, Finished

-----------------------------------------------------------------------------
(* The store.                                                              *)

\* What a poll of is_full() does to the store when it reclaims.
LEMMA ReclaimStep ==
  ASSUME TypeOK, Cursors, NEW hi \in Nat, hi = wIssued, StoreInv(hi),
         ReclaimRows(read), UNCHANGED <<rows, metaVars, rowWrite>>
  PROVE  /\ StoreInv(hi)' /\ reclaimed' = read
         /\ rowRead' = RowReadAfter(read) /\ rowRead <= rowRead'
<1>1. PICK ack \in Nat : ack = read
  BY DEF TypeOK
<1>2. ack <= hi /\ ReclaimRows(ack) /\ UNCHANGED <<rows, starts, counts, ends, rowWrite>>
  BY <1>1 DEF Cursors, metaVars, TypeOK
<1>3. /\ StoreInv(hi)'
      /\ rowRead' = RowReadAfter(ack) /\ rowRead <= rowRead'
  BY <1>2, ReclaimKeepsStore
<1>4. reclaimed' = read
  BY SMT DEF ReclaimRows, Cursors, TypeOK, StoreTypeOK
<1> QED BY <1>1, <1>3, <1>4

\* The pre-step check is still good when push repeats it.
LEMMA PushNeverRefused ==
  ASSUME IInv, PushBegin
  PROVE  /\ ~IsFull /\ CanWriteRows(batch, read) /\ SlotFree
         /\ StoreInv(wIssued)' /\ reclaimed' = read /\ rowRead' = RowReadAfter(read)
<1> USE DEF IInv, StoreSide
<1>1. /\ Capacity \in Nat /\ NumEnvs \in Nat /\ RowCapacity \in Nat
      /\ wIssued \in Nat /\ read \in Nat /\ batch \in 0..NumEnvs
      /\ rowWrite \in Nat /\ rowRead \in Nat /\ reclaimed \in Nat
  BY SizesAssumption, SMT DEF TypeOK, StoreTypeOK, RowCapacity
<1>2. PICK hi \in Nat : hi = wIssued
  BY <1>1
<1>3. ppc = "push" /\ SlotFree /\ wIssued' = wIssued
  BY <1>1, SMT DEF PushBegin, Cursors, Admitted, SlotFree
<1>4. StoreInv(hi)
  BY <1>2, <1>3 DEF RowsStored, Recorded, StoreInv
<1>5. ReclaimRows(read) /\ UNCHANGED <<rows, metaVars, rowWrite>>
  BY <1>3 DEF PushBegin, ReclaimIfSlotFree
<1>6. /\ rowRead' = RowReadAfter(read) /\ rowRead <= rowRead' /\ StoreInv(hi)' /\ reclaimed' = read
  BY <1>2, <1>4, <1>5, ReclaimStep
<1>7. RowReadAfter(read) \in Nat /\ rowRead <= RowReadAfter(read)
  BY <1>6 DEF StoreInv, StoreTypeOK
<1>8. rowWrite - rowRead + NumEnvs <= RowCapacity
  BY <1>3 DEF RowsFit
<1>9. /\ rowWrite - RowReadAfter(read) + NumEnvs <= RowCapacity
      /\ rowWrite - RowReadAfter(read) + batch <= RowCapacity
  BY <1>1, <1>7, <1>8, SMT
<1>10. StoreInv(wIssued)'
  BY <1>2, <1>3, <1>6 DEF StoreInv
<1> QED BY <1>3, <1>6, <1>9, <1>10 DEF IsFull, CanWriteRows

\* Every step keeps the cursors in order and the rows of unreleased slots in
\* the store.
LEMMA StoreStep ==
  ASSUME IInv, [Next]_vars
  PROVE  StoreSide'
<1> USE DEF IInv, StoreSide
<1>1. /\ Capacity \in Nat /\ NumEnvs \in Nat /\ RowCapacity \in Nat
      /\ write \in Nat /\ read \in Nat /\ wIssued \in Nat /\ rIssued \in Nat /\ hDone \in Nat
      /\ batch \in 0..NumEnvs /\ span \in Nat
      /\ rowWrite \in Nat /\ rowRead \in Nat /\ reclaimed \in Nat
  BY SizesAssumption, SMT DEF TypeOK, StoreTypeOK, RowCapacity
<1>2. PICK hi \in Nat : hi = wIssued
  BY <1>1
<1>3. PICK n \in 0..NumEnvs : n = batch
  BY <1>1
<1>4. ppc # "enqueue" => StoreInv(hi)
  BY <1>2 DEF RowsStored, Recorded, StoreInv
<1> DEFINE Still == UNCHANGED <<write, read, rIssued, hDone, hBusy, wIssued>>
<1>5. CASE PollNotFull
  <2>1. /\ StoreInv(hi)' /\ reclaimed' = read /\ rowRead' = RowReadAfter(read)
    BY <1>2, <1>4, <1>5, ReclaimStep DEF PollNotFull
  <2>2. /\ ppc' = "step" /\ Still /\ rowWrite' = rowWrite
        /\ wIssued - read < Capacity /\ rowWrite - RowReadAfter(read) + NumEnvs <= RowCapacity
    BY <1>1, <1>5, SMT DEF PollNotFull, IsFull, SlotFree, CanWriteRows, h2d, learner
  <2>3. RowsStored'
    BY <1>2, <2>1, <2>2 DEF RowsStored, Recorded, StoreInv
  <2>4. Cursors' /\ RowsFit' /\ RowsCopied'
    BY <1>1, <2>1, <2>2, SMT DEF Cursors, Admitted, RowsFit, RowsCopied
  <2> QED BY <2>3, <2>4
<1>6. CASE PollFull
  <2>1. /\ StoreInv(hi)' /\ (reclaimed' = read \/ reclaimed' = reclaimed)
    <3>1. CASE SlotFree
      BY <1>2, <1>4, <1>6, <3>1, ReclaimStep DEF PollFull, ReclaimIfSlotFree
    <3>2. CASE ~SlotFree
      BY <1>4, <1>6, <3>2, StoreUntouched
         DEF PollFull, ReclaimIfSlotFree, storeVars, metaVars, producerVars
    <3> QED BY <3>1, <3>2
  <2>2. /\ ppc' = "poll" /\ Still
    BY <1>6 DEF PollFull, collector, h2d, learner
  <2>3. RowsStored'
    BY <1>2, <2>1, <2>2 DEF RowsStored, Recorded, StoreInv
  <2>4. Cursors' /\ RowsFit' /\ RowsCopied'
    BY <1>1, <2>1, <2>2, SMT DEF Cursors, Admitted, RowsFit, RowsCopied
  <2> QED BY <2>3, <2>4
<1>7. CASE StepEnv \/ PushStaging
  <2>1. /\ \/ ppc = "step" /\ ppc' = "push"
           \/ ppc = "staging" /\ ppc' = "rows" /\ batch' = batch
        /\ Still /\ UNCHANGED storeVars
    BY <1>7 DEF StepEnv, PushStaging, h2d, learner
  <2>2. RowsStored'
    BY <1>2, <1>4, <2>1, StoreUntouched DEF RowsStored, Recorded, StoreInv
  <2>3. Cursors' /\ RowsFit' /\ RowsCopied'
    BY <2>1 DEF Cursors, Admitted, RowsFit, RowsCopied, storeVars
  <2> QED BY <2>2, <2>3
<1>8. CASE PushBegin
  <2>1. /\ ~IsFull /\ CanWriteRows(batch, read) /\ SlotFree
        /\ StoreInv(wIssued)' /\ reclaimed' = read /\ rowRead' = RowReadAfter(read)
    BY <1>8, PushNeverRefused
  <2>2. /\ ppc' = "staging" /\ Still /\ batch' = batch /\ rowWrite' = rowWrite
    BY <1>8, <2>1 DEF PushBegin, h2d, learner
  <2>3. RowsStored'
    BY <2>1, <2>2 DEF RowsStored, Recorded, StoreInv
  <2>4. rowWrite - RowReadAfter(read) + batch <= RowCapacity /\ wIssued - read < Capacity
    BY <2>1 DEF CanWriteRows, SlotFree
  <2>5. Cursors' /\ RowsFit' /\ RowsCopied'
    BY <1>1, <2>1, <2>2, <2>4, SMT DEF Cursors, Admitted, RowsFit, RowsCopied
  <2> QED BY <2>3, <2>5
<1>9. CASE PushRows
  <2>1. /\ ppc = "rows" /\ ppc' = "meta" /\ Still
        /\ batch' = batch /\ CopyRowsIn(hi, n)
        /\ UNCHANGED <<starts, counts, ends, rowWrite, rowRead, reclaimed>>
    BY <1>2, <1>3, <1>9 DEF PushRows, metaVars, producerVars, h2d, learner
  <2>2. rowWrite - rowRead + n <= RowCapacity
    BY <1>3, <2>1 DEF RowsFit
  <2>3. StoreInv(hi)'
    BY <1>4, <2>1, <2>2, CopyKeepsStore
  <2>4. \A k \in 1..n : rows'[CellOf(rowWrite + k - 1)] = <<hi, k>>
    BY <2>1, CopiedRowsArrive DEF TypeOK
  <2>5. RowsStored' /\ RowsCopied'
    BY <1>2, <1>3, <2>1, <2>3, <2>4 DEF RowsStored, Recorded, StoreInv, RowsCopied
  <2>6. Cursors' /\ RowsFit'
    BY <2>1 DEF Cursors, Admitted, RowsFit
  <2> QED BY <2>5, <2>6
<1>10. CASE PushMeta
  <2>1. /\ ppc = "meta" /\ ppc' = "enqueue" /\ Still
        /\ RecordRows(hi, n) /\ UNCHANGED <<rows, rowRead, reclaimed>>
    BY <1>2, <1>3, <1>10 DEF PushMeta, producerVars, h2d, learner
  <2>2. /\ hi - reclaimed < Capacity /\ rowWrite - rowRead + n <= RowCapacity
        /\ \A k \in 1..n : rows[CellOf(rowWrite + k - 1)] = <<hi, k>>
    BY <1>2, <1>3, <2>1 DEF Cursors, Admitted, RowsFit, RowsCopied
  <2>3. StoreInv(hi + 1)'
    BY <1>4, <2>1, <2>2, RecordKeepsStore
  <2>4. RowsStored'
    BY <1>2, <2>1, <2>3 DEF RowsStored, Recorded, StoreInv
  <2>5. Cursors' /\ RowsFit' /\ RowsCopied'
    BY <2>1 DEF Cursors, Admitted, RowsFit, RowsCopied
  <2> QED BY <2>4, <2>5
<1>11. CASE PushEnqueue
  <2>1. /\ ppc = "enqueue" /\ ppc' = "poll" /\ wIssued' = wIssued + 1
        /\ UNCHANGED <<read, write, rIssued, hDone, hBusy>> /\ UNCHANGED storeVars
    BY <1>11 DEF PushEnqueue, h2d, learner
  <2>2. hi + 1 \in Nat /\ StoreInv(hi + 1)
    BY <1>2, <2>1, SMT DEF RowsStored, Recorded, StoreInv
  <2>3. StoreInv(hi + 1)'
    BY <2>1, <2>2, StoreUntouched
  <2>4. RowsStored'
    BY <1>2, <2>1, <2>3 DEF RowsStored, Recorded, StoreInv
  <2>5. Cursors' /\ RowsFit' /\ RowsCopied'
    BY <1>1, <2>1, SMT DEF Cursors, Admitted, RowsFit, RowsCopied, storeVars
  <2> QED BY <2>4, <2>5
<1>12. CASE FlushWrites \/ Device \/ Learner \/ UNCHANGED vars
  <2>1. /\ UNCHANGED <<ppc, batch, wIssued>> /\ UNCHANGED storeVars
    BY <1>12 DEF FlushWrites, Device, H2DBegin, H2DEnd, D2DCopy, Learner, FlushReads, ReadSpan,
       ReadFinal, CommitReads, collector, vars
  <2>2. RowsStored'
    <3>1. PICK to \in Nat : to = Recorded
      BY <1>1, SMT DEF Recorded
    <3>2. StoreInv(to) /\ to = Recorded'
      BY <2>1, <3>1 DEF RowsStored, Recorded, StoreInv
    <3>3. StoreInv(to)'
      BY <2>1, <3>2, StoreUntouched
    <3> QED BY <3>2, <3>3 DEF RowsStored, StoreInv
  <2>3. Cursors'
    <3>1. reclaimed' = reclaimed
      BY <2>1 DEF storeVars
    <3>2. CASE FlushWrites
      <4>1. write' = write + 1 /\ write < hDone /\ UNCHANGED <<read, rIssued, hDone, hBusy>>
        BY <3>2 DEF FlushWrites, WriteCompleted, h2d, learner
      <4> QED BY <1>1, <2>1, <3>1, <4>1, SMT DEF Cursors, Admitted
    <3>3. CASE H2DBegin
      <4>1. hDone < wIssued /\ UNCHANGED <<read, write, rIssued, hDone>>
        BY <3>3 DEF H2DBegin, learner
      <4> QED BY <1>1, <2>1, <3>1, <4>1, SMT DEF Cursors, Admitted
    <3>4. CASE H2DEnd
      <4>1. hBusy /\ ~hBusy' /\ hDone' = hDone + 1 /\ UNCHANGED <<read, write, rIssued>>
        BY <3>4 DEF H2DEnd, learner
      <4> QED BY <1>1, <2>1, <3>1, <4>1, SMT DEF Cursors, Admitted
    <3>5. CASE FlushReads
      <4>1. /\ read' \in Nat /\ read <= read' /\ read' <= rIssued
        BY <1>1, <3>5, FlushedRun, SMT DEF FlushReads
      <4>2. UNCHANGED <<write, rIssued, hDone, hBusy>>
        BY <3>5 DEF FlushReads, h2d
      <4> QED BY <1>1, <2>1, <3>1, <4>1, <4>2, SMT DEF Cursors, Admitted
    <3>6. CASE CommitReads
      <4>1. rIssued' = rIssued + span /\ UNCHANGED <<read, write, hDone, hBusy>>
        BY <3>6 DEF CommitReads, h2d
      <4>2. rIssued + span <= write
        BY DEF LearnerSide, DrainInOrder
      <4> QED BY <1>1, <2>1, <3>1, <4>1, <4>2, SMT DEF Cursors, Admitted
    <3>7. CASE ReadSpan \/ ReadFinal \/ D2DCopy \/ UNCHANGED vars
      <4>1. UNCHANGED <<read, write, rIssued, hDone, hBusy>>
        BY <3>7 DEF ReadSpan, ReadFinal, D2DCopy, vars, h2d, learner
      <4> QED BY <2>1, <3>1, <4>1 DEF Cursors, Admitted
    <3> QED BY <1>12, <3>2, <3>3, <3>4, <3>5, <3>6, <3>7 DEF Device, Learner
  <2>4. RowsFit' /\ RowsCopied'
    BY <2>1 DEF RowsFit, RowsCopied, storeVars
  <2> QED BY <2>2, <2>3, <2>4
<1> QED BY <1>5, <1>6, <1>7, <1>8, <1>9, <1>10, <1>11, <1>12
        DEF Next, Collector, Finished

-----------------------------------------------------------------------------
(* The slots.                                                              *)

\* The slot that the device fills next is none of those that hold a batch.
LEMMA LandedApart ==
  ASSUME TypeOK, StoreSide, NEW g \in Landed
  PROVE  /\ g \in Nat /\ g < hDone /\ SlotOf(g) \in Slots
         /\ g \in reclaimed..(wIssued - 1)
         /\ hDone < wIssued => SlotOf(g) # SlotOf(hDone)
<1>1. /\ hDone \in Nat /\ read \in Nat /\ wIssued \in Nat /\ reclaimed \in Nat /\ Capacity \in Nat
      /\ reclaimed <= read /\ hDone <= wIssued
  BY SizesAssumption, SMT DEF TypeOK, StoreTypeOK, StoreSide, Cursors
<1>2. /\ g \in Nat /\ g < hDone /\ read <= g /\ g \in reclaimed..(wIssued - 1)
  BY <1>1, SMT DEF Landed
<1>3. wIssued - reclaimed <= Capacity
  BY <1>1, SMT DEF StoreSide, RowsStored, StoreInv, Recorded
<1>4. SlotOf(g) \in Slots
  BY <1>2, PlacesInRange
<1>5. hDone < wIssued => hDone - g < Capacity
  BY <1>1, <1>2, <1>3, SMT
<1>6. hDone < wIssued => SlotOf(g) # SlotOf(hDone)
  BY <1>1, <1>2, <1>5, SlotsDistinct
<1> QED BY <1>2, <1>4, <1>6

\* No step touches a slot that holds a batch, nor its number of rows.
LEMMA LandedKept ==
  ASSUME IInv, [Next]_vars, NEW g \in Landed
  PROVE  /\ slots'[SlotOf(g)] = slots[SlotOf(g)]
         /\ counts'[SlotOf(g)] = counts[SlotOf(g)]
<1> USE DEF IInv
<1>1. /\ g \in Nat /\ SlotOf(g) \in Slots /\ g \in reclaimed..(wIssued - 1)
      /\ hDone < wIssued => SlotOf(g) # SlotOf(hDone)
  BY LandedApart
<1>2. CASE H2DBegin \/ H2DEnd
  <2>1. /\ hDone < wIssued /\ counts' = counts
        /\ \E b : slots' = [slots EXCEPT ![SlotOf(hDone)] = b]
    BY <1>2 DEF H2DBegin, H2DEnd, StoreSide, Cursors, storeVars
  <2> QED BY <1>1, <2>1 DEF TypeOK
<1>3. CASE PushMeta
  <2>1. PICK hi \in Nat, n \in 0..NumEnvs : hi = wIssued /\ n = batch
    BY DEF TypeOK
  <2>2. /\ ppc = "meta" /\ slots' = slots
        /\ RecordRows(hi, n) /\ UNCHANGED <<rows, rowRead, reclaimed>>
    BY <1>3, <2>1 DEF PushMeta, producerVars
  <2>3. /\ StoreInv(hi) /\ hi - reclaimed < Capacity /\ rowWrite - rowRead + n <= RowCapacity
        /\ \A k \in 1..n : rows[CellOf(rowWrite + k - 1)] = <<hi, k>>
    BY <2>1, <2>2
       DEF StoreSide, Cursors, Admitted, RowsFit, RowsCopied, RowsStored, Recorded, StoreInv
  <2>4. \A h \in reclaimed..(hi - 1) : counts'[SlotOf(h)] = counts[SlotOf(h)]
    BY <2>2, <2>3, RecordKeepsStore
  <2> QED BY <1>1, <2>1, <2>2, <2>4
<1>4. CASE ~(H2DBegin \/ H2DEnd \/ PushMeta)
  <2>1. slots' = slots /\ counts' = counts
    BY <1>4 DEF Next, Collector, FlushWrites, PollNotFull, PollFull, StepEnv, PushBegin, PushStaging,
       PushRows, PushEnqueue, Device, D2DCopy, Learner, FlushReads, ReadSpan, ReadFinal, CommitReads,
       Finished, vars, storeVars, metaVars
  <2> QED BY <2>1
<1> QED BY <1>2, <1>3, <1>4

\* Every step keeps the slots that hold a batch, and the one staging buffer
\* until the device has read it, and loses no env step.
LEMMA DeviceStep ==
  ASSUME IInv, [Next]_vars
  PROVE  DeviceSide'
<1> USE DEF IInv, DeviceSide
<1>1. /\ wIssued \in Nat /\ hDone \in Nat /\ read \in Nat /\ batch \in 0..NumEnvs
      /\ hDone <= wIssued /\ SlotOf(hDone) \in Slots
  BY PlacesInRange, SMT DEF TypeOK, StoreSide, Cursors
<1>2. \A g \in Landed : /\ slots'[SlotOf(g)] = slots[SlotOf(g)]
                        /\ counts'[SlotOf(g)] = counts[SlotOf(g)]
  BY LandedKept
<1>3. ASSUME hDone' = hDone, read' \in Nat, read <= read'  PROVE SlotsHeld'
  <2>1. \A g \in Landed' : g \in Landed
    BY <1>1, <1>3, SMT DEF Landed
  <2> QED BY <1>2, <2>1 DEF SlotsHeld
<1>4. CASE PollNotFull \/ PollFull \/ StepEnv \/ FlushWrites
  <2>1. /\ UNCHANGED <<staging, counts, wIssued, hDone, read, dropped>>
        /\ ppc' \in {"poll", "step", "push"}
    BY <1>4 DEF PollNotFull, PollFull, StepEnv, FlushWrites, PollsRing, metaVars, collector, h2d, storeVars
  <2>2. Staged'
    BY <2>1 DEF Staged
  <2> QED BY <1>1, <1>3, <2>1, <2>2, SMT DEF NoStepDropped
<1>5. CASE PushBegin
  <2>1. /\ UNCHANGED <<staging, counts, wIssued, hDone, read, dropped>> /\ ppc' = "staging"
    BY <1>5, PushNeverRefused DEF PushBegin, metaVars, h2d
  <2>2. Staged'
    BY <2>1 DEF Staged
  <2> QED BY <1>1, <1>3, <2>1, <2>2, SMT DEF NoStepDropped
<1>6. CASE PushStaging
  <2>1. /\ UNCHANGED <<counts, wIssued, hDone, read, dropped, batch>> /\ ppc' = "rows"
        /\ hDone = wIssued /\ staging' = [gen |-> wIssued, n |-> batch]
    BY <1>6 DEF PushStaging, StagingIdle, h2d, storeVars
  <2>2. Staged'
    BY <1>1, <2>1 DEF Staged
  <2> QED BY <1>1, <1>3, <2>1, <2>2, SMT DEF NoStepDropped
<1>7. CASE PushRows
  <2>1. /\ UNCHANGED <<staging, counts, wIssued, hDone, read, dropped, batch>>
        /\ ppc = "rows" /\ ppc' = "meta"
    BY <1>7 DEF PushRows, metaVars, h2d
  <2>2. Staged'
    BY <2>1 DEF Staged
  <2> QED BY <1>1, <1>3, <2>1, <2>2, SMT DEF NoStepDropped
<1>8. CASE PushMeta
  <2>1. /\ UNCHANGED <<staging, wIssued, hDone, read, dropped, batch>>
        /\ ppc = "meta" /\ ppc' = "enqueue"
        /\ counts' = [counts EXCEPT ![SlotOf(wIssued)] = batch]
    BY <1>8 DEF PushMeta, RecordRows, h2d
  <2>2. hDone = wIssued /\ staging = [gen |-> wIssued, n |-> batch]
    BY <2>1 DEF Staged
  <2>3. counts'[SlotOf(wIssued)] = batch
    BY <1>1, <2>1, <2>2 DEF TypeOK, StoreTypeOK
  <2>4. Staged'
    BY <1>1, <2>1, <2>2, <2>3 DEF Staged
  <2> QED BY <1>1, <1>3, <2>1, <2>4, SMT DEF NoStepDropped
<1>9. CASE PushEnqueue
  <2>1. /\ UNCHANGED <<staging, counts, hDone, read, dropped, batch>>
        /\ ppc = "enqueue" /\ ppc' = "poll" /\ wIssued' = wIssued + 1
    BY <1>9 DEF PushEnqueue, h2d, storeVars
  <2>2. /\ hDone = wIssued /\ staging = [gen |-> wIssued, n |-> batch]
        /\ counts[SlotOf(wIssued)] = batch
    BY <2>1 DEF Staged
  <2>3. Staged'
    BY <1>1, <2>1, <2>2 DEF Staged
  <2> QED BY <1>1, <1>3, <2>1, <2>3, SMT DEF NoStepDropped
<1>10. CASE H2DEnd
  <2>1. /\ UNCHANGED <<staging, counts, wIssued, read, dropped, batch, ppc>>
        /\ hDone < wIssued /\ hDone' = hDone + 1
        /\ slots' = [slots EXCEPT ![SlotOf(hDone)] = staging]
    BY <1>10 DEF H2DEnd, collector, storeVars, StoreSide, Cursors
  <2>2. hDone + 1 = wIssued /\ staging.gen = hDone /\ staging.n = counts[SlotOf(hDone)]
        /\ ppc \notin {"rows", "meta", "enqueue"}
    BY <1>1, <2>1, SMT DEF Staged
  <2>3. slots'[SlotOf(hDone)] = staging
    BY <1>1, <2>1 DEF TypeOK
  <2>4. \A g \in Landed' : g \in Landed \/ g = hDone
    BY <1>1, <2>1, SMT DEF Landed
  <2>5. SlotsHeld'
    BY <1>2, <2>1, <2>2, <2>3, <2>4 DEF SlotsHeld
  <2>6. Staged'
    BY <1>1, <2>1, <2>2, SMT DEF Staged
  <2> QED BY <2>1, <2>5, <2>6 DEF NoStepDropped
<1>11. CASE H2DBegin \/ D2DCopy \/ Learner \/ UNCHANGED vars
  <2>1. UNCHANGED <<staging, counts, wIssued, hDone, dropped, batch, ppc>>
    BY <1>11 DEF H2DBegin, D2DCopy, Learner, FlushReads, ReadSpan, ReadFinal, CommitReads, vars,
       collector, h2d, storeVars
  <2>2. read' \in Nat /\ read <= read'
    <3>1. CASE FlushReads
      BY <1>1, <3>1, FlushedRun, SMT DEF FlushReads
    <3>2. CASE ~FlushReads
      BY <1>1, <1>11, <3>2, SMT DEF H2DBegin, D2DCopy, Learner, ReadSpan, ReadFinal, CommitReads, vars
    <3> QED BY <3>1, <3>2
  <2>3. Staged'
    BY <2>1 DEF Staged
  <2> QED BY <1>3, <2>1, <2>2, <2>3 DEF NoStepDropped
<1> QED BY <1>4, <1>5, <1>6, <1>7, <1>8, <1>9, <1>10, <1>11
        DEF Next, Collector, Device, Finished

-----------------------------------------------------------------------------
(* The learner.                                                            *)

\* The rows of a slot that holds a batch are those of its own episodes.
LEMMA PayloadIntact ==
  ASSUME IInv, NEW g \in Landed
  PROVE  PayloadAt(g) = [k \in 1..slots[SlotOf(g)].n |-> <<g, k>>]
<1>1. g \in Nat /\ g \in reclaimed..(wIssued - 1)
  BY LandedApart DEF IInv
<1>2. g \in reclaimed..(Recorded - 1)
  BY <1>1, SMT DEF Recorded, IInv, TypeOK, StoreTypeOK
<1>3. RowsHeld(g) /\ counts[SlotOf(g)] = slots[SlotOf(g)].n
  BY <1>2 DEF IInv, StoreSide, DeviceSide, RowsStored, StoreInv, SlotsHeld
<1> QED BY <1>3 DEF PayloadAt, RowsHeld

\* A release moves every position by the length of the run.
LEMMA FlushKeepsLearner ==
  ASSUME IInv, FlushReads
  PROVE  LearnerSide'
<1> USE DEF IInv, LearnerSide
<1> DEFINE n == Head(rEvents) - read
           m == Len(copied)
           f == Len(finals)
           e == Len(rEvents)
<1>1. /\ n \in Nat \ {0} /\ n <= m /\ n <= f /\ read + n = rEvents[1] /\ e \in Nat \ {0}
      /\ rEvents # <<>>
  BY FlushedRun, SMTT(30) DEF TypeOK, FlushReads, ReadCompleted
<1>2. /\ read \in Nat /\ m \in Nat /\ f \in Nat /\ write \in Nat /\ rIssued \in Nat /\ dIssued \in Nat
      /\ copied \in Seq(Item) /\ finals \in Seq(Seq(Row)) /\ rEvents \in Seq(Nat)
  BY LenProperties DEF TypeOK, FinalsMatch
<1>3. /\ copied' = SubSeq(copied, n + 1, m) /\ finals' = SubSeq(finals, n + 1, f)
      /\ rEvents' = Tail(rEvents) /\ read' = Head(rEvents)
      /\ UNCHANGED <<write, slots, cpc, span, rIssued, dIssued>>
  BY DEF FlushReads
<1>4. read' = read + n
  BY <1>2, <1>3, FlushedRun, SMT
<1> HIDE DEF n, m, f, e
<1>5. /\ copied' \in Seq(Item) /\ Len(copied') = m - n
      /\ \A i \in 1..(m - n) : copied'[i] = copied[n + i]
  <2>1. n + 1 \in Int /\ m \in Int /\ \A i \in (n + 1)..m : i \in 1..m
    BY <1>1, <1>2, SMT
  <2>2. \A i \in (n + 1)..m : copied[i] \in Item
    BY <1>2, <2>1, ElementOfSeq DEF m
  <2> DEFINE t == SubSeq(copied, n + 1, m)
  <2>3. /\ t \in Seq(Item) /\ Len(t) = (IF n + 1 <= m THEN m - (n + 1) + 1 ELSE 0)
        /\ \A i \in 1..(m - (n + 1) + 1) : t[i] = copied[n + 1 + i - 1]
    BY <2>1, <2>2, SubSeqProperties
  <2> HIDE DEF t
  <2>4. Len(t) = m - n /\ m - (n + 1) + 1 = m - n /\ \A i \in 1..(m - n) : n + 1 + i - 1 = n + i
    BY <1>1, <1>2, <2>3, SMT
  <2> QED BY <1>3, <2>3, <2>4 DEF t
<1>6. /\ finals' \in Seq(Seq(Row)) /\ Len(finals') = f - n
      /\ \A i \in 1..(f - n) : finals'[i] = finals[n + i]
  <2>1. n + 1 \in Int /\ f \in Int /\ \A i \in (n + 1)..f : i \in 1..f
    BY <1>1, <1>2, SMT
  <2>2. \A i \in (n + 1)..f : finals[i] \in Seq(Row)
    BY <1>2, <2>1, ElementOfSeq DEF f
  <2> DEFINE t == SubSeq(finals, n + 1, f)
  <2>3. /\ t \in Seq(Seq(Row)) /\ Len(t) = (IF n + 1 <= f THEN f - (n + 1) + 1 ELSE 0)
        /\ \A i \in 1..(f - (n + 1) + 1) : t[i] = finals[n + 1 + i - 1]
    BY <2>1, <2>2, SubSeqProperties
  <2> HIDE DEF t
  <2>4. Len(t) = f - n /\ f - (n + 1) + 1 = f - n /\ \A i \in 1..(f - n) : n + 1 + i - 1 = n + i
    BY <1>1, <1>2, <2>3, SMT
  <2> QED BY <1>3, <2>3, <2>4 DEF t
<1>7. DrainInOrder'
  <2>1. /\ dIssued = rIssued + span /\ dIssued <= write /\ read + m <= dIssued
        /\ read + f <= dIssued /\ rIssued <= read + f
        /\ (cpc = "poll" => span = 0) /\ (cpc = "finals" => span > 0)
    BY DEF DrainInOrder, m, f
  <2>2. /\ read' + Len(copied') <= dIssued /\ read' + Len(finals') <= dIssued
        /\ rIssued <= read' + Len(finals')
    BY <1>1, <1>2, <1>4, <1>5, <1>6, <2>1, SMT
  <2> QED BY <1>3, <2>1, <2>2 DEF DrainInOrder
<1>8. EventsOrdered'
  <2>1. /\ Len(rEvents') = e - 1
        /\ \A i \in 1..(e - 1) : rEvents'[i] = rEvents[i + 1]
    BY <1>1, <1>2, <1>3, HeadTailProperties DEF e
  <2>2. \A i \in 1..(e - 1) : i + 1 \in 1..e /\ 1 \in 1..e /\ 1 < i + 1
    BY <1>1, SMT
  <2>3. \A i \in 1..(e - 1) : rEvents[1] < rEvents[i + 1] /\ rEvents[i + 1] <= rIssued
    BY <2>2 DEF EventsOrdered, e
  <2>4. \A i, j \in 1..(e - 1) : i < j => i + 1 < j + 1
    BY <1>1, SMT
  <2>5. \A i, j \in 1..(e - 1) : i < j => rEvents[i + 1] < rEvents[j + 1]
    BY <2>2, <2>4 DEF EventsOrdered, e
  <2>6. read' = rEvents[1] /\ rIssued' = rIssued
    BY <1>1, <1>3, <1>4
  <2> QED BY <2>1, <2>3, <2>5, <2>6 DEF EventsOrdered
<1>9. CopiesMatch'
  <2>1. \A i \in 1..(m - n) : n + i \in 1..m /\ read + (n + i) - 1 = read' + i - 1
    BY <1>1, <1>2, <1>4, SMT
  <2>2. \A i \in 1..(m - n) : copied[n + i] = slots[SlotOf(read + (n + i) - 1)]
    BY <2>1 DEF CopiesMatch, m
  <2> QED BY <1>3, <1>5, <2>1, <2>2 DEF CopiesMatch
<1>10. FinalsMatch'
  <2>1. \A i \in 1..(f - n) : n + i \in 1..f /\ read + (n + i) - 1 = read' + i - 1
    BY <1>1, <1>2, <1>4, SMT
  <2>2. \A i \in 1..(f - n) :
          finals[n + i] = [k \in 1..slots[SlotOf(read + (n + i) - 1)].n |-> <<read + (n + i) - 1, k>>]
    BY <2>1 DEF FinalsMatch, f
  <2>3. ASSUME NEW i \in 1..(f - n)
        PROVE  finals'[i] = [k \in 1..slots[SlotOf(read' + i - 1)].n |-> <<read' + i - 1, k>>]
    BY <1>6, <2>1, <2>2
  <2> QED BY <1>3, <1>6, <2>3 DEF FinalsMatch
<1> QED BY <1>7, <1>8, <1>9, <1>10

\* Every step keeps what was copied equal to what it was to copy.
LEMMA LearnerStep ==
  ASSUME IInv, [Next]_vars
  PROVE  LearnerSide'
<1> USE DEF IInv, LearnerSide
<1>1. /\ read \in Nat /\ write \in Nat /\ rIssued \in Nat /\ dIssued \in Nat /\ span \in Nat
      /\ hDone \in Nat /\ write <= hDone /\ read <= rIssued
      /\ copied \in Seq(Item) /\ Len(copied) \in Nat
      /\ finals \in Seq(Seq(Row)) /\ Len(finals) \in Nat
      /\ rEvents \in Seq(Nat) /\ Len(rEvents) \in Nat
  BY LenProperties, SizesAssumption, SMT DEF TypeOK, StoreSide, Cursors, FinalsMatch
<1>2. /\ \A i \in 1..Len(copied) : read + i - 1 \in Landed
      /\ \A i \in 1..Len(finals) : read + i - 1 \in Landed
  BY <1>1, SMT DEF Landed, DrainInOrder
<1>3. \A g \in Landed : slots'[SlotOf(g)] = slots[SlotOf(g)]
  BY LandedKept
<1>4. CASE Collector \/ H2DBegin \/ H2DEnd \/ UNCHANGED vars
  <2>1. /\ UNCHANGED <<read, cpc, span, rIssued, rEvents, dIssued, finals, copied>>
        /\ write' \in Nat /\ write <= write'
    BY <1>1, <1>4, SMT DEF Collector, FlushWrites, PollNotFull, PollFull, StepEnv, PushBegin,
       PushStaging, PushRows, PushMeta, PushEnqueue, H2DBegin, H2DEnd, vars, learner, history
  <2>2. dIssued <= write'
    BY <1>1, <2>1, SMT DEF DrainInOrder
  <2>3. DrainInOrder' /\ EventsOrdered'
    BY <2>1, <2>2 DEF DrainInOrder, EventsOrdered
  <2>4. CopiesMatch' /\ FinalsMatch'
    BY <1>2, <1>3, <2>1 DEF CopiesMatch, FinalsMatch
  <2> QED BY <2>3, <2>4
<1>5. CASE FlushReads  BY <1>5, FlushKeepsLearner
<1>6. CASE ReadSpan
  <2>1. PICK k \in 1..(write - rIssued) : span' = k /\ dIssued' = rIssued + k
    BY <1>6 DEF ReadSpan
  <2>2. /\ UNCHANGED <<read, write, slots, rIssued, rEvents, finals, copied>>
        /\ cpc = "poll" /\ cpc' = "finals"
    BY <1>6 DEF ReadSpan, history
  <2>3. DrainInOrder'
    BY <1>1, <2>1, <2>2, SMT DEF DrainInOrder
  <2> QED BY <2>2, <2>3 DEF EventsOrdered, CopiesMatch, FinalsMatch
<1>7. CASE ReadFinal
  <2> DEFINE g == read + Len(finals)
             p == PayloadAt(g)
  <2>1. /\ UNCHANGED <<read, write, slots, cpc, span, rIssued, rEvents, dIssued, copied>>
        /\ finals' = Append(finals, p) /\ g < rIssued + span /\ cpc = "finals"
    BY <1>7 DEF ReadFinal, NextFinal, history
  <2>2. g \in Landed /\ g \in Int
    BY <1>1, <2>1, SMT DEF Landed, DrainInOrder
  <2>3. p = [k \in 1..slots[SlotOf(g)].n |-> <<g, k>>]
    BY <2>2, PayloadIntact
  <2>4. p \in Seq(Row)
    BY <2>2, PayloadTyped DEF TypeOK
  <2> HIDE DEF p
  <2>5. /\ finals' \in Seq(Seq(Row)) /\ Len(finals') = Len(finals) + 1
        /\ \A i \in 1..Len(finals) : finals'[i] = finals[i]
        /\ finals'[Len(finals) + 1] = p
    BY <1>1, <2>1, <2>4, AppendProperties
  <2>6. DrainInOrder'
    BY <1>1, <2>1, <2>5, SMT DEF DrainInOrder
  <2>7. FinalsMatch'
    <3> SUFFICES ASSUME NEW i \in 1..Len(finals')
                 PROVE  finals'[i] = [k \in 1..slots[SlotOf(read + i - 1)].n |-> <<read + i - 1, k>>]
      BY <2>1, <2>5 DEF FinalsMatch
    <3>1. CASE i = Len(finals) + 1
      <4>1. read + i - 1 = g
        BY <1>1, <3>1, SMT
      <4> QED BY <2>3, <2>5, <3>1, <4>1
    <3>2. CASE i # Len(finals) + 1
      <4>1. i \in 1..Len(finals)
        BY <1>1, <2>5, <3>2, SMT
      <4> QED BY <2>5, <4>1 DEF FinalsMatch
    <3> QED BY <3>1, <3>2
  <2> QED BY <2>1, <2>6, <2>7 DEF EventsOrdered, CopiesMatch
<1>8. CASE CommitReads
  <2> DEFINE e == Len(rEvents)
  <2>1. /\ UNCHANGED <<read, write, slots, dIssued, finals, copied>>
        /\ rIssued' = rIssued + span /\ rEvents' = Append(rEvents, rIssued + span)
        /\ span' = 0 /\ cpc = "finals" /\ cpc' = "poll" /\ read + Len(finals) = rIssued + span
    BY <1>8 DEF CommitReads, NextFinal, history
  <2>2. DrainInOrder'
    BY <1>1, <2>1, SMT DEF DrainInOrder
  <2>3. span > 0 /\ rIssued + span \in Nat
    BY <1>1, <2>1 DEF DrainInOrder
  <2>4. /\ Len(rEvents') = e + 1 /\ rEvents'[e + 1] = rIssued + span
        /\ \A i \in 1..e : rEvents'[i] = rEvents[i]
    BY <1>1, <2>1, <2>3, AppendProperties
  <2>5. \A i \in 1..e : /\ rEvents[i] \in Nat /\ read < rEvents[i] /\ rEvents[i] <= rIssued
    BY <1>1, ElementOfSeq DEF EventsOrdered
  <2> HIDE DEF e
  <2>6. e \in Nat /\ \A i \in 1..(e + 1) : i \in 1..e \/ i = e + 1
    BY <1>1, SMT DEF e
  <2>7. \A i \in 1..(e + 1) : read < rEvents'[i] /\ rEvents'[i] <= rIssued + span
    <3>1. read < rIssued + span /\ rIssued + span <= rIssued + span
      BY <1>1, <2>3, SMT
    <3>2. \A i \in 1..e : read < rEvents[i] /\ rEvents[i] <= rIssued + span
      BY <1>1, <2>3, <2>5, SMT
    <3> QED BY <2>4, <2>6, <3>1, <3>2
  <2>8. \A i, j \in 1..(e + 1) : i < j => rEvents'[i] < rEvents'[j]
    <3> SUFFICES ASSUME NEW i \in 1..(e + 1), NEW j \in 1..(e + 1), i < j
                 PROVE  rEvents'[i] < rEvents'[j]
      OBVIOUS
    <3>1. i \in 1..e
      BY <2>6, SMT
    <3>2. CASE j = e + 1
      <4>1. rEvents'[i] = rEvents[i] /\ rEvents'[j] = rIssued + span
        BY <2>4, <3>1, <3>2
      <4>2. rEvents[i] \in Nat /\ rEvents[i] <= rIssued
        BY <2>5, <3>1
      <4> QED BY <1>1, <2>3, <4>1, <4>2, SMT
    <3>3. CASE j \in 1..e
      BY <2>4, <3>1, <3>3 DEF EventsOrdered, e
    <3> QED BY <2>6, <3>2, <3>3
  <2>9. EventsOrdered'
    BY <2>1, <2>4, <2>7, <2>8 DEF EventsOrdered
  <2> QED BY <2>1, <2>2, <2>9 DEF CopiesMatch, FinalsMatch
<1>9. CASE D2DCopy
  <2> DEFINE item == slots[SlotOf(read + Len(copied))]
  <2>1. /\ UNCHANGED <<read, write, slots, cpc, span, rIssued, rEvents, dIssued, finals>>
        /\ copied' = Append(copied, item) /\ read + Len(copied) < dIssued
    BY <1>9 DEF D2DCopy, dDone, learner
  <2>2. item \in Item
    BY <1>1, PlacesInRange, SMT DEF TypeOK
  <2> HIDE DEF item
  <2>3. /\ Len(copied') = Len(copied) + 1
        /\ \A i \in 1..Len(copied) : copied'[i] = copied[i]
        /\ copied'[Len(copied) + 1] = item
    BY <1>1, <2>1, <2>2, AppendProperties
  <2>4. DrainInOrder'
    BY <1>1, <2>1, <2>3, SMT DEF DrainInOrder
  <2>5. CopiesMatch'
    <3> SUFFICES ASSUME NEW i \in 1..Len(copied')
                 PROVE  copied'[i] = slots[SlotOf(read + i - 1)]
      BY <2>1 DEF CopiesMatch
    <3>1. CASE i = Len(copied) + 1
      <4>1. read + i - 1 = read + Len(copied)
        BY <1>1, <3>1, SMT
      <4> QED BY <2>3, <3>1, <4>1 DEF item
    <3>2. CASE i # Len(copied) + 1
      <4>1. i \in 1..Len(copied)
        BY <1>1, <2>3, <3>2, SMT
      <4> QED BY <2>3, <4>1 DEF CopiesMatch
    <3> QED BY <3>1, <3>2
  <2> QED BY <2>1, <2>4, <2>5 DEF EventsOrdered, FinalsMatch
<1> QED BY <1>4, <1>5, <1>6, <1>7, <1>8, <1>9 DEF Next, Device, Learner, Finished

-----------------------------------------------------------------------------
\* IInv is an invariant: it holds at the start and every step keeps it.
THEOREM Inductive == Spec => []IInv
<1>1. Init => IInv
  <2> SUFFICES ASSUME Init, TypeOK PROVE IInv
    BY InitTypeOK
  <2>1. /\ write = 0 /\ read = 0 /\ wIssued = 0 /\ rIssued = 0 /\ dIssued = 0 /\ hDone = 0
        /\ reclaimed = 0 /\ rowWrite = 0 /\ rowRead = 0 /\ ~hBusy
        /\ ppc = "poll" /\ cpc = "poll" /\ span = 0 /\ dropped = 0
        /\ copied = <<>> /\ finals = <<>> /\ rEvents = <<>>
    BY DEF Init, StoreInit
  <2>2. Landed = {} /\ Recorded = 0 /\ 0..(0 - 1) = {}
    BY <2>1, SMT DEF Landed, Recorded
  <2>3. RowsStored
    <3>1. Capacity \in Nat /\ RowCapacity \in Nat
      BY SizesAssumption, SMT DEF RowCapacity
    <3>2. 0 <= 0 /\ 0 - 0 <= Capacity /\ 0 - 0 <= RowCapacity
      BY <3>1, SMT
    <3> QED BY <2>1, <2>2, <3>2 DEF RowsStored, StoreInv, TypeOK
  <2>4. StoreSide
    BY <2>1, <2>3, SMT DEF StoreSide, Cursors, Admitted, RowsFit, RowsCopied
  <2>5. DeviceSide
    BY <2>1, <2>2, SMT DEF DeviceSide, Staged, SlotsHeld, NoStepDropped
  <2>6. Len(copied) = 0 /\ Len(finals) = 0 /\ Len(rEvents) = 0 /\ 1..0 = {} /\ finals \in Seq(Seq(Row))
    BY <2>1, SMT
  <2>7. DrainInOrder
    BY <2>1, <2>6, SMT DEF DrainInOrder
  <2>8. LearnerSide
    BY <2>6, <2>7 DEF LearnerSide, EventsOrdered, CopiesMatch, FinalsMatch
  <2> QED BY <2>4, <2>5, <2>8 DEF IInv
<1>2. IInv /\ [Next]_vars => IInv'
  BY TypeStep, StoreStep, DeviceStep, LearnerStep DEF IInv
<1> QED BY <1>1, <1>2, PTL DEF Spec

\* Cursors are counters, a slot and the staging buffer hold a batch or nothing,
\* the copies and the waiting events are sequences.
THEOREM TypeCorrect == Spec => []TypeOK
<1>1. IInv => TypeOK
  BY DEF IInv
<1> QED BY <1>1, Inductive, PTL

\* push never refuses the step that step_once took after its capacity check,
\* although pushes in flight and events not yet passed still take up room.
THEOREM NoStepIsDropped == Spec => []NoStepDropped
<1>1. IInv => NoStepDropped
  BY DEF IInv, DeviceSide
<1> QED BY <1>1, Inductive, PTL

\* No copy under way finds its slot reused or the staging buffer refilled: what
\* the device and the host copied of a run belongs to the same env step
\* (transport/ipc_ring.py, IpcTransitionRing).
THEOREM IngestIsIntact == Spec => []IngestIntact
<1>1. IInv => IngestIntact
  <2> SUFFICES ASSUME IInv PROVE IngestIntact
    OBVIOUS
  <2>1. \A i \in 1..Len(copied) : read + i - 1 \in Landed
    BY LenProperties, SMT DEF IInv, LearnerSide, DrainInOrder, TypeOK, Landed, StoreSide, Cursors
  <2>2. \A i \in 1..Len(copied) : copied[i].gen = read + i - 1
    BY <2>1 DEF IInv, DeviceSide, LearnerSide, SlotsHeld, CopiesMatch
  <2>3. ASSUME NEW i \in 1..Len(finals), i <= Len(copied)
        PROVE  finals[i] = [k \in 1..copied[i].n |-> <<read + i - 1, k>>]
    <3>1. i \in 1..Len(copied)
      BY <2>3, LenProperties, SMT DEF IInv, TypeOK, LearnerSide, FinalsMatch
    <3>2. copied[i] = slots[SlotOf(read + i - 1)]
      BY <3>1 DEF IInv, LearnerSide, CopiesMatch
    <3> QED BY <3>2 DEF IInv, LearnerSide, FinalsMatch
  <2> QED BY <2>2, <2>3 DEF IngestIntact
<1> QED BY <1>1, Inductive, PTL

-----------------------------------------------------------------------------
(* The queue.                                                              *)

Batches == [slot : Item, final : Seq(Row)]

Size == write - read

\* The learner has taken what it has released.
TakenInStep == taken \in Seq(Batches) /\ Len(taken) = read

\* Seen as a queue, the ring holds the batches of its published steps, in order.
QueueIntact ==
  /\ Size \in Nat
  /\ queueBar \in Seq(Batches) /\ Len(queueBar) = Size
  /\ \A i \in 1..Size :
       /\ read + i - 1 \in Landed
       /\ queueBar[i] = Fifo!Batch(read + i - 1, slots[SlotOf(read + i - 1)].n)

LEMMA RingIsQueue == IInv => QueueIntact
<1> SUFFICES ASSUME IInv PROVE QueueIntact
  OBVIOUS
<1>1. /\ Size \in Nat /\ read \in Nat /\ write \in Nat /\ hDone \in Nat /\ write <= hDone
  BY SMT DEF IInv, StoreSide, Cursors, TypeOK, Size
<1>2. ASSUME NEW i \in 1..Size
      PROVE  /\ read + i - 1 \in Landed
             /\ slots[SlotOf(read + i - 1)] \in Item /\ PayloadAt(read + i - 1) \in Seq(Row)
             /\ slots[SlotOf(read + i - 1)] = [gen |-> read + i - 1, n |-> slots[SlotOf(read + i - 1)].n]
             /\ PayloadAt(read + i - 1)
                  = [k \in 1..slots[SlotOf(read + i - 1)].n |-> <<read + i - 1, k>>]
  <2>1. PICK g \in Int : g = read + i - 1
    BY <1>1, SMT
  <2>2. g \in Landed
    BY <1>1, <2>1, SMT DEF Landed, Size
  <2>3. slots[SlotOf(g)] \in Item
    BY PlacesInRange DEF IInv, TypeOK
  <2>4. slots[SlotOf(g)] = [gen |-> g, n |-> slots[SlotOf(g)].n]
    BY <2>2, <2>3 DEF IInv, DeviceSide, SlotsHeld, Item
  <2>5. PayloadAt(g) \in Seq(Row)
    BY PayloadTyped DEF IInv, TypeOK
  <2>6. PayloadAt(g) = [k \in 1..slots[SlotOf(g)].n |-> <<g, k>>]
    BY <2>2, PayloadIntact
  <2> QED BY <2>1, <2>2, <2>3, <2>4, <2>5, <2>6
<1>3. \A i \in 1..Size : [slot |-> slots[SlotOf(read + i - 1)], final |-> PayloadAt(read + i - 1)] \in Batches
  BY <1>2 DEF Batches
<1>4. queueBar = [i \in 1..Size |-> [slot |-> slots[SlotOf(read + i - 1)], final |-> PayloadAt(read + i - 1)]]
  BY DEF queueBar, Size
<1>5. queueBar \in Seq(Batches) /\ Len(queueBar) = Size
  <2>1. write - read = Size
    BY DEF Size
  <2>2. \A i \in 1..(write - read) :
          [slot |-> slots[SlotOf(read + i - 1)], final |-> PayloadAt(read + i - 1)] \in Batches
    BY <1>3, <2>1
  <2> QED BY <1>1, <2>1, <2>2, IsASeq DEF queueBar
<1>6. \A i \in 1..Size : queueBar[i] = Fifo!Batch(read + i - 1, slots[SlotOf(read + i - 1)].n)
  BY <1>2, <1>4 DEF Fifo!Batch
<1> QED BY <1>1, <1>2, <1>5, <1>6 DEF QueueIntact

LEMMA RingStaysQueue == IInv' => QueueIntact'
BY RingIsQueue, PTL

\* The poll that publishes a push puts its step at the end of the queue ...
LEMMA FlushPuts ==
  ASSUME IInv, IInv', TakenInStep, FlushWrites
  PROVE  Fifo!Put /\ TakenInStep'
<1>1. QueueIntact /\ QueueIntact'
  BY RingIsQueue, RingStaysQueue
<1>2. /\ write < hDone /\ write' = write + 1 /\ UNCHANGED <<read, slots, taken>>
  BY DEF FlushWrites, WriteCompleted, history
<1>3. /\ read \in Nat /\ write \in Nat /\ hDone \in Nat /\ wIssued \in Nat /\ reclaimed \in Nat
      /\ Capacity \in Nat /\ Size \in Nat /\ Len(taken) = read
  BY <1>1, SizesAssumption DEF IInv, TypeOK, StoreTypeOK, QueueIntact, TakenInStep
<1>4. /\ Size < Capacity /\ Size' = Size + 1 /\ read + Size = write
  <2>1. wIssued - reclaimed <= Capacity /\ reclaimed <= read /\ hDone <= wIssued
    BY <1>3, SMT DEF IInv, StoreSide, Cursors, RowsStored, StoreInv, Recorded
  <2> QED BY <1>2, <1>3, <2>1, SMT DEF Size
<1> DEFINE n == slots[SlotOf(write)].n
           q == queueBar
           r == queueBar'
<1>5. n \in 0..NumEnvs
  <2>1. slots[SlotOf(write)] \in Item
    BY <1>3, PlacesInRange DEF IInv, TypeOK
  <2> QED BY <2>1 DEF Item
<1>6. r \in Seq(Batches) /\ Len(r) = Size + 1 /\ q \in Seq(Batches) /\ Len(q) = Size
  BY <1>1, <1>4 DEF QueueIntact
<1>7. r[Size + 1] = Fifo!Batch(write, n)
  <2>1. Size + 1 \in 1..Size'  BY <1>3, <1>4, SMT
  <2>2. read' + (Size + 1) - 1 = write  BY <1>2, <1>3, <1>4, SMT
  <2> QED BY <1>1, <1>2, <2>1, <2>2 DEF QueueIntact
<1>8. \A i \in 1..Size : r[i] = q[i]
  <2>1. \A i \in 1..Size : i \in 1..Size'  BY <1>3, <1>4, SMT
  <2> QED BY <1>1, <1>2, <2>1 DEF QueueIntact
<1> HIDE DEF q, r, n
<1>9. r = Append(q, Fifo!Batch(write, n))
  BY <1>6, <1>7, <1>8, IsAppended
<1>10. Len(taken) + Len(q) = write
  BY <1>3, <1>4, <1>6
<1>11. Fifo!Put
  BY <1>2, <1>4, <1>5, <1>6, <1>9, <1>10 DEF Fifo!Put, q, r
<1> QED BY <1>2, <1>11 DEF TakenInStep

\* ... and the poll that finds a read's event passed takes the run off its front.
LEMMA FlushTakes ==
  ASSUME IInv, IInv', TakenInStep, FlushReads
  PROVE  Fifo!Take /\ TakenInStep'
<1> DEFINE n == Head(rEvents) - read
           q == queueBar
           r == queueBar'
           run == [i \in 1..n |-> [slot |-> copied[i], final |-> finals[i]]]
<1>1. QueueIntact /\ QueueIntact'
  BY RingIsQueue, RingStaysQueue
<1>2. /\ n \in Nat \ {0} /\ n <= Len(copied) /\ n <= Len(finals)
      /\ Head(rEvents) \in Nat
  BY FlushedRun
<1>3. /\ taken' = taken \o run /\ read' = Head(rEvents) /\ UNCHANGED <<write, slots>>
  BY DEF FlushReads
<1>4. /\ read \in Nat /\ write \in Nat /\ Size \in Nat /\ Len(taken) = read
      /\ taken \in Seq(Batches)
      /\ Len(copied) \in Nat /\ Len(finals) \in Nat /\ dIssued \in Nat
  BY <1>1, LenProperties DEF IInv, TypeOK, LearnerSide, FinalsMatch, QueueIntact, TakenInStep
<1>5. read' = read + n
  BY <1>2, <1>3, <1>4, SMT
<1> HIDE DEF n
<1>6. n \in 1..Size /\ Size' = Size - n
  <2>1. read + Len(copied) <= dIssued /\ dIssued <= write
    BY DEF IInv, LearnerSide, DrainInOrder
  <2> QED BY <1>2, <1>3, <1>4, <1>5, <2>1, SMT DEF Size
<1>7. /\ q \in Seq(Batches) /\ Len(q) = Size /\ r \in Seq(Batches) /\ Len(r) = Size - n
  BY <1>1, <1>6 DEF QueueIntact
<1>8. ASSUME NEW i \in 1..n  PROVE run[i] = q[i]
  <2>1. i \in 1..Len(copied) /\ i \in 1..Len(finals) /\ i \in 1..Size
    BY <1>2, <1>4, <1>6, SMT
  <2>2. copied[i] = slots[SlotOf(read + i - 1)]
    BY <2>1 DEF IInv, LearnerSide, CopiesMatch
  <2>3. finals[i] = [k \in 1..slots[SlotOf(read + i - 1)].n |-> <<read + i - 1, k>>]
    BY <2>1 DEF IInv, LearnerSide, FinalsMatch
  <2>4. q[i] = Fifo!Batch(read + i - 1, slots[SlotOf(read + i - 1)].n) /\ read + i - 1 \in Landed
    BY <1>1, <2>1 DEF QueueIntact
  <2>5. slots[SlotOf(read + i - 1)] = [gen |-> read + i - 1, n |-> slots[SlotOf(read + i - 1)].n]
    <3>1. slots[SlotOf(read + i - 1)] \in Item
      BY <2>4, LandedApart DEF IInv, TypeOK
    <3> QED BY <2>4, <3>1 DEF IInv, DeviceSide, SlotsHeld, Item
  <2> QED BY <2>2, <2>3, <2>4, <2>5 DEF Fifo!Batch
<1>9. \A i \in 1..(Size - n) : r[i] = q[n + i]
  <2> SUFFICES ASSUME NEW i \in 1..(Size - n)
               PROVE  r[i] = q[n + i]
    OBVIOUS
  <2>1. i \in 1..Size' /\ n + i \in 1..Size /\ read' + i - 1 = read + (n + i) - 1
    BY <1>4, <1>5, <1>6, SMT
  <2>2. /\ r[i] = Fifo!Batch(read' + i - 1, slots[SlotOf(read' + i - 1)].n)
        /\ q[n + i] = Fifo!Batch(read + (n + i) - 1, slots[SlotOf(read + (n + i) - 1)].n)
    BY <1>1, <1>3, <2>1 DEF QueueIntact
  <2> QED BY <2>1, <2>2
<1>10. run \in Seq(Batches) /\ Len(run) = n
  <2>1. \A i \in 1..Size : q[i] \in Batches
    BY <1>7, ElementOfSeq
  <2>2. \A i \in 1..n : [slot |-> copied[i], final |-> finals[i]] \in Batches
    <3>1. \A i \in 1..n : i \in 1..Size  BY <1>4, <1>6, SMT
    <3> QED BY <1>8, <2>1, <3>1
  <2> QED BY <1>2, <2>2, IsASeq
<1> HIDE DEF q, r, run
<1>11. run = SubSeq(q, 1, n)
  <2>1. n <= Len(q)
    BY <1>6, <1>7, SMT
  <2> QED BY <1>2, <1>7, <1>8, <1>10, <2>1, IsPrefixOf
<1>12. r = SubSeq(q, n + 1, Len(q))
  <2>1. n <= Len(q) /\ Len(r) = Len(q) - n
    BY <1>6, <1>7, SMT
  <2>2. \A i \in 1..(Len(q) - n) : r[i] = q[n + i]
    BY <1>7, <1>9
  <2> QED BY <1>2, <1>7, <2>1, <2>2, IsRestOf
<1>13. Fifo!Take
  BY <1>3, <1>6, <1>7, <1>11, <1>12 DEF Fifo!Take, q, r
<1>14. taken' \in Seq(Batches) /\ Len(taken') = Len(taken) + Len(run)
  BY <1>3, <1>4, <1>10, ConcatProperties
<1> QED BY <1>4, <1>5, <1>10, <1>13, <1>14 DEF TakenInStep

\* Every other step, the device's included, leaves the queue alone.
LEMMA OtherStepsKeepQueue ==
  ASSUME IInv, IInv', TakenInStep, [Next]_vars, ~FlushWrites, ~FlushReads
  PROVE  queueBar' = queueBar /\ taken' = taken
<1>1. UNCHANGED <<read, write>> /\ taken' = taken
  BY DEF Next, Collector, PollNotFull, PollFull, StepEnv, PushBegin, PushStaging, PushRows, PushMeta,
     PushEnqueue, Device, H2DBegin, H2DEnd, D2DCopy, Learner, ReadSpan, ReadFinal, CommitReads,
     Finished, vars, history
<1>2. QueueIntact /\ QueueIntact'
  BY RingIsQueue, RingStaysQueue
<1>3. Size' = Size
  BY <1>1 DEF Size
<1>4. \A i \in 1..Size : slots'[SlotOf(read + i - 1)] = slots[SlotOf(read + i - 1)]
  BY <1>2, LandedKept DEF QueueIntact
<1>5. \A i \in 1..Size : queueBar'[i] = queueBar[i]
  BY <1>1, <1>2, <1>3, <1>4 DEF QueueIntact
<1>6. /\ queueBar' \in Seq(Batches) /\ queueBar \in Seq(Batches)
      /\ Len(queueBar') = Len(queueBar) /\ Len(queueBar) = Size
  BY <1>2, <1>3 DEF QueueIntact
<1>7. queueBar' = queueBar
  BY <1>5, <1>6, SeqEqual
<1> QED BY <1>1, <1>7

\* Late as pushes and releases become visible, the device ring is the same
\* bounded first-in first-out queue as the host ring (transport/ipc_ring.py).
THEOREM ImplementsFifo == Spec => RefinesFifo
<1>1. Init => Fifo!Init /\ TakenInStep
  <2> SUFFICES ASSUME Init PROVE Fifo!Init /\ TakenInStep
    OBVIOUS
  <2>1. /\ write - read = 0 /\ 1..0 = {} /\ taken = <<>> /\ read = 0
    BY SMT DEF Init
  <2>2. queueBar = <<>>
    BY <2>1 DEF queueBar
  <2> QED BY <2>1, <2>2 DEF Fifo!Init, TakenInStep
<1>2. IInv /\ IInv' /\ TakenInStep /\ [Next]_vars => TakenInStep' /\ [Fifo!Next]_(Fifo!fifoVars)
  <2> SUFFICES ASSUME IInv, IInv', TakenInStep, [Next]_vars
               PROVE  TakenInStep' /\ [Fifo!Next]_(Fifo!fifoVars)
    OBVIOUS
  <2>1. CASE FlushWrites
    BY <2>1, FlushPuts DEF Fifo!Next
  <2>2. CASE FlushReads
    BY <2>2, FlushTakes DEF Fifo!Next
  <2>3. CASE ~FlushWrites /\ ~FlushReads
    <3>1. queueBar' = queueBar /\ taken' = taken
      BY <2>3, OtherStepsKeepQueue
    <3>2. read' = read
      BY <2>3 DEF Next, Collector, PollNotFull, PollFull, StepEnv, PushBegin, PushStaging, PushRows,
         PushMeta, PushEnqueue, Device, H2DBegin, H2DEnd, D2DCopy, Learner, ReadSpan, ReadFinal,
         CommitReads, Finished, vars
    <3> QED BY <3>1, <3>2 DEF TakenInStep, Fifo!fifoVars
  <2> QED BY <2>1, <2>2, <2>3
<1> QED BY <1>1, <1>2, Inductive, PTL DEF Spec, RefinesFifo, Fifo!Spec
=============================================================================
