------------------------ MODULE TransitionRingProofs ------------------------
(***************************************************************************)
(* Proofs about TransitionRing, for every capacity and every number of     *)
(* environments: type correctness, and the safety invariants of its run.   *)
(* They rest on one inductive invariant, IInv, whose parts relate the      *)
(* three cursors that move at different times: the slot cursors, the row   *)
(* cursors, and the metadata that ties rows to slots.                      *)
(***************************************************************************)
EXTENDS TransitionRing, FinalObsStoreProofs

\* The collector is past its poll, that is, allowed to publish one step.
Admitted == ppc # "poll"

\* Slots are released behind the write cursor, rows behind the slots; an
\* admitted collector has a slot whose old rows were released.
Cursors ==
  /\ reclaimed <= read /\ read <= write
  /\ Admitted => write - reclaimed < Capacity

\* Where the recorded slots end: metadata is recorded before the cursor moves.
Recorded == IF ppc = "publish" THEN write + 1 ELSE write

RowsStored == StoreInv(Recorded)

\* An admitted collector finds room for the rows it may still add ...
RowsFit ==
  /\ ppc \in {"step", "push"} => rowWrite - rowRead + NumEnvs <= RowCapacity
  /\ ppc \in {"fields", "rows", "meta"} => rowWrite - rowRead + batch <= RowCapacity

\* ... and those it copied in are there.
RowsCopied ==
  ppc = "meta" =>
    \A k \in 1..batch : rows[CellOf(rowWrite + k - 1)] = <<write, k>>

\* A slot records as many rows as its transitions have finished episodes.
CountsMatch ==
  /\ \A g \in Unread : counts[SlotOf(g)] = slots[SlotOf(g)].n
  /\ ppc = "publish" => counts[SlotOf(write)] = batch

\* The slot being filled holds its batch once its fields are copied.
SlotFilled ==
  ppc \in {"rows", "meta", "publish"} =>
    slots[SlotOf(write)] = [gen |-> write, n |-> batch]

\* The learner works on published slots, transitions before final rows.
DrainInOrder ==
  /\ read + span <= write
  /\ cpc = "poll" => span = 0
  /\ Len(copied) <= span /\ Len(finals) <= Len(copied)

\* What it copied is what the slots hold, and what they should hold.
CopiesMatch ==
  \A i \in 1..Len(copied) : copied[i] = slots[SlotOf(read + i - 1)]

FinalsMatch ==
  \A i \in 1..Len(finals) :
    finals[i] = [k \in 1..copied[i].n |-> <<read + i - 1, k>>]

StoreSide    == Cursors /\ RowsStored /\ RowsFit /\ RowsCopied
SlotSide     == NoClobber /\ CountsMatch /\ SlotFilled /\ NoStepDropped
ConsumerSide == DrainInOrder /\ CopiesMatch /\ FinalsMatch

IInv == TypeOK /\ StoreSide /\ SlotSide /\ ConsumerSide

-----------------------------------------------------------------------------
\* A payload is a sequence of rows.
LEMMA PayloadTyped ==
  ASSUME StoreTypeOK, NEW g \in Int
  PROVE  PayloadAt(g) \in Seq(Row)
<1> DEFINE s == SlotOf(g)
<1>1. s \in Slots
  BY PlacesInRange
<1>2. counts[s] \in Nat /\ starts[s] \in Nat
  BY <1>1, SizesAssumption, SMT DEF StoreTypeOK
<1>3. \A k \in 1..counts[s] : rows[CellOf(starts[s] + k - 1)] \in Row
  BY <1>2, PlacesInRange, SMT DEF StoreTypeOK
<1> HIDE DEF s
<1>4. [k \in 1..counts[s] |-> rows[CellOf(starts[s] + k - 1)]] \in Seq(Row)
  BY <1>2, <1>3, SMT
<1> QED BY <1>4 DEF PayloadAt, s

\* The ring starts with every variable in its type ...
LEMMA InitTypeOK == Init => TypeOK
<1> USE SizesAssumption
<1> SUFFICES ASSUME Init PROVE TypeOK
  OBVIOUS
<1>1. NoBatch \in Item /\ NoRow \in Row
  BY SMT DEF NoBatch, NoRow, Item, Row
<1>2. StoreTypeOK
  BY <1>1, SMT DEF Init, StoreInit, StoreTypeOK
<1>3. slots \in [Slots -> Item]
  BY <1>1 DEF Init
<1>4. copied \in Seq(Item)
  BY SMT DEF Init
<1>5. finals \in Seq(Seq(Row))
  BY SMT DEF Init
<1>6. span = 0 /\ batch = 0 /\ write = 0 /\ read = 0 /\ dropped = 0
  BY DEF Init
<1>7. ppc = "poll" /\ cpc = "poll"
  BY DEF Init
<1> QED BY <1>2, <1>3, <1>4, <1>5, <1>6, <1>7, SMT DEF TypeOK

\* ... and every step of either process keeps it there.
LEMMA NextTypeOK == TypeOK /\ [Next]_vars => TypeOK'
<1> USE SizesAssumption
<1> SUFFICES ASSUME TypeOK, [Next]_vars PROVE TypeOK'
  OBVIOUS
<1>1. ASSUME NEW ack \in Nat, ReclaimRows(ack), UNCHANGED <<rows, metaVars, rowWrite>>
      PROVE  StoreTypeOK'
  <2>1. RowReadAfter(ack) \in Nat
    BY PlacesInRange, SMT DEF RowReadAfter, TypeOK, StoreTypeOK
  <2> QED BY <1>1, <2>1, SMT DEF ReclaimRows, metaVars, TypeOK, StoreTypeOK
<1>2. ASSUME UNCHANGED storeVars PROVE StoreTypeOK'
  BY <1>2 DEF storeVars, TypeOK, StoreTypeOK
<1>3. \A a \in Int : SlotOf(a) \in Slots
  BY PlacesInRange
<1>4. CASE PollNotFull
  BY <1>1, <1>4, SMT DEF PollNotFull, ringVars, consumer, TypeOK
<1>5. CASE PollFull
  <2>1. StoreTypeOK'
    BY <1>1, <1>2, <1>5 DEF PollFull, ReclaimIfSlotFree, TypeOK, storeVars, metaVars, producerVars
  <2> QED BY <1>5, <2>1 DEF PollFull, ringVars, producer, consumer, TypeOK
<1>6. CASE StepEnv
  BY <1>2, <1>6 DEF StepEnv, ringVars, consumer, TypeOK
<1>7. CASE PushBegin
  <2>1. StoreTypeOK'
    BY <1>1, <1>2, <1>7 DEF PushBegin, ReclaimIfSlotFree, TypeOK, storeVars, metaVars, producerVars
  <2>2. slots' \in [Slots -> Item]
    <3>1. NoBatch \in Item
      BY SMT DEF NoBatch, Item
    <3> QED BY <1>7, <3>1 DEF PushBegin, TypeOK
  <2>3. dropped' \in Nat /\ ppc' \in {"poll", "fields"}
    BY <1>7, SMT DEF PushBegin, TypeOK
  <2> QED BY <1>7, <2>1, <2>2, <2>3 DEF PushBegin, consumer, TypeOK
<1>8. CASE PushFields
  <2>1. slots' \in [Slots -> Item]
    <3>1. [gen |-> write, n |-> batch] \in Item
      BY DEF TypeOK, Item
    <3> QED BY <1>8, <3>1 DEF PushFields, TypeOK
  <2> QED BY <1>2, <1>8, <2>1 DEF PushFields, consumer, TypeOK
<1>9. CASE PushRows
  <2>1. rows' \in [RowCells -> Row]
    BY <1>9, CopyTypeOK DEF PushRows, TypeOK
  <2>2. StoreTypeOK'
    BY <1>9, <2>1 DEF PushRows, metaVars, producerVars, TypeOK, StoreTypeOK
  <2> QED BY <1>9, <2>2 DEF PushRows, ringVars, consumer, TypeOK
<1>10. CASE PushMeta
  <2>1. rowWrite + batch \in Nat
    BY SMT DEF TypeOK, StoreTypeOK
  <2>2. StoreTypeOK'
    BY <1>10, <2>1 DEF PushMeta, RecordRows, producerVars, TypeOK, StoreTypeOK
  <2> QED BY <1>10, <2>2 DEF PushMeta, ringVars, consumer, TypeOK
<1>11. CASE PushPublish
  BY <1>2, <1>11, SMT DEF PushPublish, consumer, TypeOK
<1>12. CASE ReadSpan
  <2>1. PICK k \in 1..Size : k <= Capacity - SlotOf(read) /\ span' = k
    BY <1>12 DEF ReadSpan
  <2>2. k \in Nat /\ SlotOf(read) \in Slots
    BY <1>3, SMT DEF TypeOK, Size
  <2>3. span' \in 0..Capacity
    BY <2>1, <2>2, SMT DEF Slots
  <2> QED BY <1>2, <1>12, <2>3 DEF ReadSpan, ringVars, producer, TypeOK
<1>13. CASE CopySlot
  <2>1. slots[SlotOf(read + Len(copied))] \in Item
    BY <1>3, SMT DEF TypeOK
  <2>2. copied' \in Seq(Item)
    BY <1>13, <2>1, SMT DEF CopySlot, TypeOK
  <2> QED BY <1>2, <1>13, <2>2 DEF CopySlot, ringVars, producer, TypeOK
<1>14. CASE ReadFinal
  <2>1. PayloadAt(read + Len(finals)) \in Seq(Row)
    BY <1>3, PayloadTyped, SMT DEF TypeOK
  <2>2. finals' \in Seq(Seq(Row))
    BY <1>14, <2>1, SMT DEF ReadFinal, TypeOK
  <2> QED BY <1>2, <1>14, <2>2 DEF ReadFinal, ringVars, producer, TypeOK
<1>15. CASE CommitReads
  <2>1. read' \in Nat
    BY <1>15, SMT DEF CommitReads, Release, TypeOK
  <2>2. copied' \in Seq(Item) /\ finals' \in Seq(Seq(Row))
    BY <1>15, SMT DEF CommitReads
  <2>3. span' = 0 /\ cpc' = "poll"
    BY <1>15 DEF CommitReads
  <2>4. UNCHANGED <<storeVars, write, slots, producer>>
    BY <1>15 DEF CommitReads
  <2> QED BY <1>2, <2>1, <2>2, <2>3, <2>4, SMT DEF producer, TypeOK
<1>16. CASE UNCHANGED vars
  BY <1>2, <1>16 DEF vars, ringVars, producer, consumer, TypeOK
<1> QED BY <1>4, <1>5, <1>6, <1>7, <1>8, <1>9, <1>10, <1>11, <1>12, <1>13, <1>14,
           <1>15, <1>16 DEF Next, Produce, Consume, Finished

\* Every variable keeps its type: cursors are counters, a slot holds a batch
\* or nothing, the learner's copies are sequences of batches and payloads.
THEOREM TypeCorrect == Spec => []TypeOK
BY InitTypeOK, NextTypeOK, PTL DEF Spec

-----------------------------------------------------------------------------
\* What a poll of is_full() does to the store when it reclaims.
LEMMA ReclaimStep ==
  ASSUME TypeOK, Cursors, NEW hi \in Nat, hi = write, StoreInv(hi),
         ReclaimRows(read), UNCHANGED <<rows, metaVars, rowWrite>>
  PROVE  /\ StoreInv(hi)' /\ reclaimed' = read
         /\ rowRead' = RowReadAfter(read) /\ rowRead <= rowRead'
<1>1. PICK ack \in Nat : ack = read
  BY DEF TypeOK
<1>2. ack <= hi /\ ReclaimRows(ack) /\ UNCHANGED <<rows, starts, counts, ends, rowWrite>>
  BY <1>1 DEF Cursors, metaVars
<1>3. /\ StoreInv(hi)'
      /\ rowRead' = RowReadAfter(ack) /\ rowRead <= rowRead'
  BY <1>2, ReclaimKeepsStore
<1>4. reclaimed' = read
  BY SMT DEF ReclaimRows, Cursors, TypeOK, StoreTypeOK
<1> QED BY <1>1, <1>3, <1>4

\* Every step keeps the cursors in order and the rows of unreleased slots in
\* the store.
LEMMA StoreStep ==
  ASSUME IInv, [Next]_vars
  PROVE  StoreSide'
<1> USE DEF IInv, StoreSide
<1>1. /\ Capacity \in Nat /\ NumEnvs \in Nat /\ RowCapacity \in Nat
      /\ write \in Nat /\ read \in Nat /\ batch \in 0..NumEnvs
      /\ rowWrite \in Nat /\ rowRead \in Nat /\ reclaimed \in Nat
  BY SizesAssumption, SMT DEF TypeOK, StoreTypeOK, RowCapacity
<1>2. PICK hi \in Nat : hi = write
  BY <1>1
<1>3. PICK n \in 0..NumEnvs : n = batch
  BY <1>1
<1>4. ppc # "publish" => StoreInv(hi)
  BY <1>2 DEF RowsStored, Recorded, StoreInv
<1>5. CASE PollNotFull
  <2>1. /\ StoreInv(hi)' /\ reclaimed' = read /\ rowRead' = RowReadAfter(read)
    BY <1>2, <1>4, <1>5, ReclaimStep DEF PollNotFull
  <2>2. /\ ppc' = "step" /\ write' = write /\ read' = read /\ rowWrite' = rowWrite
        /\ write - read < Capacity /\ rowWrite - RowReadAfter(read) + NumEnvs <= RowCapacity
    BY <1>1, <1>5, SMT DEF PollNotFull, IsFull, Size, CanWriteRows, ringVars
  <2>3. RowsStored'
    BY <1>2, <2>1, <2>2 DEF RowsStored, Recorded, StoreInv
  <2>4. Cursors' /\ RowsFit' /\ RowsCopied'
    BY <1>1, <2>1, <2>2, SMT DEF Cursors, Admitted, RowsFit, RowsCopied
  <2> QED BY <2>3, <2>4
<1>6. CASE PollFull
  <2>1. /\ StoreInv(hi)' /\ (reclaimed' = read \/ reclaimed' = reclaimed)
    <3>1. CASE Size < Capacity
      BY <1>2, <1>4, <1>6, <3>1, ReclaimStep DEF PollFull, ReclaimIfSlotFree
    <3>2. CASE ~(Size < Capacity)
      BY <1>4, <1>6, <3>2, StoreUntouched
         DEF PollFull, ReclaimIfSlotFree, storeVars, metaVars, producerVars
    <3> QED BY <3>1, <3>2
  <2>2. /\ ppc' = "poll" /\ write' = write /\ read' = read
    BY <1>6 DEF PollFull, ringVars, producer
  <2>3. RowsStored'
    BY <1>2, <2>1, <2>2 DEF RowsStored, Recorded, StoreInv
  <2>4. Cursors' /\ RowsFit' /\ RowsCopied'
    BY <1>1, <2>1, <2>2, SMT DEF Cursors, Admitted, RowsFit, RowsCopied
  <2> QED BY <2>3, <2>4
<1>7. CASE StepEnv
  <2>1. /\ ppc = "step" /\ ppc' = "push" /\ write' = write /\ read' = read
        /\ UNCHANGED storeVars
    BY <1>7 DEF StepEnv, ringVars
  <2>2. RowsStored'
    BY <1>2, <1>4, <2>1, StoreUntouched DEF RowsStored, Recorded, StoreInv
  <2>3. Cursors' /\ RowsFit' /\ RowsCopied'
    BY <2>1 DEF Cursors, Admitted, RowsFit, RowsCopied, storeVars
  <2> QED BY <2>2, <2>3
<1>8. CASE PushBegin
  <2>1. /\ ppc = "push" /\ write' = write /\ read' = read /\ batch' = batch
        /\ ppc' \in {"fields", "poll"} /\ rowWrite' = rowWrite
    BY <1>8 DEF PushBegin
  <2>2. Size < Capacity
    BY <1>1, <2>1, SMT DEF Cursors, Admitted, Size
  <2>3. /\ StoreInv(hi)' /\ reclaimed' = read /\ rowRead' = RowReadAfter(read)
    BY <1>2, <1>4, <1>8, <2>1, <2>2, ReclaimStep DEF PushBegin, ReclaimIfSlotFree
  <2>4. RowsStored'
    BY <1>2, <2>1, <2>3 DEF RowsStored, Recorded, StoreInv
  <2>5. ppc' = "fields" => rowWrite - RowReadAfter(read) + batch <= RowCapacity
    BY <1>8 DEF PushBegin, PushHasRoom, CanWriteRows
  <2>6. Cursors' /\ RowsFit' /\ RowsCopied'
    BY <1>1, <2>1, <2>2, <2>3, <2>5, SMT DEF Cursors, Admitted, RowsFit, RowsCopied, Size
  <2> QED BY <2>4, <2>6
<1>9. CASE PushFields
  <2>1. /\ ppc = "fields" /\ ppc' = "rows" /\ write' = write /\ read' = read
        /\ batch' = batch /\ UNCHANGED storeVars
    BY <1>9 DEF PushFields
  <2>2. RowsStored'
    BY <1>2, <1>4, <2>1, StoreUntouched DEF RowsStored, Recorded, StoreInv
  <2>3. Cursors' /\ RowsFit' /\ RowsCopied'
    BY <2>1 DEF Cursors, Admitted, RowsFit, RowsCopied, storeVars
  <2> QED BY <2>2, <2>3
<1>10. CASE PushRows
  <2>1. /\ ppc = "rows" /\ ppc' = "meta" /\ write' = write /\ read' = read
        /\ batch' = batch /\ CopyRowsIn(hi, n)
        /\ UNCHANGED <<starts, counts, ends, rowWrite, rowRead, reclaimed>>
    BY <1>2, <1>3, <1>10 DEF PushRows, ringVars, metaVars, producerVars
  <2>2. rowWrite - rowRead + n <= RowCapacity
    BY <1>3, <2>1 DEF RowsFit
  <2>3. StoreInv(hi)'
    BY <1>4, <2>1, <2>2, CopyKeepsStore
  <2>4. \A k \in 1..n : rows'[CellOf(rowWrite + k - 1)] = <<hi, k>>
    BY <2>1, CopiedRowsArrive DEF TypeOK
  <2>5. RowsStored' /\ RowsCopied'
    BY <1>2, <1>3, <2>1, <2>3, <2>4 DEF RowsStored, Recorded, StoreInv, RowsCopied
  <2>6. Cursors' /\ RowsFit'
    BY <2>1 DEF Cursors, Admitted, RowsFit
  <2> QED BY <2>5, <2>6
<1>11. CASE PushMeta
  <2>1. /\ ppc = "meta" /\ ppc' = "publish" /\ write' = write /\ read' = read
        /\ RecordRows(hi, n) /\ UNCHANGED <<rows, rowRead, reclaimed>>
    BY <1>2, <1>3, <1>11 DEF PushMeta, ringVars, producerVars
  <2>2. /\ hi - reclaimed < Capacity /\ rowWrite - rowRead + n <= RowCapacity
        /\ \A k \in 1..n : rows[CellOf(rowWrite + k - 1)] = <<hi, k>>
    BY <1>2, <1>3, <2>1 DEF Cursors, Admitted, RowsFit, RowsCopied
  <2>3. StoreInv(hi + 1)'
    BY <1>4, <2>1, <2>2, RecordKeepsStore
  <2>4. RowsStored'
    BY <1>2, <2>1, <2>3 DEF RowsStored, Recorded, StoreInv
  <2>5. Cursors' /\ RowsFit' /\ RowsCopied'
    BY <2>1 DEF Cursors, Admitted, RowsFit, RowsCopied
  <2> QED BY <2>4, <2>5
<1>12. CASE PushPublish
  <2>1. /\ ppc = "publish" /\ ppc' = "poll" /\ write' = write + 1 /\ read' = read
        /\ UNCHANGED storeVars
    BY <1>12 DEF PushPublish
  <2>2. hi + 1 \in Nat /\ StoreInv(hi + 1)
    BY <1>2, <2>1, SMT DEF RowsStored, Recorded, StoreInv
  <2>3. StoreInv(hi + 1)'
    BY <2>1, <2>2, StoreUntouched
  <2>4. RowsStored'
    BY <1>2, <2>1, <2>3 DEF RowsStored, Recorded, StoreInv
  <2>5. Cursors' /\ RowsFit' /\ RowsCopied'
    BY <1>1, <2>1, SMT DEF Cursors, Admitted, RowsFit, RowsCopied, storeVars
  <2> QED BY <2>4, <2>5
<1>13. CASE Consume \/ UNCHANGED vars
  <2>1. /\ UNCHANGED <<ppc, batch, write>> /\ UNCHANGED storeVars
    BY <1>13 DEF Consume, ReadSpan, CopySlot, ReadFinal, CommitReads, ringVars, producer, vars
  <2>2. read' \in Nat /\ read <= read' /\ read' <= write
    BY <1>1, <1>13, SMT DEF Consume, ReadSpan, CopySlot, ReadFinal, CommitReads, Release,
       ringVars, vars, ConsumerSide, DrainInOrder, Cursors, TypeOK
  <2>3. RowsStored'
    <3>1. PICK to \in Nat : to = Recorded
      BY <1>1, SMT DEF Recorded
    <3>2. StoreInv(to) /\ to = Recorded'
      BY <2>1, <3>1 DEF RowsStored, Recorded, StoreInv
    <3>3. StoreInv(to)'
      BY <2>1, <3>2, StoreUntouched
    <3> QED BY <3>2, <3>3 DEF RowsStored, StoreInv
  <2>4. Cursors'
    <3>1. reclaimed' = reclaimed /\ write' = write /\ ppc' = ppc
      BY <2>1 DEF storeVars
    <3> QED BY <1>1, <2>2, <3>1, SMT DEF Cursors, Admitted
  <2>5. RowsFit' /\ RowsCopied'
    BY <2>1 DEF RowsFit, RowsCopied, storeVars
  <2> QED BY <2>3, <2>4, <2>5
<1> QED BY <1>5, <1>6, <1>7, <1>8, <1>9, <1>10, <1>11, <1>12, <1>13
        DEF Next, Produce, Finished

-----------------------------------------------------------------------------
\* The slot being filled is none of those the learner may still read.
LEMMA UnreadApart ==
  ASSUME TypeOK, Cursors, NEW g \in Unread
  PROVE  /\ g \in Nat /\ SlotOf(g) \in Slots /\ g < write
         /\ g \in reclaimed..(write - 1)
         /\ Admitted => SlotOf(g) # SlotOf(write)
<1>1. /\ write \in Nat /\ read \in Nat /\ reclaimed \in Nat /\ Capacity \in Nat
  BY SizesAssumption DEF TypeOK, StoreTypeOK
<1>2. g \in Nat /\ g < write /\ g \in reclaimed..(write - 1)
  BY <1>1, SMT DEF Unread, Cursors
<1>3. SlotOf(g) \in Slots
  BY <1>2, PlacesInRange
<1>4. Admitted => write - g < Capacity
  BY <1>1, <1>2, SMT DEF Cursors
<1>5. Admitted => SlotOf(g) # SlotOf(write)
  BY <1>1, <1>2, <1>4, SlotsDistinct
<1> QED BY <1>2, <1>3, <1>5

\* The collector never touches a slot the learner may still read.
LEMMA ProduceKeepsUnread ==
  ASSUME TypeOK, Cursors, Produce, NEW g \in Unread
  PROVE  slots'[SlotOf(g)] = slots[SlotOf(g)]
<1>1. CASE PushBegin \/ PushFields
  <2>1. Admitted
    BY <1>1 DEF PushBegin, PushFields, Admitted
  <2>2. \/ slots' = slots
        \/ \E b : slots' = [slots EXCEPT ![SlotOf(write)] = b]
    BY <1>1 DEF PushBegin, PushFields
  <2> QED BY <2>1, <2>2, UnreadApart DEF TypeOK
<1>2. CASE ~(PushBegin \/ PushFields)
  BY <1>2 DEF Produce, PollNotFull, PollFull, StepEnv, PushRows, PushMeta, PushPublish, ringVars
<1> QED BY <1>1, <1>2

\* The pre-step check is still good when push repeats it.
LEMMA PushNeverRefused ==
  ASSUME IInv, PushBegin
  PROVE  PushHasRoom
<1> USE DEF IInv, StoreSide
<1>1. /\ Capacity \in Nat /\ NumEnvs \in Nat /\ RowCapacity \in Nat
      /\ write \in Nat /\ read \in Nat /\ batch \in 0..NumEnvs
      /\ rowWrite \in Nat /\ rowRead \in Nat /\ reclaimed \in Nat
  BY SizesAssumption, SMT DEF TypeOK, StoreTypeOK, RowCapacity
<1>2. PICK hi \in Nat : hi = write
  BY <1>1
<1>3. ppc = "push" /\ Size < Capacity
  BY <1>1, SMT DEF PushBegin, Cursors, Admitted, Size
<1>4. StoreInv(hi)
  BY <1>2, <1>3 DEF RowsStored, Recorded, StoreInv
<1>5. ReclaimRows(read) /\ UNCHANGED <<rows, metaVars, rowWrite>>
  BY <1>3 DEF PushBegin, ReclaimIfSlotFree
<1>6. /\ rowRead' = RowReadAfter(read) /\ rowRead <= rowRead' /\ StoreInv(hi)'
  BY <1>2, <1>4, <1>5, ReclaimStep
<1>7. RowReadAfter(read) \in Nat /\ rowRead <= RowReadAfter(read)
  BY <1>6 DEF StoreInv, StoreTypeOK
<1>8. rowWrite - rowRead + NumEnvs <= RowCapacity
  BY <1>3 DEF RowsFit
<1>9. /\ rowWrite - RowReadAfter(read) + NumEnvs <= RowCapacity
      /\ rowWrite - RowReadAfter(read) + batch <= RowCapacity
  BY <1>1, <1>7, <1>8, SMT
<1>10. ~(Size >= Capacity)
  BY <1>1, <1>3, SMT DEF Size
<1> QED BY <1>9, <1>10 DEF PushHasRoom, IsFull, CanWriteRows

\* Every step keeps the published slots, their row counts and the slot being
\* filled, and loses no env step.
LEMMA SlotStep ==
  ASSUME IInv, [Next]_vars
  PROVE  SlotSide'
<1> USE DEF IInv, StoreSide, SlotSide
<1>1. /\ write \in Nat /\ read \in Nat /\ batch \in 0..NumEnvs /\ SlotOf(write) \in Slots
  BY PlacesInRange, SMT DEF TypeOK
<1>2. \A g \in Unread : /\ SlotOf(g) \in Slots /\ g \in reclaimed..(write - 1) /\ g \in Nat
                        /\ Admitted => SlotOf(g) # SlotOf(write)
  BY UnreadApart
<1>3. CASE PollNotFull \/ PollFull \/ StepEnv
  <2>1. /\ UNCHANGED <<slots, counts, write, read, dropped>>
        /\ ppc' \in {"poll", "step", "push"}
    BY <1>3 DEF PollNotFull, PollFull, StepEnv, ringVars, metaVars, producer, storeVars
  <2> QED BY <2>1 DEF NoClobber, CountsMatch, SlotFilled, NoStepDropped, Unread
<1>4. CASE PushBegin
  <2>1. PushHasRoom
    BY <1>4, PushNeverRefused
  <2>2. /\ slots' = [slots EXCEPT ![SlotOf(write)] = NoBatch] /\ ppc' = "fields"
        /\ UNCHANGED <<counts, write, read, dropped>> /\ Admitted
    BY <1>4, <2>1 DEF PushBegin, metaVars, Admitted
  <2>3. \A g \in Unread : slots'[SlotOf(g)] = slots[SlotOf(g)]
    BY <1>2, <2>2 DEF TypeOK
  <2> QED BY <2>2, <2>3 DEF NoClobber, CountsMatch, SlotFilled, NoStepDropped, Unread
<1>5. CASE PushFields
  <2>1. /\ slots' = [slots EXCEPT ![SlotOf(write)] = [gen |-> write, n |-> batch]]
        /\ ppc' = "rows" /\ UNCHANGED <<counts, write, read, dropped, batch>> /\ Admitted
    BY <1>5 DEF PushFields, storeVars, Admitted
  <2>2. \A g \in Unread : slots'[SlotOf(g)] = slots[SlotOf(g)]
    BY <1>2, <2>1 DEF TypeOK
  <2>3. slots'[SlotOf(write)] = [gen |-> write, n |-> batch]
    BY <1>1, <2>1 DEF TypeOK
  <2> QED BY <2>1, <2>2, <2>3 DEF NoClobber, CountsMatch, SlotFilled, NoStepDropped, Unread
<1>6. CASE PushRows
  <2>1. /\ UNCHANGED <<slots, counts, write, read, dropped, batch>>
        /\ ppc = "rows" /\ ppc' = "meta"
    BY <1>6 DEF PushRows, ringVars, metaVars
  <2> QED BY <2>1 DEF NoClobber, CountsMatch, SlotFilled, NoStepDropped, Unread
<1>7. CASE PushMeta
  <2>1. PICK hi \in Nat : hi = write
    BY <1>1
  <2>2. PICK n \in 0..NumEnvs : n = batch
    BY <1>1
  <2>3. /\ UNCHANGED <<slots, write, read, dropped, batch>> /\ ppc = "meta" /\ ppc' = "publish"
        /\ RecordRows(hi, n) /\ UNCHANGED <<rows, rowRead, reclaimed>>
    BY <1>7, <2>1, <2>2 DEF PushMeta, ringVars, producerVars
  <2>4. /\ StoreInv(hi) /\ hi - reclaimed < Capacity /\ rowWrite - rowRead + n <= RowCapacity
        /\ \A k \in 1..n : rows[CellOf(rowWrite + k - 1)] = <<hi, k>>
    BY <2>1, <2>2, <2>3
       DEF Cursors, Admitted, RowsFit, RowsCopied, RowsStored, Recorded, StoreInv
  <2>5. /\ counts'[SlotOf(hi)] = n
        /\ \A g \in reclaimed..(hi - 1) : counts'[SlotOf(g)] = counts[SlotOf(g)]
    BY <2>3, <2>4, RecordKeepsStore
  <2> QED BY <1>2, <2>1, <2>2, <2>3, <2>5
          DEF NoClobber, CountsMatch, SlotFilled, NoStepDropped, Unread
<1>8. CASE PushPublish
  <2>1. /\ UNCHANGED <<slots, counts, read, dropped>> /\ write' = write + 1
        /\ ppc = "publish" /\ ppc' = "poll"
    BY <1>8 DEF PushPublish, storeVars
  <2>2. /\ slots[SlotOf(write)].gen = write /\ slots[SlotOf(write)].n = batch
        /\ counts[SlotOf(write)] = batch
    BY <2>1 DEF SlotFilled, CountsMatch
  <2>3. \A g \in Unread' : g \in Unread \/ g = write
    BY <1>1, <2>1, SMT DEF Unread
  <2>4. NoClobber' /\ CountsMatch'
    BY <2>1, <2>2, <2>3 DEF NoClobber, CountsMatch
  <2> QED BY <2>1, <2>4 DEF SlotFilled, NoStepDropped
<1>9. CASE Consume \/ UNCHANGED vars
  <2>1. UNCHANGED <<slots, counts, write, dropped, batch, ppc>>
    BY <1>9 DEF Consume, ReadSpan, CopySlot, ReadFinal, CommitReads, ringVars, producer, vars, storeVars
  <2>2. read' \in Nat /\ read <= read'
    BY <1>1, <1>9, SMT DEF Consume, ReadSpan, CopySlot, ReadFinal, CommitReads, Release,
       ringVars, vars, TypeOK
  <2>3. \A g \in Unread' : g \in Unread
    BY <1>1, <2>1, <2>2, SMT DEF Unread
  <2> QED BY <2>1, <2>3 DEF NoClobber, CountsMatch, SlotFilled, NoStepDropped
<1> QED BY <1>3, <1>4, <1>5, <1>6, <1>7, <1>8, <1>9 DEF Next, Produce, Finished

\* Every step keeps what the learner copied equal to what it was to copy.
LEMMA ConsumerStep ==
  ASSUME IInv, [Next]_vars
  PROVE  ConsumerSide'
<1> USE DEF IInv, StoreSide, SlotSide, ConsumerSide
<1>1. /\ write \in Nat /\ read \in Nat /\ span \in Nat
      /\ copied \in Seq(Item) /\ Len(copied) \in Nat
      /\ finals \in Seq(Seq(Row)) /\ Len(finals) \in Nat
  BY SizesAssumption, SMT DEF TypeOK
<1>2. \A i \in 1..span : read + i - 1 \in Unread
  BY <1>1, SMT DEF Unread, DrainInOrder
<1>3. CASE Produce \/ UNCHANGED vars
  <2>1. /\ UNCHANGED <<read, span, cpc, copied, finals>>
        /\ write' \in Nat /\ write <= write'
    BY <1>1, <1>3, SMT DEF Produce, PollNotFull, PollFull, StepEnv, PushBegin, PushFields,
       PushRows, PushMeta, PushPublish, ringVars, consumer, vars
  <2>2. \A i \in 1..Len(copied) :
          slots'[SlotOf(read + i - 1)] = slots[SlotOf(read + i - 1)]
    <3>1. \A g \in Unread : slots'[SlotOf(g)] = slots[SlotOf(g)]
      BY <1>3, ProduceKeepsUnread DEF vars, ringVars
    <3>2. \A i \in 1..Len(copied) : i \in 1..span
      BY <1>1, SMT DEF DrainInOrder
    <3> QED BY <1>2, <3>1, <3>2
  <2>3. CopiesMatch' /\ FinalsMatch'
    BY <2>1, <2>2 DEF CopiesMatch, FinalsMatch
  <2>4. read + span <= write'
    BY <1>1, <2>1, SMT DEF DrainInOrder
  <2>5. DrainInOrder'
    BY <2>1, <2>4 DEF DrainInOrder
  <2> QED BY <2>3, <2>5
<1>4. CASE ReadSpan
  <2>1. PICK k \in 1..Size : span' = k
    BY <1>4 DEF ReadSpan
  <2>2. /\ UNCHANGED <<read, write, copied, finals, slots>> /\ cpc' = "copy" /\ cpc = "poll"
    BY <1>4 DEF ReadSpan, ringVars
  <2>3. Len(copied) = 0 /\ Len(finals) = 0
    BY <1>1, <2>2, SMT DEF DrainInOrder
  <2>4. DrainInOrder'
    BY <1>1, <2>1, <2>2, <2>3, SMT DEF DrainInOrder, Size
  <2> QED BY <2>2, <2>4 DEF CopiesMatch, FinalsMatch
<1>5. CASE CopySlot
  <2> DEFINE item == slots[SlotOf(read + Len(copied))]
  <2>1. /\ UNCHANGED <<read, write, slots, span, cpc, finals>> /\ cpc = "copy"
        /\ copied' = Append(copied, item) /\ Len(copied) < span
    BY <1>5 DEF CopySlot, ringVars
  <2>2. item \in Item
    BY <1>1, PlacesInRange, SMT DEF TypeOK
  <2> HIDE DEF item
  <2>3. /\ Len(copied') = Len(copied) + 1
        /\ \A i \in 1..Len(copied) : copied'[i] = copied[i]
        /\ copied'[Len(copied) + 1] = item
    BY <1>1, <2>1, <2>2, SMT
  <2>4. DrainInOrder'
    BY <1>1, <2>1, <2>3, SMT DEF DrainInOrder
  <2>5. CopiesMatch'
    <3> SUFFICES ASSUME NEW i \in 1..Len(copied')
                 PROVE  copied'[i] = slots[SlotOf(read + i - 1)]
      BY <2>1 DEF CopiesMatch
    <3>1. CASE i = Len(copied) + 1
      <4>1. read + i - 1 = read + Len(copied)
        BY <1>1, <3>1, SMT
      <4> QED BY <2>3, <3>1, <4>1 DEF item
    <3>2. CASE i # Len(copied) + 1
      <4>1. i \in 1..Len(copied)
        BY <1>1, <2>3, <3>2, SMT
      <4> QED BY <2>3, <4>1 DEF CopiesMatch
    <3> QED BY <3>1, <3>2
  <2>6. FinalsMatch'
    <3>1. \A i \in 1..Len(finals) : i \in 1..Len(copied)
      BY <1>1, SMT DEF DrainInOrder
    <3> QED BY <2>1, <2>3, <3>1 DEF FinalsMatch
  <2> QED BY <2>4, <2>5, <2>6
<1>6. CASE ReadFinal
  <2> DEFINE g == read + Len(finals)
             p == PayloadAt(g)
  <2>1. /\ UNCHANGED <<read, write, slots, span, cpc, copied>> /\ cpc = "copy"
        /\ finals' = Append(finals, p) /\ Len(copied) = span /\ Len(finals) < span
    BY <1>6 DEF ReadFinal, ringVars
  <2>2. /\ Len(finals) + 1 \in 1..span /\ g = read + (Len(finals) + 1) - 1 /\ g \in Int
        /\ Len(finals) + 1 \in 1..Len(copied)
    BY <1>1, <2>1, SMT
  <2>3. g \in Unread
    BY <1>2, <2>2
  <2>4. /\ RowsHeld(g) /\ counts[SlotOf(g)] = slots[SlotOf(g)].n
    <3>1. /\ write \in Nat /\ g \in reclaimed..(write - 1)
      BY <1>1, <2>3, UnreadApart
    <3>2. g \in reclaimed..(Recorded - 1)
      BY <3>1, SMT DEF Recorded, TypeOK, StoreTypeOK
    <3> QED BY <2>3, <3>2 DEF RowsStored, StoreInv, CountsMatch
  <2>5. copied[Len(finals) + 1].n = counts[SlotOf(g)]
    BY <2>2, <2>4 DEF CopiesMatch
  <2>6. p = [k \in 1..copied[Len(finals) + 1].n |-> <<g, k>>]
    BY <2>4, <2>5 DEF PayloadAt, RowsHeld
  <2>7. p \in Seq(Row)
    BY <2>2, PayloadTyped DEF TypeOK
  <2> HIDE DEF p
  <2>8. /\ Len(finals') = Len(finals) + 1
        /\ \A i \in 1..Len(finals) : finals'[i] = finals[i]
        /\ finals'[Len(finals) + 1] = p
    BY <1>1, <2>1, <2>7, SMT
  <2>9. DrainInOrder'
    BY <1>1, <2>1, <2>8, SMT DEF DrainInOrder
  <2>10. FinalsMatch'
    <3> SUFFICES ASSUME NEW i \in 1..Len(finals')
                 PROVE  finals'[i] = [k \in 1..copied[i].n |-> <<read + i - 1, k>>]
      BY <2>1 DEF FinalsMatch
    <3>1. CASE i = Len(finals) + 1
      BY <2>2, <2>6, <2>8, <3>1
    <3>2. CASE i # Len(finals) + 1
      <4>1. i \in 1..Len(finals)
        BY <1>1, <2>8, <3>2, SMT
      <4> QED BY <2>8, <4>1 DEF FinalsMatch
    <3> QED BY <3>1, <3>2
  <2>11. CopiesMatch'
    BY <2>1 DEF CopiesMatch
  <2> QED BY <2>9, <2>10, <2>11
<1>7. CASE CommitReads
  <2>1. /\ span' = 0 /\ copied' = <<>> /\ finals' = <<>> /\ write' = write
        /\ read' = read + span
    BY <1>7 DEF CommitReads, Release
  <2>2. Len(copied') = 0 /\ Len(finals') = 0
    BY <2>1
  <2>3. DrainInOrder'
    BY <1>1, <2>1, <2>2, SMT DEF DrainInOrder
  <2> QED BY <2>2, <2>3 DEF CopiesMatch, FinalsMatch
<1> QED BY <1>3, <1>4, <1>5, <1>6, <1>7 DEF Next, Consume, Finished

-----------------------------------------------------------------------------
\* IInv is an invariant: it holds at the start and every step keeps it.
THEOREM Inductive == Spec => []IInv
<1>1. Init => IInv
  <2> SUFFICES ASSUME Init, TypeOK PROVE IInv
    BY InitTypeOK
  <2>1. /\ write = 0 /\ read = 0 /\ reclaimed = 0 /\ rowWrite = 0 /\ rowRead = 0
        /\ ppc = "poll" /\ cpc = "poll" /\ span = 0 /\ dropped = 0
        /\ Len(copied) = 0 /\ Len(finals) = 0
    BY DEF Init, StoreInit
  <2>2. Unread = {} /\ Recorded = 0 /\ 0..(0 - 1) = {}
    BY <2>1, SMT DEF Unread, Recorded
  <2>3. RowsStored
    <3>1. Capacity \in Nat /\ RowCapacity \in Nat
      BY SizesAssumption, SMT DEF RowCapacity
    <3>2. 0 <= 0 /\ 0 - 0 <= Capacity /\ 0 - 0 <= RowCapacity
      BY <3>1, SMT
    <3> QED BY <2>1, <2>2, <3>2 DEF RowsStored, StoreInv, TypeOK
  <2>4. StoreSide
    BY <2>1, <2>3, SMT DEF StoreSide, Cursors, Admitted, RowsFit, RowsCopied
  <2>5. SlotSide
    BY <2>1, <2>2 DEF SlotSide, NoClobber, CountsMatch, SlotFilled, NoStepDropped
  <2>6. ConsumerSide
    BY <2>1, SMT DEF ConsumerSide, DrainInOrder, CopiesMatch, FinalsMatch
  <2> QED BY <2>4, <2>5, <2>6 DEF IInv
<1>2. IInv /\ [Next]_vars => IInv'
  BY NextTypeOK, StoreStep, SlotStep, ConsumerStep DEF IInv
<1> QED BY <1>1, <1>2, PTL DEF Spec

\* push never refuses the step that step_once took after its capacity check:
\* no env step is lost, for any capacity and any number of environments.
THEOREM NoStepIsDropped == Spec => []NoStepDropped
<1>1. IInv => NoStepDropped
  BY DEF IInv, SlotSide
<1> QED BY <1>1, Inductive, PTL

\* A published slot keeps its batch until the learner acknowledges it.
THEOREM NothingClobbered == Spec => []NoClobber
<1>1. IInv => NoClobber
  BY DEF IInv, SlotSide
<1> QED BY <1>1, Inductive, PTL

\* The rows of an unread slot are those of its own finished episodes.
LEMMA IntactPayloads == IInv => FinalRowsAligned
<1> SUFFICES ASSUME IInv, NEW g \in Unread
             PROVE  PayloadAt(g) = [k \in 1..slots[SlotOf(g)].n |-> <<g, k>>]
  BY DEF FinalRowsAligned
<1>1. write \in Nat /\ g \in reclaimed..(write - 1)
  BY UnreadApart DEF IInv, StoreSide, TypeOK
<1>2. g \in reclaimed..(Recorded - 1)
  BY <1>1, SMT DEF Recorded, IInv, TypeOK, StoreTypeOK
<1>3. RowsHeld(g) /\ counts[SlotOf(g)] = slots[SlotOf(g)].n
  BY <1>2 DEF IInv, StoreSide, SlotSide, RowsStored, StoreInv, CountsMatch
<1> QED BY <1>3 DEF PayloadAt, RowsHeld

\* The final rows of a published slot are those of its own finished episodes,
\* although rows wrap at another rate than slots and are released lazily.
THEOREM FinalRowsAreAligned == Spec => []FinalRowsAligned
BY IntactPayloads, Inductive, PTL

\* What the learner copies out of a run before acknowledging it is that run,
\* transitions and final rows, while the collector keeps pushing.
THEOREM IngestIsIntact == Spec => []IngestIntact
<1>1. IInv => IngestIntact
  <2> SUFFICES ASSUME IInv PROVE IngestIntact
    OBVIOUS
  <2>1. \A i \in 1..Len(copied) : read + i - 1 \in Unread
    BY SMT DEF IInv, ConsumerSide, DrainInOrder, TypeOK, Unread
  <2>2. \A i \in 1..Len(copied) : copied[i].gen = read + i - 1
    BY <2>1 DEF IInv, SlotSide, ConsumerSide, NoClobber, CopiesMatch
  <2> QED BY <2>2 DEF IngestIntact, IInv, ConsumerSide, FinalsMatch
<1> QED BY <1>1, Inductive, PTL

-----------------------------------------------------------------------------
(* The queue.                                                              *)

Batches == [slot : Item, final : Seq(Row)]

\* The learner has taken what it has released, and never drains an empty run.
TakenInStep ==
  /\ taken \in Seq(Batches) /\ Len(taken) = read
  /\ cpc = "copy" => span > 0

\* Seen as a queue, the ring holds the batches of its unread steps, in order.
QueueIntact ==
  /\ Size \in Nat
  /\ queueBar \in Seq(Batches) /\ Len(queueBar) = Size
  /\ \A i \in 1..Size :
       /\ read + i - 1 \in Unread
       /\ queueBar[i] = Fifo!Batch(read + i - 1, slots[SlotOf(read + i - 1)].n)

LEMMA RingIsQueue == IInv => QueueIntact
<1> SUFFICES ASSUME IInv PROVE QueueIntact
  OBVIOUS
<1>1. Size \in Nat
  BY SMT DEF IInv, StoreSide, Cursors, TypeOK, Size
<1>2. ASSUME NEW i \in 1..Size
      PROVE  /\ read + i - 1 \in Unread
             /\ slots[SlotOf(read + i - 1)] \in Item /\ PayloadAt(read + i - 1) \in Seq(Row)
             /\ slots[SlotOf(read + i - 1)] = [gen |-> read + i - 1, n |-> slots[SlotOf(read + i - 1)].n]
             /\ PayloadAt(read + i - 1)
                  = [k \in 1..slots[SlotOf(read + i - 1)].n |-> <<read + i - 1, k>>]
  <2>1. PICK g \in Int : g = read + i - 1
    BY <1>1, SMT DEF IInv, TypeOK
  <2>2. g \in Unread
    BY <1>1, <2>1, SMT DEF IInv, TypeOK, Unread, Size
  <2>3. slots[SlotOf(g)] \in Item
    BY PlacesInRange DEF IInv, TypeOK
  <2>4. slots[SlotOf(g)] = [gen |-> g, n |-> slots[SlotOf(g)].n]
    BY <2>2, <2>3 DEF IInv, SlotSide, NoClobber, Item
  <2>5. PayloadAt(g) \in Seq(Row)
    BY PayloadTyped DEF IInv, TypeOK
  <2>6. PayloadAt(g) = [k \in 1..slots[SlotOf(g)].n |-> <<g, k>>]
    BY <2>2, IntactPayloads DEF FinalRowsAligned
  <2> QED BY <2>1, <2>2, <2>3, <2>4, <2>5, <2>6
<1>3. \A i \in 1..Size : [slot |-> slots[SlotOf(read + i - 1)], final |-> PayloadAt(read + i - 1)] \in Batches
  BY <1>2 DEF Batches
<1>4. queueBar \in Seq(Batches) /\ Len(queueBar) = Size
  BY <1>1, <1>3, IsASeq DEF queueBar
<1>5. \A i \in 1..Size : queueBar[i] = Fifo!Batch(read + i - 1, slots[SlotOf(read + i - 1)].n)
  BY <1>2 DEF queueBar, Fifo!Batch
<1> QED BY <1>1, <1>2, <1>4, <1>5 DEF QueueIntact

LEMMA RingStaysQueue == IInv' => QueueIntact'
BY RingIsQueue, PTL

\* The queue is the same after a step that moves no cursor.
LEMMA QueueKept ==
  ASSUME IInv, IInv', read' = read, write' = write,
         \A g \in Unread : slots'[SlotOf(g)] = slots[SlotOf(g)]
  PROVE  queueBar' = queueBar
<1>1. QueueIntact /\ QueueIntact'
  BY RingIsQueue, RingStaysQueue
<1>2. Size' = Size
  BY DEF Size
<1>3. \A i \in 1..Size : queueBar'[i] = queueBar[i]
  BY <1>1, <1>2 DEF QueueIntact
<1>4. queueBar' \in Seq(Batches) /\ queueBar \in Seq(Batches) /\ Len(queueBar') = Len(queueBar) /\ Len(queueBar) = Size
  BY <1>1, <1>2 DEF QueueIntact
<1> QED BY <1>3, <1>4, SeqEqual

\* Publishing puts the collector's step at the end of the queue ...
LEMMA PublishPuts ==
  ASSUME IInv, IInv', TakenInStep, PushPublish
  PROVE  Fifo!Put
<1>1. QueueIntact /\ QueueIntact'
  BY RingIsQueue, RingStaysQueue
<1>2. /\ ppc = "publish" /\ write' = write + 1 /\ UNCHANGED <<read, slots, taken>>
  BY DEF PushPublish, consumer
<1>3. /\ read \in Nat /\ write \in Nat /\ batch \in 0..NumEnvs /\ reclaimed \in Nat
      /\ Capacity \in Nat /\ Size \in Nat /\ Len(taken) = read
  BY <1>1, SizesAssumption DEF IInv, TypeOK, StoreTypeOK, QueueIntact, TakenInStep
<1>4. Size < Capacity /\ Size' = Size + 1 /\ read + Size = write
  BY <1>2, <1>3, SMT DEF IInv, StoreSide, Cursors, Admitted, Size
<1>5. slots[SlotOf(write)].n = batch
  BY <1>2 DEF IInv, SlotSide, SlotFilled
<1> DEFINE b == Fifo!Batch(write, batch)
           q == queueBar
           r == queueBar'
<1>6. r \in Seq(Batches) /\ Len(r) = Size + 1 /\ q \in Seq(Batches) /\ Len(q) = Size
  BY <1>1, <1>4 DEF QueueIntact
<1>7. r[Size + 1] = b
  <2>1. Size + 1 \in 1..Size'  BY <1>3, <1>4, SMT
  <2>2. read' + (Size + 1) - 1 = write  BY <1>2, <1>3, <1>4, SMT
  <2> QED BY <1>1, <1>2, <1>5, <2>1, <2>2 DEF QueueIntact
<1>8. \A i \in 1..Size : r[i] = q[i]
  <2>1. \A i \in 1..Size : i \in 1..Size'  BY <1>3, <1>4, SMT
  <2> QED BY <1>1, <1>2, <2>1 DEF QueueIntact
<1> HIDE DEF q, r, b
<1>9. r = Append(q, b)
  BY <1>6, <1>7, <1>8, IsAppended
<1>10. Len(taken) + Len(q) = write
  BY <1>3, <1>4, <1>6
<1> QED BY <1>2, <1>3, <1>4, <1>6, <1>9, <1>10 DEF Fifo!Put, q, r, b

\* ... and an acknowledgement takes the run off its front.
LEMMA CommitTakes ==
  ASSUME IInv, IInv', TakenInStep, CommitReads
  PROVE  Fifo!Take /\ TakenInStep'
<1>1. QueueIntact /\ QueueIntact'
  BY RingIsQueue, RingStaysQueue
<1>2. /\ cpc = "copy" /\ cpc' = "poll" /\ read' = read + span /\ write' = write /\ slots' = slots
      /\ Len(finals) = span
      /\ taken' = taken \o [i \in 1..span |-> [slot |-> copied[i], final |-> finals[i]]]
  BY DEF CommitReads, Release
<1>3. /\ read \in Nat /\ write \in Nat /\ span \in Nat /\ Size \in Nat /\ Len(taken) = read
      /\ taken \in Seq(Batches) /\ copied \in Seq(Item) /\ finals \in Seq(Seq(Row))
  BY <1>1, SizesAssumption DEF IInv, TypeOK, QueueIntact, TakenInStep
<1>4. span \in 1..Size /\ Size' = Size - span /\ Len(copied) = span
  <2>1. span > 0 /\ read + span <= write /\ Len(copied) \in Nat
        /\ Len(copied) <= span /\ Len(finals) <= Len(copied)
    BY <1>2, <1>3 DEF TakenInStep, IInv, ConsumerSide, DrainInOrder
  <2> QED BY <1>2, <1>3, <2>1, SMT DEF Size
<1> DEFINE q == queueBar
           r == queueBar'
           run == [i \in 1..span |-> [slot |-> copied[i], final |-> finals[i]]]
<1>5. /\ q \in Seq(Batches) /\ Len(q) = Size /\ r \in Seq(Batches) /\ Len(r) = Size - span
  BY <1>1, <1>4 DEF QueueIntact
<1>6. \A i \in 1..span : run[i] = q[i]
  <2> SUFFICES ASSUME NEW i \in 1..span
               PROVE  [slot |-> copied[i], final |-> finals[i]] = q[i]
    OBVIOUS
  <2>1. i \in 1..Len(copied) /\ i \in 1..Len(finals) /\ i \in 1..Size
    BY <1>2, <1>3, <1>4, SMT
  <2>2. copied[i] = slots[SlotOf(read + i - 1)]
    BY <2>1 DEF IInv, ConsumerSide, CopiesMatch
  <2>3. finals[i] = [k \in 1..copied[i].n |-> <<read + i - 1, k>>]
    BY <2>1 DEF IInv, ConsumerSide, FinalsMatch
  <2>4. PayloadAt(read + i - 1) = [k \in 1..slots[SlotOf(read + i - 1)].n |-> <<read + i - 1, k>>]
    BY <1>1, <2>1, IntactPayloads DEF QueueIntact, FinalRowsAligned
  <2> QED BY <2>1, <2>2, <2>3, <2>4 DEF queueBar
<1>7. \A i \in 1..(Size - span) : r[i] = q[span + i]
  <2> SUFFICES ASSUME NEW i \in 1..(Size - span)
               PROVE  r[i] = q[span + i]
    OBVIOUS
  <2>1. i \in 1..Size' /\ span + i \in 1..Size /\ read' + i - 1 = read + (span + i) - 1
    BY <1>2, <1>3, <1>4, SMT
  <2>2. /\ r[i] = Fifo!Batch(read' + i - 1, slots[SlotOf(read' + i - 1)].n)
        /\ q[span + i] = Fifo!Batch(read + (span + i) - 1, slots[SlotOf(read + (span + i) - 1)].n)
    BY <1>1, <1>2, <2>1 DEF QueueIntact
  <2> QED BY <2>1, <2>2
<1>8. \A i \in 1..Size : q[i] \in Batches
  BY <1>5, ElementOfSeq
<1> HIDE DEF q, r
<1>9. run \in Seq(Batches) /\ Len(run) = span
  <2>1. \A i \in 1..span : [slot |-> copied[i], final |-> finals[i]] \in Batches
    <3>1. \A i \in 1..span : i \in 1..Size  BY <1>3, <1>4, SMT
    <3> QED BY <1>6, <1>8, <3>1
  <2> QED BY <1>3, <2>1, IsASeq
<1> HIDE DEF run
<1>10. run = SubSeq(q, 1, span)
  <2>1. span \in Nat /\ span <= Len(q)
    BY <1>4, <1>5, SMT
  <2> QED BY <1>5, <1>6, <1>9, <2>1, IsPrefixOf
<1>11. r = SubSeq(q, span + 1, Len(q))
  <2>1. span \in Nat /\ span <= Len(q) /\ Len(r) = Len(q) - span
    BY <1>4, <1>5, SMT
  <2>2. \A i \in 1..(Len(q) - span) : r[i] = q[span + i]
    BY <1>5, <1>7
  <2> QED BY <1>5, <2>1, <2>2, IsRestOf
<1>12. Fifo!Take
  BY <1>2, <1>4, <1>5, <1>10, <1>11 DEF Fifo!Take, q, r, run
<1>13. TakenInStep'
  <2>1. taken' = taken \o run
    BY <1>2 DEF run
  <2>2. taken' \in Seq(Batches) /\ Len(taken') = Len(taken) + Len(run)
    BY <1>3, <1>9, <2>1, ConcatProperties
  <2> QED BY <1>2, <1>3, <1>9, <2>2 DEF TakenInStep
<1> QED BY <1>12, <1>13

\* Every other step leaves the queue alone.
LEMMA OtherStepsKeepQueue ==
  ASSUME IInv, IInv', TakenInStep, [Next]_vars, ~PushPublish, ~CommitReads
  PROVE  queueBar' = queueBar /\ taken' = taken /\ TakenInStep'
<1>1. CASE Produce
  <2>1. UNCHANGED <<read, write>> /\ taken' = taken /\ cpc' = cpc /\ span' = span
    BY <1>1 DEF Produce, PollNotFull, PollFull, StepEnv, PushBegin, PushFields, PushRows,
       PushMeta, ringVars, consumer
  <2>2. \A g \in Unread : slots'[SlotOf(g)] = slots[SlotOf(g)]
    BY <1>1, ProduceKeepsUnread DEF IInv, StoreSide
  <2>3. queueBar' = queueBar
    BY <2>1, <2>2, QueueKept
  <2> QED BY <2>1, <2>3 DEF TakenInStep
<1>2. CASE ReadSpan \/ CopySlot \/ ReadFinal \/ UNCHANGED vars
  <2>1. UNCHANGED <<read, write, slots>> /\ taken' = taken
    BY <1>2 DEF ReadSpan, CopySlot, ReadFinal, ringVars, vars, consumer
  <2>2. queueBar' = queueBar
    BY <2>1, QueueKept
  <2>3. cpc' = "copy" => span' > 0
    <3>1. CASE ReadSpan
      <4>1. PICK k \in 1..Size : span' = k
        BY <3>1 DEF ReadSpan
      <4>2. Size \in Nat
        BY RingIsQueue DEF QueueIntact
      <4> QED BY <4>1, <4>2, SMT
    <3>2. CASE CopySlot \/ ReadFinal \/ UNCHANGED vars
      <4>1. cpc' = cpc /\ span' = span
        BY <3>2 DEF CopySlot, ReadFinal, vars, consumer
      <4> QED BY <4>1 DEF TakenInStep
    <3> QED BY <1>2, <3>1, <3>2
  <2> QED BY <2>1, <2>2, <2>3 DEF TakenInStep
<1> QED BY <1>1, <1>2 DEF Next, Consume, Finished

\* The ring is a bounded first-in first-out queue of whole env steps, each with
\* the final rows of its own finished episodes: every step of either process
\* puts one at the end, takes a run off the front, or changes nothing that the
\* other can see (transport/ring.py, SharedTransitionRing).
THEOREM ImplementsFifo == Spec => RefinesFifo
<1>1. Init => Fifo!Init /\ TakenInStep
  <2> SUFFICES ASSUME Init PROVE Fifo!Init /\ TakenInStep
    OBVIOUS
  <2>1. /\ Size = 0 /\ 1..0 = {} /\ taken = <<>> /\ read = 0 /\ cpc = "poll"
    BY SMT DEF Init, Size
  <2>2. queueBar = <<>>
    BY <2>1 DEF queueBar
  <2> QED BY <2>1, <2>2 DEF Fifo!Init, TakenInStep
<1>2. IInv /\ IInv' /\ TakenInStep /\ [Next]_vars => TakenInStep' /\ [Fifo!Next]_(Fifo!fifoVars)
  <2> SUFFICES ASSUME IInv, IInv', TakenInStep, [Next]_vars
               PROVE  TakenInStep' /\ [Fifo!Next]_(Fifo!fifoVars)
    OBVIOUS
  <2>1. CASE PushPublish
    <3>1. UNCHANGED consumer  BY <2>1 DEF PushPublish
    <3>2. UNCHANGED read  BY <2>1 DEF PushPublish
    <3>3. TakenInStep'  BY <3>1, <3>2 DEF TakenInStep, consumer
    <3> QED BY <2>1, <3>3, PublishPuts DEF Fifo!Next
  <2>2. CASE CommitReads
    BY <2>2, CommitTakes DEF Fifo!Next
  <2>3. CASE ~PushPublish /\ ~CommitReads
    BY <2>3, OtherStepsKeepQueue DEF Fifo!fifoVars
  <2> QED BY <2>1, <2>2, <2>3
<1> QED BY <1>1, <1>2, Inductive, PTL DEF Spec, RefinesFifo, Fifo!Spec
=============================================================================
