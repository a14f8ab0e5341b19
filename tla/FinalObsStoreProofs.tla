------------------------- MODULE FinalObsStoreProofs ------------------------
(***************************************************************************)
(* What the proofs about both rings rest on: lemmas about %, sequences     *)
(* known by their elements, the invariant of the final-row store and the   *)
(* lemmas that each of its operations keeps it, whatever ring it serves.   *)
(***************************************************************************)
EXTENDS FinalObsStore, SequenceTheorems, TLAPS

-----------------------------------------------------------------------------
(* Places.                                                                 *)

\* Division with remainder.
LEMMA DivMod ==
  ASSUME NEW d \in Nat \ {0}, NEW a \in Int
  PROVE  /\ (a % d) \in 0..(d - 1)
         /\ a \div d \in Int
         /\ a = d * (a \div d) + (a % d)
BY SMT

\* A multiple of d that is closer to zero than d is zero.
LEMMA SmallMultiple ==
  ASSUME NEW d \in Nat \ {0}, NEW q \in Int, -d < d * q, d * q < d
  PROVE  q = 0
<1>1. CASE q >= 1
  <2>1. d * q >= d
    BY <1>1, SMT
  <2> QED BY <2>1, SMT
<1>2. CASE q <= -1
  <2>1. d * q <= -d
    BY <1>2, SMT
  <2> QED BY <2>1, SMT
<1> QED BY <1>1, <1>2, SMT

\* The remainder is the only one.
LEMMA ModIs ==
  ASSUME NEW d \in Nat \ {0}, NEW a \in Int, NEW q \in Int, NEW r \in 0..(d - 1),
         a = d * q + r
  PROVE  a % d = r
<1> DEFINE p == a \div d
           s == a % d
<1>1. p \in Int /\ s \in 0..(d - 1) /\ a = d * p + s
  BY DivMod
<1> HIDE DEF p, s
<1>2. d * (q - p) = s - r
  BY <1>1, SMT
<1>3. -d < d * (q - p) /\ d * (q - p) < d
  BY <1>1, <1>2, SMT
<1>4. q - p = 0
  BY <1>1, <1>3, SmallMultiple
<1> QED BY <1>1, <1>2, <1>4, SMT DEF s

\* Two numbers less than d apart have different remainders.
LEMMA ModDistinct ==
  ASSUME NEW d \in Nat \ {0}, NEW a \in Int, NEW b \in Int, a < b, b - a < d
  PROVE  a % d # b % d
<1> SUFFICES ASSUME a % d = b % d PROVE FALSE
  OBVIOUS
<1> DEFINE q == a \div d
           p == b \div d
           r == a % d
<1>1. /\ q \in Int /\ p \in Int /\ r \in 0..(d - 1)
      /\ a = d * q + r /\ b = d * p + r
  BY DivMod
<1> HIDE DEF q, p, r
<1>2. d * (p - q) = b - a
  BY <1>1, SMT
<1>3. p - q = 0
  BY <1>1, <1>2, SmallMultiple, SMT
<1> QED BY <1>2, <1>3, SMT

\* Seen from w, the place of the j-th number from w on is at offset j ...
LEMMA OffsetFromStart ==
  ASSUME NEW d \in Nat \ {0}, NEW w \in Int, NEW j \in 0..(d - 1)
  PROVE  (((w + j) % d) - w) % d = j
<1> DEFINE q == (w + j) \div d
           r == (w + j) % d
<1>1. q \in Int /\ r \in 0..(d - 1) /\ w + j = d * q + r
  BY DivMod
<1> HIDE DEF q, r
<1>2. -q \in Int /\ r - w \in Int /\ r - w = d * (-q) + j
  BY <1>1, SMT
<1>3. (r - w) % d = j
  BY <1>2, ModIs
<1> QED BY <1>3 DEF r

\* ... and the place of one of the d numbers before w is that far from the end.
LEMMA OffsetBeforeStart ==
  ASSUME NEW d \in Nat \ {0}, NEW w \in Int, NEW a \in Int, w - d <= a, a < w
  PROVE  ((a % d) - w) % d = a - w + d
<1> DEFINE q == a \div d
           r == a % d
<1>1. q \in Int /\ r \in 0..(d - 1) /\ a = d * q + r
  BY DivMod
<1> HIDE DEF q, r
<1>2. -q - 1 \in Int /\ r - w \in Int /\ a - w + d \in 0..(d - 1)
  BY <1>1, SMT
<1>3. d * (-q - 1) = -(d * q) - d
  BY <1>1, SMT
<1>4. r - w = d * (-q - 1) + (a - w + d)
  BY <1>1, <1>3, SMT
<1>5. (r - w) % d = a - w + d
  BY <1>2, <1>4, ModIs
<1> QED BY <1>5 DEF r

-----------------------------------------------------------------------------
(* Sequences.                                                              *)

\* One element more: an appended sequence.
LEMMA IsAppended ==
  ASSUME NEW S, NEW q \in Seq(S), NEW r \in Seq(S), Len(r) = Len(q) + 1,
         \A i \in 1..Len(q) : r[i] = q[i]
  PROVE  r = Append(q, r[Len(q) + 1]) /\ r[Len(q) + 1] \in S
<1> DEFINE b == r[Len(q) + 1]
<1>1. Len(q) \in Nat /\ Len(q) + 1 \in 1..Len(r)
  BY LenProperties, SMT
<1>2. b \in S
  BY <1>1, ElementOfSeq
<1> HIDE DEF b
<1>3. /\ Append(q, b) \in Seq(S) /\ Len(Append(q, b)) = Len(q) + 1
      /\ \A i \in 1..Len(q) : Append(q, b)[i] = q[i]
      /\ Append(q, b)[Len(q) + 1] = b
  BY <1>2, AppendProperties
<1>4. ASSUME NEW i \in 1..Len(r)  PROVE r[i] = Append(q, b)[i]
  <2>1. i \in 1..Len(q) \/ i = Len(q) + 1
    BY <1>1, SMT
  <2> QED BY <1>3, <2>1 DEF b
<1>5. r = Append(q, b)
  BY <1>3, <1>4, SeqEqual
<1> QED BY <1>2, <1>5 DEF b

\* The first n elements: a prefix.
LEMMA IsPrefixOf ==
  ASSUME NEW S, NEW q \in Seq(S), NEW n \in Nat, n <= Len(q), NEW r \in Seq(S), Len(r) = n,
         \A i \in 1..n : r[i] = q[i]
  PROVE  r = SubSeq(q, 1, n)
<1> DEFINE t == SubSeq(q, 1, n)
<1>1. \A i \in 1..n : q[i] \in S
  <2>1. \A i \in 1..n : i \in 1..Len(q)  BY LenProperties, SMT
  <2> QED BY <2>1, ElementOfSeq
<1>2. /\ t \in Seq(S) /\ Len(t) = (IF 1 <= n THEN n - 1 + 1 ELSE 0)
      /\ \A i \in 1..(n - 1 + 1) : t[i] = q[1 + i - 1]
  BY <1>1, SubSeqProperties
<1> HIDE DEF t
<1>3. Len(t) = n /\ n - 1 + 1 = n /\ \A i \in 1..n : 1 + i - 1 = i
  BY <1>2, SMT
<1>4. \A i \in 1..Len(r) : r[i] = t[i]
  BY <1>2, <1>3
<1> QED BY <1>2, <1>3, <1>4, SeqEqual DEF t

\* All but the first n elements: the rest.
LEMMA IsRestOf ==
  ASSUME NEW S, NEW q \in Seq(S), NEW n \in Nat, n <= Len(q), NEW r \in Seq(S), Len(r) = Len(q) - n,
         \A i \in 1..(Len(q) - n) : r[i] = q[n + i]
  PROVE  r = SubSeq(q, n + 1, Len(q))
<1> DEFINE m == Len(q)
           t == SubSeq(q, n + 1, m)
<1>0. m \in Nat
  BY LenProperties
<1>1. \A i \in (n + 1)..m : q[i] \in S
  <2>1. \A i \in (n + 1)..m : i \in 1..Len(q)  BY <1>0, SMT
  <2> QED BY <2>1, ElementOfSeq
<1> HIDE DEF m
<1>2. /\ t \in Seq(S) /\ Len(t) = (IF n + 1 <= m THEN m - (n + 1) + 1 ELSE 0)
      /\ \A i \in 1..(m - (n + 1) + 1) : t[i] = q[n + 1 + i - 1]
  BY <1>0, <1>1, SubSeqProperties
<1> HIDE DEF t
<1>3. Len(t) = m - n /\ m - (n + 1) + 1 = m - n /\ \A i \in 1..(m - n) : n + 1 + i - 1 = n + i
  BY <1>0, <1>2, SMT DEF m
<1>4. \A i \in 1..Len(r) : r[i] = t[i]
  BY <1>2, <1>3 DEF m
<1> QED BY <1>2, <1>3, <1>4, SeqEqual DEF t, m

-----------------------------------------------------------------------------
(* The store.                                                              *)

\* The rows recorded for slot number g lie between the released rows and the
\* free ones, and they are the rows of env step g.
RowsHeld(g) ==
  /\ rowRead <= starts[SlotOf(g)]
  /\ ends[SlotOf(g)] = starts[SlotOf(g)] + counts[SlotOf(g)]
  /\ ends[SlotOf(g)] <= rowWrite
  /\ \A k \in 1..counts[SlotOf(g)] :
       rows[CellOf(starts[SlotOf(g)] + k - 1)] = <<g, k>>

\* The slots from reclaimed up to, not including, hi are recorded and hold
\* their rows, which follow one another; the store is not overfull.
StoreInv(hi) ==
  /\ StoreTypeOK
  /\ reclaimed <= hi /\ hi - reclaimed <= Capacity
  /\ rowRead <= rowWrite /\ rowWrite - rowRead <= RowCapacity
  /\ \A g \in reclaimed..(hi - 1) : RowsHeld(g)
  /\ \A g, h \in reclaimed..(hi - 1) :
       g < h => ends[SlotOf(g)] <= starts[SlotOf(h)]

-----------------------------------------------------------------------------
\* Slots and rows have a place in their arrays.
LEMMA PlacesInRange ==
  ASSUME NEW a \in Int
  PROVE  SlotOf(a) \in Slots /\ CellOf(a) \in RowCells
<1>1. Capacity \in Nat \ {0} /\ RowCapacity \in Nat \ {0}
  BY SizesAssumption, SMT DEF RowCapacity
<1> QED BY <1>1, DivMod DEF SlotOf, CellOf, Slots, RowCells

\* Less than a capacity apart, two slot numbers have different places.
LEMMA SlotsDistinct ==
  ASSUME NEW a \in Int, NEW b \in Int, a < b, b - a < Capacity
  PROVE  SlotOf(a) # SlotOf(b)
BY SizesAssumption, ModDistinct DEF SlotOf

\* The invariant depends on the store alone.
LEMMA StoreUntouched ==
  ASSUME NEW hi \in Nat, StoreInv(hi), UNCHANGED storeVars
  PROVE  StoreInv(hi)'
BY DEF storeVars, StoreInv, StoreTypeOK, RowsHeld

\* Copying n rows in writes them at the free end ...
LEMMA CopiedRowsArrive ==
  ASSUME StoreTypeOK, NEW g \in Nat, NEW n \in 0..NumEnvs, CopyRowsIn(g, n)
  PROVE  \A k \in 1..n : rows'[CellOf(rowWrite + k - 1)] = <<g, k>>
<1> SUFFICES ASSUME NEW k \in 1..n
             PROVE  rows'[CellOf(rowWrite + k - 1)] = <<g, k>>
  OBVIOUS
<1> DEFINE c == CellOf(rowWrite + k - 1)
<1>1. /\ RowCapacity \in Nat \ {0} /\ rowWrite \in Int
      /\ k - 1 \in 0..(RowCapacity - 1) /\ k - 1 < n /\ (k - 1) + 1 = k
      /\ rowWrite + (k - 1) = rowWrite + k - 1
  BY SizesAssumption, SMT DEF StoreTypeOK, RowCapacity
<1>2. CellOf(c - rowWrite) = k - 1
  BY <1>1, OffsetFromStart DEF CellOf
<1>3. c \in RowCells
  BY <1>1, PlacesInRange
<1> HIDE DEF c
<1>4. rows'[c] = <<g, k>>
  BY <1>1, <1>2, <1>3 DEF CopyRowsIn
<1> QED BY <1>4 DEF c

\* ... and, if they fit, leaves every row that is not released alone.
LEMMA CopyKeepsRows ==
  ASSUME StoreTypeOK, NEW g \in Nat, NEW n \in 0..NumEnvs, CopyRowsIn(g, n),
         rowWrite - rowRead + n <= RowCapacity,
         NEW a \in Int, rowRead <= a, a < rowWrite
  PROVE  rows'[CellOf(a)] = rows[CellOf(a)]
<1> DEFINE c == CellOf(a)
<1>1. /\ RowCapacity \in Nat \ {0} /\ rowWrite \in Int /\ rowRead \in Int
      /\ rowWrite - RowCapacity <= a
      /\ ~(a - rowWrite + RowCapacity < n)
  BY SizesAssumption, SMT DEF StoreTypeOK, RowCapacity
<1>2. CellOf(c - rowWrite) = a - rowWrite + RowCapacity
  BY <1>1, OffsetBeforeStart DEF CellOf
<1>3. c \in RowCells
  BY PlacesInRange
<1> HIDE DEF c
<1>4. rows'[c] = rows[c]
  BY <1>1, <1>2, <1>3 DEF CopyRowsIn
<1> QED BY <1>4 DEF c

\* Copying rows in keeps every cell a row.
LEMMA CopyTypeOK ==
  ASSUME StoreTypeOK, NEW g \in Nat, NEW n \in 0..NumEnvs, CopyRowsIn(g, n)
  PROVE  rows' \in [RowCells -> Row]
<1> SUFFICES ASSUME NEW c \in RowCells
             PROVE  LET k == CellOf(c - rowWrite)
                    IN  (IF k < n THEN <<g, k + 1>> ELSE rows[c]) \in Row
  BY DEF CopyRowsIn
<1>1. CellOf(c - rowWrite) \in Nat
  <2>1. c - rowWrite \in Int /\ RowCapacity \in Nat
    BY SizesAssumption, SMT DEF RowCells, StoreTypeOK, RowCapacity
  <2>2. CellOf(c - rowWrite) \in RowCells
    BY <2>1, PlacesInRange
  <2> QED BY <2>1, <2>2, SMT DEF RowCells
<1>2. rows[c] \in Row
  BY DEF StoreTypeOK
<1>3. CellOf(c - rowWrite) < n => CellOf(c - rowWrite) + 1 \in 0..NumEnvs
  BY <1>1, SizesAssumption, SMT
<1> QED BY <1>1, <1>2, <1>3, SMT DEF Row

LEMMA CopyKeepsStore ==
  ASSUME NEW hi \in Nat, StoreInv(hi),
         NEW g \in Nat, NEW n \in 0..NumEnvs, CopyRowsIn(g, n),
         rowWrite - rowRead + n <= RowCapacity,
         UNCHANGED <<starts, counts, ends, rowWrite, rowRead, reclaimed>>
  PROVE  StoreInv(hi)'
<1>1. StoreTypeOK'
  BY CopyTypeOK DEF StoreInv, StoreTypeOK
<1>2. ASSUME NEW h \in reclaimed..(hi - 1)
      PROVE  RowsHeld(h)'
  <2> DEFINE s == SlotOf(h)
  <2>1. RowsHeld(h) /\ s \in Slots
    BY <1>2, PlacesInRange, SMT DEF StoreInv, StoreTypeOK
  <2>2. ASSUME NEW k \in 1..counts[s]
        PROVE  rows'[CellOf(starts[s] + k - 1)] = <<h, k>>
    <3>1. /\ StoreTypeOK /\ starts[s] + k - 1 \in Int
          /\ rowRead <= starts[s] + k - 1 /\ starts[s] + k - 1 < rowWrite
      BY <2>1, <2>2, SMT DEF StoreInv, StoreTypeOK, RowsHeld
    <3>2. rows'[CellOf(starts[s] + k - 1)] = rows[CellOf(starts[s] + k - 1)]
      BY <3>1, CopyKeepsRows
    <3> QED BY <2>1, <2>2, <3>2 DEF RowsHeld
  <2> QED BY <2>1, <2>2 DEF RowsHeld
<1> QED BY <1>1, <1>2 DEF StoreInv

\* Releasing the rows of acknowledged slots: what stays is held.
LEMMA ReclaimKeepsStore ==
  ASSUME NEW hi \in Nat, StoreInv(hi), NEW ack \in Nat, ack <= hi,
         ReclaimRows(ack), UNCHANGED <<rows, starts, counts, ends, rowWrite>>
  PROVE  /\ StoreInv(hi)'
         /\ rowRead' = RowReadAfter(ack) /\ rowRead <= rowRead'
         /\ reclaimed <= reclaimed' /\ ack <= reclaimed'
<1>1. CASE ~(reclaimed < ack)
  <2>1. UNCHANGED <<rows, starts, counts, ends, rowWrite, rowRead, reclaimed>>
    BY <1>1 DEF ReclaimRows, RowReadAfter
  <2>2. rowRead \in Nat /\ reclaimed \in Nat
    BY DEF StoreInv, StoreTypeOK
  <2>3. StoreInv(hi)'
    BY <2>1 DEF StoreInv, StoreTypeOK, RowsHeld
  <2> QED BY <1>1, <2>1, <2>2, <2>3, SMT DEF ReclaimRows
<1>2. CASE reclaimed < ack
  <2> DEFINE last == SlotOf(ack - 1)
  <2>1. /\ reclaimed \in Nat /\ rowRead \in Nat /\ rowWrite \in Nat
        /\ ack - 1 \in reclaimed..(hi - 1) /\ ack - 1 \in Int
    BY <1>2, SMT DEF StoreInv, StoreTypeOK
  <2>2. /\ last \in Slots /\ RowsHeld(ack - 1)
        /\ ends[last] \in Nat /\ starts[last] \in Nat /\ counts[last] \in 0..NumEnvs
    BY <2>1, PlacesInRange DEF StoreInv, StoreTypeOK
  <2>3. rowRead' = ends[last] /\ reclaimed' = ack
    BY <1>2 DEF ReclaimRows, RowReadAfter
  <2>4. rowRead <= ends[last] /\ ends[last] <= rowWrite
    BY <2>1, <2>2, SizesAssumption, SMT DEF RowsHeld
  <2>5. ASSUME NEW g \in ack..(hi - 1)
        PROVE  RowsHeld(g)'
    <3>1. g \in reclaimed..(hi - 1) /\ ack - 1 < g
      BY <1>2, <2>1, <2>5, SMT
    <3>2. RowsHeld(g) /\ ends[last] <= starts[SlotOf(g)]
      BY <2>1, <3>1 DEF StoreInv
    <3> QED BY <2>3, <3>2 DEF RowsHeld
  <2>6. StoreTypeOK'
    BY <2>2, <2>3 DEF StoreInv, StoreTypeOK
  <2>7. ASSUME NEW g \in ack..(hi - 1), NEW h \in ack..(hi - 1), g < h
        PROVE  ends[SlotOf(g)] <= starts[SlotOf(h)]
    <3>1. g \in reclaimed..(hi - 1) /\ h \in reclaimed..(hi - 1)
      BY <1>2, <2>1, <2>7, SMT
    <3> QED BY <2>7, <3>1 DEF StoreInv
  <2>8. /\ hi - ack <= Capacity /\ rowWrite - ends[last] <= RowCapacity
    <3>1. /\ RowCapacity \in Nat /\ Capacity \in Nat /\ hi - reclaimed <= Capacity
          /\ rowWrite - rowRead <= RowCapacity
      BY SizesAssumption, SMT DEF RowCapacity, StoreInv
    <3> QED BY <1>2, <2>1, <2>2, <2>4, <3>1, SMT
  <2>9. StoreInv(hi)'
    BY <2>3, <2>4, <2>5, <2>6, <2>7, <2>8 DEF StoreInv
  <2> QED BY <1>2, <2>1, <2>3, <2>4, <2>9, SMT DEF ReclaimRows
<1> QED BY <1>1, <1>2

\* Recording the next slot, whose rows were copied in, on a released place.
LEMMA RecordKeepsStore ==
  ASSUME NEW hi \in Nat, StoreInv(hi), hi - reclaimed < Capacity,
         NEW n \in 0..NumEnvs, RecordRows(hi, n),
         rowWrite - rowRead + n <= RowCapacity,
         \A k \in 1..n : rows[CellOf(rowWrite + k - 1)] = <<hi, k>>,
         UNCHANGED <<rows, rowRead, reclaimed>>
  PROVE  /\ StoreInv(hi + 1)' /\ counts'[SlotOf(hi)] = n
         /\ \A g \in reclaimed..(hi - 1) : counts'[SlotOf(g)] = counts[SlotOf(g)]
<1> DEFINE s == SlotOf(hi)
<1>1. /\ s \in Slots /\ StoreTypeOK
      /\ reclaimed \in Nat /\ rowRead \in Nat /\ rowWrite \in Nat
  BY PlacesInRange, SMT DEF StoreInv, StoreTypeOK
<1>2. /\ starts' = [starts EXCEPT ![s] = rowWrite]
      /\ counts' = [counts EXCEPT ![s] = n]
      /\ ends' = [ends EXCEPT ![s] = rowWrite + n]
      /\ rowWrite' = rowWrite + n
  BY DEF RecordRows
<1>3. /\ starts'[s] = rowWrite /\ counts'[s] = n /\ ends'[s] = rowWrite + n
      /\ rowWrite <= rowWrite' /\ rowWrite' \in Nat
  BY <1>1, <1>2, SizesAssumption, SMT DEF StoreTypeOK
<1>4. ASSUME NEW g \in reclaimed..(hi - 1)
      PROVE  /\ SlotOf(g) \in Slots /\ RowsHeld(g) /\ g \in Int
             /\ starts'[SlotOf(g)] = starts[SlotOf(g)]
             /\ counts'[SlotOf(g)] = counts[SlotOf(g)]
             /\ ends'[SlotOf(g)] = ends[SlotOf(g)]
  <2>1. g \in Int /\ g < hi /\ hi - g < Capacity
    BY <1>1, <1>4, SizesAssumption, SMT
  <2>2. SlotOf(g) # s /\ SlotOf(g) \in Slots
    BY <2>1, SlotsDistinct, PlacesInRange
  <2> QED BY <1>1, <1>2, <1>4, <2>1, <2>2 DEF StoreTypeOK, StoreInv
<1>5. StoreTypeOK'
  <2>1. rowWrite + n \in Nat
    BY <1>1, SMT
  <2> QED BY <1>1, <1>2, <2>1 DEF StoreTypeOK
<1>6. ASSUME NEW g \in reclaimed..hi
      PROVE  RowsHeld(g)'
  <2>1. CASE g = hi
    <3>1. rowRead <= rowWrite /\ rowWrite + n <= rowWrite'
      BY <1>1, <1>2, SMT DEF StoreInv
    <3>2. \A k \in 1..n : rows'[CellOf(rowWrite + k - 1)] = <<hi, k>>
      OBVIOUS
    <3> QED BY <1>3, <2>1, <3>1, <3>2 DEF RowsHeld
  <2>2. CASE g # hi
    <3>1. g \in reclaimed..(hi - 1)
      BY <1>1, <1>6, <2>2, SMT
    <3>2. ends[SlotOf(g)] \in Nat
      BY <1>1, <1>4, <3>1 DEF StoreTypeOK
    <3>3. ends'[SlotOf(g)] <= rowWrite'
      BY <1>1, <1>3, <1>4, <3>1, <3>2, SMT DEF RowsHeld
    <3> QED BY <1>4, <3>1, <3>3 DEF RowsHeld
  <2> QED BY <2>1, <2>2
<1>7. ASSUME NEW g \in reclaimed..hi, NEW h \in reclaimed..hi, g < h
      PROVE  ends'[SlotOf(g)] <= starts'[SlotOf(h)]
  <2>1. g \in reclaimed..(hi - 1)
    BY <1>1, <1>7, SMT
  <2>2. CASE h = hi
    BY <1>3, <1>4, <2>1, <2>2 DEF RowsHeld
  <2>3. CASE h # hi
    <3>1. h \in reclaimed..(hi - 1)
      BY <1>1, <1>7, <2>3, SMT
    <3> QED BY <1>4, <1>7, <2>1, <3>1 DEF StoreInv
  <2> QED BY <2>2, <2>3
<1>8. /\ reclaimed <= hi + 1 /\ (hi + 1) - reclaimed <= Capacity
      /\ rowRead <= rowWrite' /\ rowWrite' - rowRead <= RowCapacity
  <2>1. Capacity \in Nat /\ RowCapacity \in Nat /\ rowRead <= rowWrite /\ reclaimed <= hi
    BY SizesAssumption, SMT DEF RowCapacity, StoreInv
  <2> QED BY <1>1, <1>2, <2>1, SMT
<1>9. (hi + 1) - 1 = hi
  BY SMT
<1>10. StoreInv(hi + 1)'
  BY <1>5, <1>6, <1>7, <1>8, <1>9 DEF StoreInv
<1> QED BY <1>3, <1>4, <1>10
=============================================================================
