------------------------ MODULE LearnerDrainProofs ------------------------
(***************************************************************************)
(* Proofs about LearnerDrain: the rings' cursors stay in step with the     *)
(* assembler, the views waiting for assembly stay good, the k-th batch of  *)
(* the replay buffer is the k-th env step of every collector, each row of  *)
(* its final-observation table has one holder, and what a sampled window   *)
(* returns is the trajectory.                                              *)
(***************************************************************************)
EXTENDS LearnerDrain, SequenceTheorems, FiniteSetTheorems, WellFoundedInduction, TLAPS

\* The first generation of the drain under way.
First == nextGen - ready

\* Outside the part of a drain that has generations to ingest.
Between == {"loop", "scan", "pop", "train", "update", "publish"}

\* Where the cursors are: together between two drains, and released ring by
\* ring at the end of one.
Cursors ==
  /\ lpc \in Between =>
       ready = 0 /\ runs = <<>> /\ \A c \in Collectors : read[c] = nextGen
  /\ lpc \notin Between =>
       /\ ready > 0
       /\ \A c \in Collectors :
            read[c] = IF lpc = "attach" /\ c < ring THEN nextGen ELSE First
  /\ lpc \notin {"scan", "merge", "attach"} => ring = 1
  /\ lpc # "attach" => written = 0

\* A ring holds the env steps between its cursors, never more than it can.
RingsHold ==
  \A c \in Collectors :
    /\ read[c] <= write[c] /\ write[c] <= read[c] + Capacity
    /\ \A g \in read[c]..(write[c] - 1) : slots[c][g % Capacity] = g

\* The assembler's shards are published, not released by the drain that
\* added them, and no further ahead than one drain may scan.
Assembly ==
  /\ \A p \in DOMAIN pending :
       /\ First <= p[1] /\ p[1] < write[p[2]] /\ p[1] < First + Budget
       /\ pending[p] = p[1] % Capacity
  /\ \A g \in First..(nextGen - 1) : Complete(g)

Uniform(t) == [c \in Collectors |-> t]

\* The merged batches and the final payloads are those of the generations
\* being ingested, in order.
Merged ==
  /\ runs \in Seq([Collectors -> Int]) /\ Len(runs) <= ready
  /\ \A i \in 1..Len(runs) : runs[i] = Uniform(First + i - 1)
  /\ lpc = "acquire" => runs = <<>>
  /\ lpc \in {"stage", "attach"} => Len(runs) = ready

PayloadsRead ==
  /\ DOMAIN finals = Collectors
  /\ \A c \in Collectors :
       lpc \in {"stage", "attach"} \/ (lpc = "merge" /\ c < ring)
         => finals[c] = [i \in 1..ready |-> First + i - 1]

\* The env steps the replay buffer has room for.
Newest == {t \in Nat : ptr - Cap <= t /\ t < ptr}

IsASequence(q) == q \in Seq(Range(q))

\* Each of them is in its slot or on its way there, and what is on its way
\* goes where it belongs.
InPlace ==
  /\ IsASequence(stream)
  /\ replay \in [0..BufferSize -> [Collectors -> Int]]
  /\ \A o \in Range(stream) : o.op = "row" =>
       \E t \in Newest : o.slot = SlotAt(t) /\ buffers[o.from] = Uniform(t)
  /\ \A t \in Newest :
       \/ replay[SlotAt(t)] = Uniform(t)
       \/ \E o \in Range(stream) : o.op = "row" /\ o.slot = SlotAt(t)

\* The generations staged are those before ptr.
Replayed ==
  /\ ptr = IF lpc \in {"acquire", "merge", "stage"} THEN First ELSE nextGen
  /\ lpc \in {"merge", "stage"} => stream = <<>>
  /\ InPlace

IInv == DrainTypeOK /\ Cursors /\ RingsHold /\ Assembly /\ Merged /\ PayloadsRead /\ Replayed

-----------------------------------------------------------------------------
(* Arithmetic: slots, and the least and greatest of a few numbers.         *)

LEMMA Constants ==
  /\ Capacity \in Nat \ {0} /\ Budget \in Nat \ {0} /\ MaxSteps \in Nat
  /\ BufferSize \in Nat \ {0} /\ Cap \in Nat \ {0} /\ Cap = BufferSize + 1
  /\ NumCollectors \in Nat \ {0} /\ Collectors = 1..NumCollectors /\ Envs = Collectors
  /\ 1 \in Collectors /\ NumCollectors \in Collectors
BY DrainAssumption, ReplayAssumption DEF Cap, NumCollectors, Collectors, Envs

\* Numbers less than d apart have different remainders.
LEMMA ModDistinct ==
  ASSUME NEW d \in Nat \ {0}, NEW a \in Int, NEW b \in Int, a # b, a - b < d, b - a < d
  PROVE  a % d # b % d
<1> SUFFICES ASSUME a % d = b % d PROVE FALSE
  OBVIOUS
<1> DEFINE q == (b \div d) - (a \div d)
<1>1. q \in Int /\ b - a = d * (b \div d) - d * (a \div d)
  BY SMT
<1>2. b - a = d * q
  BY <1>1, SMT
<1> HIDE DEF q
<1>3. CASE q >= 1
  <2>1. d * q >= d
    BY <1>1, <1>3, SMT
  <2> QED BY <1>2, <2>1
<1>4. CASE q <= -1
  <2>1. d * q <= -d
    BY <1>1, <1>4, SMT
  <2> QED BY <1>2, <2>1
<1>5. CASE q = 0
  BY <1>2, <1>5, SMT
<1> QED BY <1>1, <1>3, <1>4, <1>5

LEMMA SlotPlaces ==
  ASSUME NEW t \in Int
  PROVE  t % Capacity \in Slots /\ SlotAt(t) \in 0..BufferSize
BY Constants, SMT DEF Slots, SlotAt

LEMMA MinIs ==
  ASSUME NEW S, S \subseteq Nat, S # {}
  PROVE  Min(S) \in S /\ \A m \in S : Min(S) <= m
<1>1. PICK n \in S : \A m \in S : ~ (<<m, n>> \in OpToRel(<, Nat))
  BY NatLessThanWellFounded, WFMin
<1>2. \A m \in S : ~ (m < n)
  BY <1>1 DEF OpToRel
<1>3. \A m \in S : n <= m
  BY <1>2
<1> QED BY <1>3 DEF Min

LEMMA MaxIs ==
  ASSUME NEW S, S \subseteq Nat, S # {}, NEW b \in Nat, \A m \in S : m <= b
  PROVE  Max(S) \in S /\ \A m \in S : m <= Max(S)
<1> DEFINE T == {b - m : m \in S}
<1>0. \A m \in S : m \in Nat /\ b - m \in Nat
  OBVIOUS
<1>1. T \subseteq Nat /\ T # {}
  BY <1>0
<1>2. PICK n \in T : \A m \in T : n <= m
  <2> HIDE DEF T
  <2> QED BY <1>1, MinIs
<1>3. PICK k \in S : n = b - k
  BY <1>2
<1>4. \A m \in S : m <= k
  <2> SUFFICES ASSUME NEW m \in S PROVE m <= k
    OBVIOUS
  <2>1. b - m \in T
    OBVIOUS
  <2>2. b - k <= b - m
    BY <1>2, <1>3, <2>1
  <2>3. m \in Nat /\ k \in Nat
    OBVIOUS
  <2> QED BY <2>2, <2>3
<1> QED BY <1>4 DEF Max

\* What one visit may take from a ring.
LEMMA VisitFits ==
  ASSUME DrainTypeOK, NEW c \in Collectors, read[c] <= write[c]
  PROVE  Visit(c) \in Nat /\ Visit(c) <= Budget /\ Visit(c) <= write[c] - read[c]
<1> DEFINE S == {Budget, write[c] - read[c], Capacity - (read[c] % Capacity)}
<1>1. read[c] \in Nat /\ write[c] \in Nat
  BY Constants DEF DrainTypeOK
<1>2. read[c] % Capacity \in Slots
  BY <1>1, SlotPlaces
<1>3. S \subseteq Nat /\ S # {}
  BY <1>1, <1>2, Constants, SMTT(30) DEF Slots
<1> HIDE DEF S
<1>4. Min(S) \in S /\ \A m \in S : Min(S) <= m
  BY <1>3, MinIs
<1> QED BY <1>3, <1>4 DEF S, Visit

LEMMA ReadyIs ==
  ASSUME DrainTypeOK
  PROVE  /\ ReadyCount \in 0..Capacity
         /\ \A g \in nextGen..(nextGen + ReadyCount - 1) : Complete(g)
<1> DEFINE S == {k \in 0..Capacity : \A g \in nextGen..(nextGen + k - 1) : Complete(g)}
<1>1. nextGen \in Nat /\ Capacity \in Nat
  BY Constants DEF DrainTypeOK
<1>2. 0 \in S
  BY <1>1
<1>3. Max(S) \in S
  <2>1. S \subseteq Nat /\ S # {} /\ \A m \in S : m <= Capacity
    BY <1>1, <1>2
  <2> HIDE DEF S
  <2> QED BY <1>1, <2>1, MaxIs
<1> QED BY <1>3 DEF ReadyCount

\* What is skipped of k steps: all but the newest.
LEMMA SkipIs ==
  ASSUME NEW k \in Nat
  PROVE  Skip(k) = IF k > Cap THEN k - Cap ELSE 0
<1>1. Cap \in Nat
  BY Constants
<1> DEFINE m == IF k > Cap THEN k - Cap ELSE 0
<1>2. m \in {0, k - Cap} /\ \A x \in {0, k - Cap} : m >= x
  BY <1>1
<1>3. \A x \in {0, k - Cap} : (\A y \in {0, k - Cap} : x >= y) => x = m
  BY <1>1
<1> QED BY <1>2, <1>3 DEF Skip, Max

-----------------------------------------------------------------------------
(* Queues of operations.                                                   *)

LEMMA EmptyQueue == IsASequence(<<>>) /\ Range(<<>>) = {}
<1>1. Range(<<>>) = {}
  BY DEF Range
<1> QED BY <1>1, EmptySeq DEF IsASequence

LEMMA QueueOf ==
  ASSUME NEW n \in Nat, NEW q, q = [i \in 1..n |-> q[i]]
  PROVE  IsASequence(q) /\ Range(q) = {q[i] : i \in 1..n}
<1> DEFINE S == {q[i] : i \in 1..n}
<1>1. Range(q) = S /\ DOMAIN q = 1..n
  <2>1. DOMAIN q = 1..n
    OBVIOUS
  <2> QED BY <2>1 DEF Range
<1>2. q \in Seq(S)
  <2>1. \A i \in 1..n : q[i] \in S
    OBVIOUS
  <2> HIDE DEF S
  <2>2. [i \in 1..n |-> q[i]] \in Seq(S)
    BY <2>1, IsASeq
  <2> QED BY <2>2
<1> QED BY <1>1, <1>2 DEF IsASequence

LEMMA OneQueued ==
  ASSUME NEW o
  PROVE  IsASequence(<<o>>) /\ Range(<<o>>) = {o}
<1>1. Range(<<o>>) = {o}
  BY DEF Range
<1> QED BY <1>1 DEF IsASequence

LEMMA MoreQueued ==
  ASSUME NEW q, NEW r, IsASequence(q), IsASequence(r)
  PROVE  IsASequence(q \o r) /\ Range(q \o r) = Range(q) \cup Range(r)
<1> DEFINE S == Range(q) \cup Range(r)
<1>1. q \in Seq(S) /\ r \in Seq(S)
  <2>1. Range(q) \subseteq S /\ Range(r) \subseteq S
    OBVIOUS
  <2> HIDE DEF S
  <2> QED BY <2>1, SeqMonotonic DEF IsASequence
<1>2. Range(q \o r) = S
  <2> HIDE DEF S
  <2>1. Range(q \o r) = Range(q) \cup Range(r)
    BY <1>1, RangeConcatenation
  <2> QED BY <2>1 DEF S
<1>3. q \o r \in Seq(S)
  <2> HIDE DEF S
  <2> QED BY <1>1, ConcatProperties
<1> QED BY <1>2, <1>3 DEF IsASequence

LEMMA OneTaken ==
  ASSUME NEW q, IsASequence(q), q # <<>>
  PROVE  IsASequence(Tail(q)) /\ Range(q) = {Head(q)} \cup Range(Tail(q))
<1> DEFINE S == Range(q)
<1>1. q \in Seq(S)
  BY DEF IsASequence
<1>2. Head(q) \in S
  <2> HIDE DEF S
  <2> QED BY <1>1, HeadTailProperties
<1>3. /\ Tail(q) \in Seq(S) /\ Len(Tail(q)) = Len(q) - 1
      /\ \A i \in 1..Len(Tail(q)) : Tail(q)[i] = q[i + 1]
  <2> HIDE DEF S
  <2> QED BY <1>1, HeadTailProperties
<1>4. Len(q) \in Nat /\ Len(q) # 0 /\ Head(q) = q[1]
  <2> HIDE DEF S
  <2> QED BY <1>1, LenProperties, EmptySeq
<1>5. Range(q) = {q[i] : i \in 1..Len(q)} /\ Range(Tail(q)) = {Tail(q)[i] : i \in 1..Len(Tail(q))}
  <2> HIDE DEF S
  <2> QED BY <1>1, <1>3, RangeEquality
<1>6. ASSUME NEW o \in Range(q)
      PROVE  o = Head(q) \/ o \in Range(Tail(q))
  <2>1. PICK i \in 1..Len(q) : o = q[i]
    BY <1>5
  <2>2. CASE i = 1
    BY <1>4, <2>1, <2>2
  <2>3. CASE i # 1
    <3>1. i - 1 \in 1..Len(Tail(q)) /\ i - 1 + 1 = i
      BY <1>3, <1>4, <2>3
    <3>2. Tail(q)[i - 1] = q[i]
      BY <1>3, <3>1
    <3> QED BY <1>5, <2>1, <3>1, <3>2
  <2> QED BY <2>2, <2>3
<1>7. Range(Tail(q)) \subseteq Range(q)
  <2> SUFFICES ASSUME NEW i \in 1..Len(Tail(q)) PROVE Tail(q)[i] \in Range(q)
    BY <1>5
  <2>1. i + 1 \in 1..Len(q)
    BY <1>3, <1>4
  <2> QED BY <1>3, <1>5, <2>1
<1>8. IsASequence(Tail(q))
  <2> HIDE DEF S
  <2> QED BY <1>3, SeqOfRange DEF IsASequence
<1> QED BY <1>2, <1>6, <1>7, <1>8

-----------------------------------------------------------------------------
(* Steps that leave a drain where it is.                                   *)

LEMMA InPlaceKept ==
  ASSUME InPlace, UNCHANGED <<ptr, buffers, stream, replay>>
  PROVE  InPlace'
BY DEF InPlace, Newest, Uniform

\* The loop outside the drain, and the device's own steps on other things.
Quiet ==
  /\ UNCHANGED <<rings, drain, buffers, ptr, stream, replay>>
  /\ \/ lpc' = lpc
     \/ /\ lpc \in {"loop", "train", "update", "publish"}
        /\ lpc' \in {"loop", "scan", "update", "publish"}

LEMMA QuietSteps ==
  ASSUME IInv, ReadProgress \/ MaybeTrain \/ Update \/ Publish \/ ComputeStream \/ UNCHANGED vars
  PROVE  Quiet
<1> USE DEF Quiet
<1>1. CASE ReadProgress
  BY <1>1 DEF ReadProgress, stage, copies, replayHost, replayDevice
<1>2. CASE MaybeTrain
  BY <1>2 DEF MaybeTrain, stage, copies, replayHost, replayDevice
<1>3. CASE Update
  BY <1>3 DEF Update, stage, copies, replayHost, replayDevice
<1>4. CASE Publish
  BY <1>4 DEF Publish, stage, copies, replayHost, replayDevice
<1>5. CASE ComputeStream \/ UNCHANGED vars
  BY <1>5 DEF ComputeStream, vars, stage, copies, replayHost, replayDevice
<1> QED BY <1>1, <1>2, <1>3, <1>4, <1>5

LEMMA QuietKeeps ==
  ASSUME IInv, Quiet, lpc' \in {"loop", "scan", "pop", "acquire", "merge", "stage", "attach",
                                "train", "update", "publish"}
  PROVE  IInv'
<1> USE DEF Quiet, rings, drain
<1>1. DrainTypeOK'
  BY DEF IInv, DrainTypeOK
<1>2. Cursors'
  BY DEF IInv, Cursors, Between, First
<1>3. RingsHold'
  BY DEF IInv, RingsHold
<1>4. Assembly'
  BY DEF IInv, Assembly, First, Complete
<1>5. Merged'
  BY DEF IInv, Merged, Between, First, Uniform
<1>6. PayloadsRead'
  BY DEF IInv, PayloadsRead, Between, First
<1>7. Replayed'
  BY InPlaceKept DEF IInv, Replayed, Between, First
<1> QED BY <1>1, <1>2, <1>3, <1>4, <1>5, <1>6, <1>7 DEF IInv

-----------------------------------------------------------------------------
(* The collectors.                                                         *)

\* A push fills the one slot that no step between the cursors uses.
LEMMA PushKeeps ==
  ASSUME IInv, NEW c \in Collectors, Push(c)
  PROVE  IInv'
<1> USE Constants
<1>0. /\ UNCHANGED <<read, lpc, ring, pending, nextGen, ready, runs, finals, written, buffers, ptr,
                     stream, replay>>
      /\ write' = [write EXCEPT ![c] = @ + 1] /\ write[c] < MaxSteps
      /\ slots' = [slots EXCEPT ![c][write[c] % Capacity] = write[c]]
      /\ write[c] - read[c] < Capacity
  BY DEF Push, drain, stage, copies, replayHost, replayDevice
<1>1. /\ write \in [Collectors -> 0..MaxSteps] /\ read \in [Collectors -> 0..MaxSteps]
      /\ slots \in [Collectors -> [Slots -> Step]]
      /\ write[c] \in Nat /\ read[c] \in Nat /\ write[c] % Capacity \in Slots
  <2>1. /\ write \in [Collectors -> 0..MaxSteps] /\ read \in [Collectors -> 0..MaxSteps]
        /\ slots \in [Collectors -> [Slots -> Step]]
    BY DEF IInv, DrainTypeOK
  <2>2. write[c] \in Nat /\ read[c] \in Nat
    BY <2>1
  <2>3. write[c] % Capacity \in Slots
    <3>1. write[c] \in Int
      BY <2>2
    <3> QED BY <3>1, SlotPlaces
  <2> QED BY <2>1, <2>2, <2>3
<1>2. DrainTypeOK'
  <2>1. write' \in [Collectors -> 0..MaxSteps]
    <3>1. write[c] + 1 \in 0..MaxSteps
      BY <1>0, <1>1, SMTT(30)
    <3>2. write' = [write EXCEPT ![c] = write[c] + 1]
      BY <1>0
    <3> QED BY <1>1, <3>1, <3>2
  <2>2. slots' \in [Collectors -> [Slots -> Step]]
    <3>1. write[c] \in Step
      BY <1>0, <1>1 DEF Step
    <3> QED BY <1>0, <1>1, <3>1
  <2> QED BY <1>0, <2>1, <2>2 DEF IInv, DrainTypeOK
<1>3. Cursors'
  BY <1>0 DEF IInv, Cursors, First
<1>4. RingsHold'
  <2> SUFFICES ASSUME NEW d \in Collectors
               PROVE  /\ read[d] <= write'[d] /\ write'[d] <= read[d] + Capacity
                      /\ \A g \in read[d]..(write'[d] - 1) : slots'[d][g % Capacity] = g
    BY <1>0 DEF RingsHold
  <2>1. /\ read[d] <= write[d] /\ write[d] <= read[d] + Capacity
        /\ \A g \in read[d]..(write[d] - 1) : slots[d][g % Capacity] = g
    BY DEF IInv, RingsHold
  <2>2. CASE d # c
    BY <1>0, <1>1, <2>1, <2>2
  <2>3. CASE d = c
    <3>1. write'[c] = write[c] + 1 /\ write[c] \in Nat /\ read[c] \in Nat
      BY <1>0, <1>1
    <3>2. ASSUME NEW g \in read[c]..write[c]
          PROVE  slots'[c][g % Capacity] = g
      <4>1. CASE g = write[c]
        BY <1>0, <1>1, <4>1
      <4>2. CASE g # write[c]
        <5>1. g % Capacity # write[c] % Capacity
          <6>1. /\ g \in Int /\ write[c] \in Int /\ Capacity \in Nat \ {0}
                /\ g - write[c] < Capacity /\ write[c] - g < Capacity
            BY <1>0, <3>1, SMTT(30)
          <6> QED BY <4>2, <6>1, ModDistinct
        <5>2. slots[c][g % Capacity] = g
          <6>1. g \in read[c]..(write[c] - 1)
            BY <3>1, <4>2
          <6> QED BY <2>1, <2>3, <6>1
        <5> QED BY <1>0, <1>1, <5>1, <5>2
      <4> QED BY <4>1, <4>2
    <3> QED BY <1>0, <2>1, <2>3, <3>1, <3>2, SMTT(30)
  <2> QED BY <2>2, <2>3
<1>5. Assembly'
  <2>1. \A d \in Collectors : write[d] \in Nat /\ write'[d] \in Nat /\ write[d] <= write'[d]
    <3>1. write' = [write EXCEPT ![c] = write[c] + 1]
      BY <1>0
    <3>2. write \in [Collectors -> 0..MaxSteps] /\ write[c] \in Nat
      BY <1>1
    <3> QED BY <3>1, <3>2
  <2>2. \A p \in DOMAIN pending : p \in (0..MaxSteps) \X Collectors
    BY DEF IInv, DrainTypeOK
  <2>3. \A p \in DOMAIN pending : p[1] < write[p[2]] => p[1] < write'[p[2]]
    <3> SUFFICES ASSUME NEW p \in DOMAIN pending, p[1] < write[p[2]] PROVE p[1] < write'[p[2]]
      OBVIOUS
    <3>1. p[1] \in 0..MaxSteps /\ p[2] \in Collectors
      BY <2>2
    <3> QED BY <2>1, <3>1
  <2> QED BY <1>0, <2>3 DEF IInv, Assembly, First, Complete
<1>6. Merged'
  BY <1>0 DEF IInv, Merged, First, Uniform
<1>7. PayloadsRead'
  BY <1>0 DEF IInv, PayloadsRead, First
<1>8. Replayed'
  BY <1>0, InPlaceKept DEF IInv, Replayed, First
<1> QED BY <1>2, <1>3, <1>4, <1>5, <1>6, <1>7, <1>8 DEF IInv

-----------------------------------------------------------------------------
(* The drain, up to the merge.                                             *)

\* Between two drains.
LEMMA BetweenDrains ==
  ASSUME IInv, lpc \in Between
  PROVE  /\ ready = 0 /\ runs = <<>> /\ First = nextGen /\ nextGen \in 0..MaxSteps
         /\ \A c \in Collectors :
              /\ read[c] = nextGen /\ write[c] \in 0..MaxSteps
              /\ nextGen <= write[c] /\ write[c] <= nextGen + Capacity
<1>1. ready = 0 /\ runs = <<>> /\ nextGen \in 0..MaxSteps /\ \A c \in Collectors : read[c] = nextGen
  BY DEF IInv, Cursors, DrainTypeOK
<1>2. First = nextGen
  BY <1>1, Constants DEF First
<1>3. \A c \in Collectors : write[c] \in 0..MaxSteps
  BY DEF IInv, DrainTypeOK
<1> QED BY <1>1, <1>2, <1>3 DEF IInv, RingsHold

\* Shards are added again, or behind those an earlier drain has added.
LEMMA ScanKeeps ==
  ASSUME IInv, ScanRing
  PROVE  IInv'
<1> USE Constants
<1> DEFINE shards == {<<read[ring] + i, ring>> : i \in 0..(Visit(ring) - 1)}
           dom == DOMAIN pending \cup shards
<1>0. /\ lpc = "scan" /\ lpc \in Between /\ lpc' \in {"pop", "scan"} /\ ring' = NextRing
      /\ lpc' = IF ring = NumCollectors THEN "pop" ELSE "scan"
      /\ UNCHANGED <<write, read, slots, nextGen, ready, runs, finals, written, buffers, ptr, stream,
                     replay>>
  BY DEF ScanRing, Between, rings, stage, copies, replayHost, replayDevice
<1>1. pending' = [p \in dom |-> p[1] % Capacity]
  BY DEF ScanRing
<1>2. ring \in Collectors /\ ring' \in Collectors /\ (lpc' = "pop" => ring' = 1)
  BY <1>0 DEF IInv, DrainTypeOK, NextRing
<1>3. /\ ready = 0 /\ runs = <<>> /\ First = nextGen /\ nextGen \in 0..MaxSteps
      /\ \A c \in Collectors :
           /\ read[c] = nextGen /\ write[c] \in 0..MaxSteps
           /\ nextGen <= write[c] /\ write[c] <= nextGen + Capacity
  BY <1>0, BetweenDrains
<1>4. Visit(ring) \in Nat /\ Visit(ring) <= Budget /\ Visit(ring) <= write[ring] - nextGen
  BY <1>2, <1>3, VisitFits DEF IInv
<1>5. ASSUME NEW p \in shards
      PROVE  /\ p \in (0..MaxSteps) \X Collectors
             /\ nextGen <= p[1] /\ p[1] < write[p[2]] /\ p[1] < nextGen + Budget
  <2>1. PICK i \in 0..(Visit(ring) - 1) : p = <<read[ring] + i, ring>>
    OBVIOUS
  <2>2. p[1] = nextGen + i /\ p[2] = ring /\ i \in Nat /\ i < Visit(ring)
    BY <1>2, <1>3, <1>4, <2>1
  <2>3. write[ring] \in 0..MaxSteps
    BY <1>2, <1>3
  <2>4. nextGen + i \in 0..MaxSteps /\ nextGen <= nextGen + i /\ nextGen + i < write[ring]
          /\ nextGen + i < nextGen + Budget
    BY <1>3, <1>4, <2>2, <2>3, SMTT(30)
  <2> QED BY <1>2, <1>3, <2>1, <2>2, <2>4
<1> HIDE DEF shards
<1>6. DOMAIN pending' = dom
  BY <1>1
<1>7. DrainTypeOK'
  BY <1>0, <1>2, <1>5, <1>6 DEF IInv, DrainTypeOK
<1>8. Cursors'
  BY <1>0, <1>2, <1>3 DEF IInv, Cursors, Between, First
<1>9. RingsHold'
  BY <1>0 DEF IInv, RingsHold
<1>10. Assembly'
  <2>1. First' = nextGen
    BY <1>0, <1>3 DEF First
  <2>2. \A p \in DOMAIN pending :
          nextGen <= p[1] /\ p[1] < write[p[2]] /\ p[1] < nextGen + Budget
    BY <1>3 DEF IInv, Assembly
  <2>3. \A p \in DOMAIN pending' :
          /\ nextGen <= p[1] /\ p[1] < write[p[2]] /\ p[1] < nextGen + Budget
          /\ pending'[p] = p[1] % Capacity
    BY <1>1, <1>5, <1>6, <2>2
  <2>4. \A g \in nextGen..(nextGen - 1) : FALSE
    BY <1>3
  <2> QED BY <1>0, <2>1, <2>3, <2>4 DEF Assembly
<1>11. Merged'
  BY <1>0 DEF IInv, Merged, First, Uniform
<1>12. PayloadsRead'
  BY <1>0 DEF IInv, PayloadsRead
<1>13. Replayed'
  BY <1>0, InPlaceKept DEF IInv, Replayed, First
<1> QED BY <1>7, <1>8, <1>9, <1>10, <1>11, <1>12, <1>13 DEF IInv

\* Complete generations are below every write cursor and within one budget.
LEMMA PopKeeps ==
  ASSUME IInv, PopReady
  PROVE  IInv'
<1> USE Constants
<1> DEFINE k == ReadyCount
<1>0. /\ lpc = "pop" /\ lpc \in Between
      /\ ready' = k /\ nextGen' = nextGen + k
      /\ lpc' = IF k = 0 THEN "train" ELSE "acquire"
      /\ UNCHANGED <<write, read, slots, ring, pending, runs, finals, written, buffers, ptr, stream,
                     replay>>
  BY DEF PopReady, Between, rings, stage, copies, replayHost, replayDevice
<1>1. /\ ready = 0 /\ runs = <<>> /\ First = nextGen /\ nextGen \in 0..MaxSteps
      /\ \A c \in Collectors :
           /\ read[c] = nextGen /\ write[c] \in 0..MaxSteps
           /\ nextGen <= write[c] /\ write[c] <= nextGen + Capacity
  BY <1>0, BetweenDrains
<1>2. k \in Nat /\ \A g \in nextGen..(nextGen + k - 1) : Complete(g)
  BY ReadyIs DEF IInv
<1> HIDE DEF k
<1>3. nextGen + k \in 0..MaxSteps /\ k <= Budget
  <2>1. CASE k = 0
    BY <1>1, <2>1
  <2>2. CASE k # 0
    <3>1. nextGen + k - 1 \in nextGen..(nextGen + k - 1)
      BY <1>1, <1>2, <2>2
    <3>2. <<nextGen + k - 1, 1>> \in DOMAIN pending
      BY <1>2, <3>1 DEF Complete
    <3> DEFINE p == <<nextGen + k - 1, 1>>
    <3>3. p[1] = nextGen + k - 1 /\ p[2] = 1
      OBVIOUS
    <3>4. p[1] < write[1] /\ p[1] < nextGen + Budget
      BY <1>1, <3>2, <3>3 DEF IInv, Assembly
    <3>5. write[1] \in 0..MaxSteps
      BY <1>1
    <3> QED BY <1>1, <1>2, <3>3, <3>4, <3>5
  <2> QED BY <2>1, <2>2
<1>4. First' = nextGen
  BY <1>0, <1>1, <1>2 DEF First
<1>5. ring = 1 /\ written = 0
  BY <1>0 DEF IInv, Cursors
<1>6. DrainTypeOK'
  BY <1>0, <1>2, <1>3, <1>5 DEF IInv, DrainTypeOK
<1>7. Cursors'
  <2>1. CASE k = 0
    BY <1>0, <1>1, <1>5, <2>1 DEF Cursors, Between
  <2>2. CASE k # 0
    BY <1>0, <1>1, <1>2, <1>4, <1>5, <2>2 DEF Cursors, Between
  <2> QED BY <2>1, <2>2
<1>8. RingsHold'
  BY <1>0 DEF IInv, RingsHold
<1>9. Assembly'
  <2>1. \A p \in DOMAIN pending :
          /\ nextGen <= p[1] /\ p[1] < write[p[2]] /\ p[1] < nextGen + Budget
          /\ pending[p] = p[1] % Capacity
    BY <1>1 DEF IInv, Assembly
  <2>2. \A g \in nextGen..(nextGen + k - 1) : Complete(g)'
    BY <1>0, <1>2 DEF Complete
  <2>3. pending' = pending /\ write' = write /\ nextGen' - 1 = nextGen + k - 1
    BY <1>0, <1>1, <1>2
  <2> QED BY <1>4, <2>1, <2>2, <2>3 DEF Assembly
<1>10. Merged'
  <2>1. runs' = <<>> /\ Len(runs') = 0 /\ runs' \in Seq([Collectors -> Int])
    BY <1>0, <1>1, EmptySeq
  <2>2. lpc' \notin {"stage", "attach"} /\ ready' \in Nat
    BY <1>0, <1>2
  <2> QED BY <2>1, <2>2 DEF Merged
<1>11. PayloadsRead'
  BY <1>0 DEF IInv, PayloadsRead
<1>12. Replayed'
  <2>1. ptr = nextGen
    BY <1>0 DEF IInv, Replayed
  <2>2. ptr' = IF lpc' \in {"acquire", "merge", "stage"} THEN First' ELSE nextGen'
    BY <1>0, <1>1, <1>4, <2>1
  <2> QED BY <1>0, <2>2, InPlaceKept DEF IInv, Replayed
<1> QED BY <1>6, <1>7, <1>8, <1>9, <1>10, <1>11, <1>12 DEF IInv

LEMMA AcquireKeeps ==
  ASSUME IInv, Acquire
  PROVE  IInv'
<1> USE Constants
<1>0. /\ lpc = "acquire" /\ lpc' = "merge"
      /\ UNCHANGED <<write, read, slots, ring, pending, nextGen, ready, runs, finals, written,
                     buffers, ptr, stream, replay>>
  BY DEF Acquire, rings, drain, stage, copies, replayHost, replayDevice
<1>1. DrainTypeOK' /\ Cursors' /\ RingsHold' /\ Assembly'
  BY <1>0 DEF IInv, DrainTypeOK, Cursors, RingsHold, Assembly, Between, First, Complete
<1>2. Merged'
  BY <1>0 DEF IInv, Merged, First, Uniform
<1>3. PayloadsRead'
  <2>1. ring = 1
    BY <1>0 DEF IInv, Cursors
  <2> QED BY <1>0, <2>1 DEF IInv, PayloadsRead
<1>4. Replayed'
  <2>1. stream' = <<>>
    BY DEF Acquire, copies
  <2>2. ptr' = First'
    BY <1>0, InPlaceKept DEF IInv, Replayed, First
  <2> QED BY <1>0, <2>1, <2>2, InPlaceKept DEF IInv, Replayed
<1> QED BY <1>1, <1>2, <1>3, <1>4 DEF IInv

-----------------------------------------------------------------------------
(* The merge, and the final payloads.                                      *)

\* While a drain has generations to ingest.
LEMMA WithinDrain ==
  ASSUME IInv, lpc \notin Between
  PROVE  /\ ready \in Nat /\ ready > 0 /\ ready <= Budget
         /\ First \in Int /\ First + ready = nextGen /\ nextGen \in 0..MaxSteps
         /\ \A c \in Collectors : \A g \in First..(nextGen - 1) :
              <<g, c>> \in DOMAIN pending /\ pending[<<g, c>>] = g % Capacity
         /\ \A c \in Collectors :
              read[c] \in 0..MaxSteps /\ write[c] \in 0..MaxSteps /\ nextGen <= write[c]
<1> USE Constants
<1>1. /\ ready \in 0..Budget /\ nextGen \in 0..MaxSteps /\ ready > 0
      /\ \A c \in Collectors : read[c] \in 0..MaxSteps /\ write[c] \in 0..MaxSteps
  BY DEF IInv, DrainTypeOK, Cursors
<1>2. First \in Int /\ First + ready = nextGen
  BY <1>1 DEF First
<1>3. ASSUME NEW c \in Collectors, NEW g \in First..(nextGen - 1)
      PROVE  <<g, c>> \in DOMAIN pending /\ pending[<<g, c>>] = g % Capacity /\ g < write[c]
  <2>1. <<g, c>> \in DOMAIN pending
    BY DEF IInv, Assembly, Complete
  <2>2. <<g, c>>[1] = g /\ <<g, c>>[2] = c
    OBVIOUS
  <2> QED BY <2>1, <2>2 DEF IInv, Assembly
<1>4. \A c \in Collectors : nextGen <= write[c]
  <2> SUFFICES ASSUME NEW c \in Collectors PROVE nextGen <= write[c]
    OBVIOUS
  <2>1. nextGen - 1 \in First..(nextGen - 1)
    BY <1>1, <1>2
  <2>2. nextGen - 1 < write[c]
    BY <1>3, <2>1
  <2> QED BY <1>1, <2>2
<1> QED BY <1>1, <1>2, <1>3, <1>4

\* Until it is released the views show the generations themselves.
LEMMA ViewsShow ==
  ASSUME IInv, lpc \notin Between, NEW c \in Collectors, read[c] = First,
         NEW g \in First..(nextGen - 1)
  PROVE  slots[c][g % Capacity] = g
<1>1. g \in read[c]..(write[c] - 1)
  BY WithinDrain
<1> QED BY <1>1 DEF IInv, RingsHold

LEMMA MergeKeeps ==
  ASSUME IInv, MergeGeneration
  PROVE  IInv'
<1> USE Constants
<1> DEFINE g == nextGen - ready + Len(runs)
           run == [c \in Collectors |-> slots[c][pending[<<g, c>>]]]
<1>0. /\ lpc = "merge" /\ lpc \notin Between /\ Len(runs) < ready
      /\ UNCHANGED <<write, read, slots, lpc, ring, pending, nextGen, ready, finals, written,
                     buffers, ptr, stream, replay>>
  BY DEF MergeGeneration, Between, rings, stage, copies, replayHost, replayDevice
<1>1. runs' = Append(runs, run)
  BY DEF MergeGeneration
<1>2. /\ ready \in Nat /\ First \in Int /\ First + ready = nextGen /\ nextGen \in Nat
      /\ runs \in Seq([Collectors -> Int]) /\ Len(runs) \in Nat
      /\ \A i \in 1..Len(runs) : runs[i] = Uniform(First + i - 1)
  BY <1>0, WithinDrain, LenProperties DEF IInv, Merged
<1>3. g = First + Len(runs) /\ g \in First..(nextGen - 1)
  BY <1>0, <1>2 DEF First
<1>4. run = Uniform(First + Len(runs)) /\ run \in [Collectors -> Int]
  <2>1. ASSUME NEW c \in Collectors
        PROVE  slots[c][pending[<<g, c>>]] = g
    <3>1. read[c] = First
      BY <1>0 DEF IInv, Cursors, Between
    <3>2. pending[<<g, c>>] = g % Capacity
      BY <1>0, <1>3, WithinDrain
    <3>3. slots[c][g % Capacity] = g
      BY <1>0, <1>3, <3>1, ViewsShow
    <3> QED BY <3>2, <3>3
  <2> QED BY <1>3, <2>1 DEF Uniform
<1> HIDE DEF g, run
<1>5. /\ runs' \in Seq([Collectors -> Int]) /\ Len(runs') = Len(runs) + 1
      /\ \A i \in 1..Len(runs) : runs'[i] = runs[i]
      /\ runs'[Len(runs) + 1] = run
  BY <1>1, <1>2, <1>4, AppendProperties
<1>6. DrainTypeOK' /\ Cursors' /\ RingsHold' /\ Assembly'
  BY <1>0 DEF IInv, DrainTypeOK, Cursors, RingsHold, Assembly, Between, First, Complete
<1>7. Merged'
  <2>1. ASSUME NEW i \in 1..(Len(runs) + 1)
        PROVE  runs'[i] = Uniform(First + i - 1)
    <3>1. CASE i = Len(runs) + 1
      <4>1. First + i - 1 = First + Len(runs)
        BY <1>2, <3>1
      <4> QED BY <1>4, <1>5, <3>1, <4>1
    <3>2. CASE i # Len(runs) + 1
      <4>1. i \in 1..Len(runs)
        BY <1>2, <3>2
      <4> QED BY <1>2, <1>5, <4>1
    <3> QED BY <3>1, <3>2
  <2>2. First' = First /\ ready' = ready /\ lpc' = "merge" /\ Len(runs') <= ready
    BY <1>0, <1>2, <1>5 DEF First
  <2> QED BY <1>5, <2>1, <2>2 DEF Merged, Uniform
<1>8. PayloadsRead' /\ Replayed'
  BY <1>0, InPlaceKept DEF IInv, PayloadsRead, Replayed, First
<1> QED BY <1>6, <1>7, <1>8 DEF IInv

LEMMA ReadFinalsKeeps ==
  ASSUME IInv, ReadFinals
  PROVE  IInv'
<1> USE Constants
<1> DEFINE payload == [i \in 1..ready |-> slots[ring][(read[ring] + i - 1) % Capacity]]
<1>0. /\ lpc = "merge" /\ lpc \notin Between /\ Len(runs) = ready /\ ring' = NextRing
      /\ lpc' = IF ring = NumCollectors THEN "stage" ELSE "merge"
      /\ UNCHANGED <<write, read, slots, pending, nextGen, ready, runs, written,
                     buffers, ptr, stream, replay>>
  BY DEF ReadFinals, Between, rings, stage, copies, replayHost, replayDevice
<1>1. finals' = [finals EXCEPT ![ring] = payload]
  BY DEF ReadFinals
<1>2. /\ ready \in Nat /\ First \in Int /\ First + ready = nextGen /\ nextGen \in Nat
  BY <1>0, WithinDrain
<1>3. ring \in Collectors /\ ring' \in Collectors /\ (lpc' = "stage" => ring' = 1)
  BY <1>0 DEF IInv, DrainTypeOK, NextRing
<1>4. payload = [i \in 1..ready |-> First + i - 1]
  <2>1. ASSUME NEW i \in 1..ready
        PROVE  slots[ring][(read[ring] + i - 1) % Capacity] = First + i - 1
    <3>1. read[ring] = First
      BY <1>0, <1>3 DEF IInv, Cursors, Between
    <3>2. First + i - 1 \in First..(nextGen - 1)
      BY <1>2
    <3>3. slots[ring][(First + i - 1) % Capacity] = First + i - 1
      BY <1>0, <1>3, <3>1, <3>2, ViewsShow
    <3> QED BY <3>1, <3>3
  <2> QED BY <2>1
<1> HIDE DEF payload
<1>5. DrainTypeOK'
  BY <1>0, <1>3 DEF IInv, DrainTypeOK
<1>6. Cursors'
  BY <1>0, <1>3 DEF IInv, Cursors, Between, First
<1>7. RingsHold' /\ Assembly'
  BY <1>0 DEF IInv, RingsHold, Assembly, First, Complete
<1>8. Merged'
  BY <1>0, ZenonT(40) DEF IInv, Merged, First, Uniform
<1>9. PayloadsRead'
  <2> SUFFICES ASSUME NEW c \in Collectors, lpc' = "stage" \/ (lpc' = "merge" /\ c < ring')
               PROVE  finals'[c] = [i \in 1..ready |-> First + i - 1]
    BY <1>0, <1>1 DEF IInv, PayloadsRead, First
  <2>1. c < ring \/ c = ring
    BY <1>0, <1>3 DEF NextRing
  <2>2. CASE c = ring
    BY <1>1, <1>4, <2>2 DEF IInv, PayloadsRead
  <2>3. CASE c # ring
    BY <1>0, <1>1, <2>1, <2>3 DEF IInv, PayloadsRead
  <2> QED BY <2>2, <2>3
<1>10. Replayed'
  <2>1. stream' = <<>> /\ stream' = stream
    BY <1>0 DEF IInv, Replayed
  <2>2. ptr' = First'
    BY <1>0, InPlaceKept DEF IInv, Replayed, First
  <2> QED BY <1>0, <2>1, <2>2, InPlaceKept DEF IInv, Replayed
<1> QED BY <1>5, <1>6, <1>7, <1>8, <1>9, <1>10 DEF IInv

-----------------------------------------------------------------------------
(* Staging, and the copy stream.                                           *)

\* extend_batch enqueues a copy for each of the newest steps it is given.
LEMMA ExtendOpsAre ==
  ASSUME NEW k \in Nat, ptr \in Int
  PROVE  /\ IsASequence(ExtendOps(k))
         /\ \A o \in Range(ExtendOps(k)) : o.op = "row" =>
              \E i \in 1..(k - Skip(k)) :
                o.slot = SlotAt(ptr + Skip(k) + i - 1) /\ o.from = Skip(k) + i
         /\ \A i \in 1..(k - Skip(k)) : \E o \in Range(ExtendOps(k)) :
              o.op = "row" /\ o.slot = SlotAt(ptr + Skip(k) + i - 1)
         /\ \A o \in Range(ExtendOps(k)) : o.op # "final"
<1> DEFINE n == k - Skip(k)
           clear == [op |-> "clear", slots |-> Range(Extended(k))]
           row(i) == [op |-> "row", slot |-> Extended(k)[i], from |-> Skip(k) + i]
           copied == [i \in 1..n |-> row(i)]
<1>1. n \in Nat
  BY SkipIs, Constants
<1> HIDE DEF n
<1>2. Extended(k) = [i \in 1..n |-> SlotAt(ptr + Skip(k) + i - 1)]
  BY DEF Extended, n
<1>3. Len(Extended(k)) = n
  BY <1>1, <1>2
<1>4. ExtendOps(k) = <<clear>> \o copied
  BY <1>3 DEF ExtendOps
<1>5. IsASequence(copied) /\ Range(copied) = {row(i) : i \in 1..n}
  <2>1. \A i \in 1..n : copied[i] = row(i)
    OBVIOUS
  <2>2. copied = [i \in 1..n |-> copied[i]]
    OBVIOUS
  <2> HIDE DEF copied, row
  <2>3. IsASequence(copied) /\ Range(copied) = {copied[i] : i \in 1..n}
    BY <1>1, <2>2, QueueOf
  <2>4. {copied[i] : i \in 1..n} = {row(i) : i \in 1..n}
    BY <2>1
  <2> QED BY <2>3, <2>4
<1>6. IsASequence(<<clear>>) /\ Range(<<clear>>) = {clear}
  <2> HIDE DEF clear
  <2> QED BY OneQueued
<1>7. IsASequence(ExtendOps(k)) /\ Range(ExtendOps(k)) = {clear} \cup {row(i) : i \in 1..n}
  <2> HIDE DEF clear, copied, row
  <2>1. IsASequence(<<clear>> \o copied) /\ Range(<<clear>> \o copied) = Range(<<clear>>) \cup Range(copied)
    BY <1>5, <1>6, MoreQueued
  <2> QED BY <1>4, <1>5, <1>6, <2>1
<1>8. /\ clear.op = "clear"
      /\ \A i \in 1..n : /\ row(i).op = "row" /\ row(i).slot = SlotAt(ptr + Skip(k) + i - 1)
                         /\ row(i).from = Skip(k) + i
  BY <1>2
<1> HIDE DEF clear, row
<1> QED BY <1>7, <1>8 DEF n

\* The steps the buffer keeps of the old ones are not overwritten, and the
\* merged batches of the others are on their way.
LEMMA StageKeeps ==
  ASSUME IInv, StageRuns
  PROVE  IInv'
<1> USE Constants
<1>0. /\ lpc = "stage" /\ lpc \notin Between /\ lpc' = "attach" /\ buffers' = runs
      /\ ptr' = ptr + ready /\ stream' = stream \o ExtendOps(ready)
      /\ UNCHANGED <<write, read, slots, ring, pending, nextGen, ready, runs, finals, written, replay>>
  BY DEF StageRuns, Extend, Between, rings, drain, replayDevice
<1>1. /\ ready \in Nat /\ ready > 0 /\ First \in Int /\ First + ready = nextGen /\ nextGen \in Nat
  BY <1>0, WithinDrain
<1>2. ptr = First /\ ptr' = nextGen
  BY <1>0, <1>1 DEF IInv, Replayed
<1>3. ring = 1
  BY <1>0 DEF IInv, Cursors
<1>4. stream = <<>>
  BY <1>0 DEF IInv, Replayed
<1>5. IsASequence(stream') /\ Range(stream') = Range(ExtendOps(ready))
  <2>1. IsASequence(ExtendOps(ready))
    BY <1>1, <1>2, ExtendOpsAre
  <2>2. IsASequence(stream) /\ Range(stream) = {}
    BY <1>4, EmptyQueue
  <2>3. IsASequence(stream \o ExtendOps(ready))
          /\ Range(stream \o ExtendOps(ready)) = Range(stream) \cup Range(ExtendOps(ready))
    BY <2>1, <2>2, MoreQueued
  <2> QED BY <1>0, <2>2, <2>3
<1>6. DrainTypeOK'
  BY <1>0 DEF IInv, DrainTypeOK
<1>7. Cursors'
  BY <1>0, <1>3 DEF IInv, Cursors, Between, First
<1>8. RingsHold' /\ Assembly'
  BY <1>0 DEF IInv, RingsHold, Assembly, First, Complete
<1>9. Merged' /\ PayloadsRead'
  BY <1>0, ZenonT(40) DEF IInv, Merged, PayloadsRead, First, Uniform
<1> DEFINE k == Skip(ready)
<1>10. k \in Nat /\ k <= ready /\ (k > 0 => k = ready - Cap) /\ (k = 0 => ready <= Cap)
  BY <1>1, SkipIs
<1> HIDE DEF k
<1>11. \A i \in 1..ready : runs[i] = Uniform(First + i - 1)
  BY <1>0, <1>1 DEF IInv, Merged
<1>12. InPlace'
  <2>1. \A o \in Range(stream') : o.op = "row" =>
          \E t \in Newest' : o.slot = SlotAt(t) /\ buffers'[o.from] = Uniform(t)
    <3> SUFFICES ASSUME NEW o \in Range(stream'), o.op = "row"
                 PROVE  \E t \in Newest' : o.slot = SlotAt(t) /\ buffers'[o.from] = Uniform(t)
      OBVIOUS
    <3>1. PICK i \in 1..(ready - k) : o.slot = SlotAt(ptr + k + i - 1) /\ o.from = k + i
      BY <1>1, <1>2, <1>5, ExtendOpsAre DEF k
    <3> DEFINE t == First + k + i - 1
    <3>2. t \in Newest'
      <4>1. t \in Nat /\ nextGen - Cap <= t /\ t < nextGen
        <5>1. First \in Nat
          BY <1>0, <1>3 DEF IInv, Cursors, DrainTypeOK, Between
        <5> QED BY <1>1, <1>10, <5>1
      <4> QED BY <1>2, <4>1 DEF Newest
    <3>3. k + i \in 1..ready /\ First + (k + i) - 1 = t
      BY <1>1, <1>10
    <3>4. runs[k + i] = Uniform(t)
      BY <1>11, <3>3
    <3>5. o.slot = SlotAt(t)
      BY <1>2, <3>1
    <3> QED BY <1>0, <3>1, <3>2, <3>4, <3>5
  <2>2. ASSUME NEW t \in Newest'
        PROVE  \/ replay'[SlotAt(t)] = Uniform(t)
               \/ \E o \in Range(stream') : o.op = "row" /\ o.slot = SlotAt(t)
    <3>1. t \in Nat /\ nextGen - Cap <= t /\ t < nextGen
      BY <1>2 DEF Newest
    <3>2. CASE t >= First + k
      <4>1. t - First - k + 1 \in 1..(ready - k) /\ ptr + k + (t - First - k + 1) - 1 = t
        BY <1>1, <1>2, <1>10, <3>1, <3>2
      <4>2. \E o \in Range(ExtendOps(ready)) :
              o.op = "row" /\ o.slot = SlotAt(ptr + k + (t - First - k + 1) - 1)
        BY <1>1, <1>2, <4>1, ExtendOpsAre DEF k
      <4> QED BY <1>5, <4>1, <4>2
    <3>3. CASE t < First + k
      <4>1. t \in Newest
        BY <1>1, <1>2, <1>10, <3>1, <3>3 DEF Newest
      <4>2. Range(stream) = {}
        BY <1>4, EmptyQueue
      <4>3. replay[SlotAt(t)] = Uniform(t)
        BY <4>1, <4>2 DEF IInv, Replayed, InPlace
      <4> QED BY <1>0, <4>3
    <3> QED BY <1>1, <1>10, <3>1, <3>2, <3>3
  <2> QED BY <1>0, <1>5, <2>1, <2>2 DEF IInv, Replayed, InPlace, Uniform
<1>13. Replayed'
  BY <1>0, <1>2, <1>12 DEF Replayed
<1> QED BY <1>6, <1>7, <1>8, <1>9, <1>13 DEF IInv

\* Final rows change the table and what is enqueued for it, no row.
LEMMA WriteFinalsKeeps ==
  ASSUME IInv, WriteFinals
  PROVE  IInv'
<1> USE Constants
<1> DEFINE op == [op |-> "final", slot |-> FinalSlot, given |-> Given(FinalEnvs, FinalSlot),
                  final |-> FinalRow]
<1>0. /\ lpc = "attach" /\ lpc' = lpc /\ written < ready /\ written' = written + 1
      /\ UNCHANGED <<write, read, slots, ring, pending, nextGen, ready, runs, finals, buffers, ptr,
                     replay>>
      /\ stream' = stream \/ stream' = stream \o FinalOps(FinalEnvs, FinalSlot, FinalRow)
  BY DEF WriteFinals, rings
<1>1. FinalOps(FinalEnvs, FinalSlot, FinalRow) = <<op>> /\ op.op # "row"
  BY DEF FinalOps
<1> HIDE DEF op
<1>2. IsASequence(stream)
  BY DEF IInv, Replayed, InPlace
<1>3. IsASequence(stream') /\ Range(stream) \subseteq Range(stream')
        /\ Range(stream') \subseteq Range(stream) \cup {op}
  <2>1. CASE stream' = stream
    BY <1>2, <2>1
  <2>2. CASE stream' = stream \o FinalOps(FinalEnvs, FinalSlot, FinalRow)
    <3>1. IsASequence(<<op>>) /\ Range(<<op>>) = {op}
      BY OneQueued
    <3>2. IsASequence(stream \o <<op>>) /\ Range(stream \o <<op>>) = Range(stream) \cup Range(<<op>>)
      BY <1>2, <3>1, MoreQueued
    <3> QED BY <1>1, <2>2, <3>1, <3>2
  <2> QED BY <1>0, <2>1, <2>2
<1>4. DrainTypeOK'
  BY <1>0, SMTT(30) DEF IInv, DrainTypeOK
<1>5. Cursors' /\ RingsHold' /\ Assembly'
  BY <1>0 DEF IInv, Cursors, RingsHold, Assembly, Between, First, Complete
<1>6. Merged' /\ PayloadsRead'
  BY <1>0, SMTT(30) DEF IInv, Merged, PayloadsRead, First, Uniform
<1>7. InPlace'
  <2>1. Newest' = Newest
    BY <1>0 DEF Newest
  <2>2. buffers' = buffers /\ replay' = replay
    BY <1>0
  <2>3. /\ replay \in [0..BufferSize -> [Collectors -> Int]]
        /\ \A o \in Range(stream) : o.op = "row" =>
             \E t \in Newest : o.slot = SlotAt(t) /\ buffers[o.from] = Uniform(t)
        /\ \A t \in Newest :
             \/ replay[SlotAt(t)] = Uniform(t)
             \/ \E o \in Range(stream) : o.op = "row" /\ o.slot = SlotAt(t)
    BY DEF IInv, Replayed, InPlace
  <2>4. \A o \in Range(stream') : o.op = "row" =>
          \E t \in Newest : o.slot = SlotAt(t) /\ buffers[o.from] = Uniform(t)
    BY <1>1, <1>3, <2>3
  <2>5. \A t \in Newest :
          \/ replay[SlotAt(t)] = Uniform(t)
          \/ \E o \in Range(stream') : o.op = "row" /\ o.slot = SlotAt(t)
    BY <1>3, <2>3
  <2> QED BY <1>3, <2>1, <2>2, <2>3, <2>4, <2>5 DEF InPlace, Uniform
<1>8. Replayed'
  BY <1>0, <1>7 DEF IInv, Replayed
<1> QED BY <1>4, <1>5, <1>6, <1>8 DEF IInv

\* A row that is executed lands in the slot of its step and in no other's.
LEMMA CopyStreamKeeps ==
  ASSUME IInv, CopyStream
  PROVE  IInv'
<1> USE Constants
<1> DEFINE o == Head(stream)
<1>0. /\ stream # <<>> /\ stream' = Tail(stream) /\ Execute(o, buffers)
      /\ UNCHANGED <<write, read, slots, lpc, ring, pending, nextGen, ready, runs, finals, written,
                     buffers, ptr>>
  BY DEF CopyStream, rings, drain, stage, replayHost
<1>1. /\ IsASequence(stream)
      /\ replay \in [0..BufferSize -> [Collectors -> Int]]
      /\ \A a \in Range(stream) : a.op = "row" =>
           \E t \in Newest : a.slot = SlotAt(t) /\ buffers[a.from] = Uniform(t)
      /\ \A t \in Newest :
           \/ replay[SlotAt(t)] = Uniform(t)
           \/ \E a \in Range(stream) : a.op = "row" /\ a.slot = SlotAt(t)
  BY DEF IInv, Replayed, InPlace
<1>2. IsASequence(stream') /\ Range(stream) = {o} \cup Range(stream')
  BY <1>0, <1>1, OneTaken
<1> HIDE DEF o
<1>3. \/ o.op # "row" /\ replay' = replay
      \/ o.op = "row" /\ replay' = [replay EXCEPT ![o.slot] = buffers[o.from]]
  BY <1>0 DEF Execute
<1>4. /\ replay' \in [0..BufferSize -> [Collectors -> Int]]
      /\ \A t \in Newest :
           \/ replay'[SlotAt(t)] = Uniform(t)
           \/ \E a \in Range(stream') : a.op = "row" /\ a.slot = SlotAt(t)
  <2>1. CASE o.op # "row" /\ replay' = replay
    BY <1>1, <1>2, <2>1
  <2>2. CASE o.op = "row" /\ replay' = [replay EXCEPT ![o.slot] = buffers[o.from]]
    <3>1. PICK t \in Newest : o.slot = SlotAt(t) /\ buffers[o.from] = Uniform(t)
      BY <1>1, <1>2, <2>2
    <3>2. t \in Int /\ SlotAt(t) \in 0..BufferSize /\ Uniform(t) \in [Collectors -> Int]
      <4>1. t \in Int
        BY DEF Newest
      <4> QED BY <4>1, SlotPlaces DEF Uniform
    <3>3. /\ replay' \in [0..BufferSize -> [Collectors -> Int]]
          /\ replay'[SlotAt(t)] = Uniform(t)
          /\ \A s \in 0..BufferSize : s # SlotAt(t) => replay'[s] = replay[s]
      BY <1>1, <2>2, <3>1, <3>2
    <3>4. ASSUME NEW u \in Newest, u # t
          PROVE  SlotAt(u) # SlotAt(t) /\ SlotAt(u) \in 0..BufferSize
      <4>0. ptr \in Int
        <5>1. First \in Int /\ nextGen \in Int
          BY DEF IInv, DrainTypeOK, First
        <5> QED BY <5>1 DEF IInv, Replayed
      <4>1. u \in Int /\ u - t < Cap /\ t - u < Cap
        BY <4>0 DEF Newest
      <4>2. u % Cap # t % Cap
        BY <3>2, <3>4, <4>1, ModDistinct
      <4> QED BY <4>1, <4>2, SlotPlaces DEF SlotAt
    <3>5. ASSUME NEW u \in Newest
          PROVE  \/ replay'[SlotAt(u)] = Uniform(u)
                 \/ \E a \in Range(stream') : a.op = "row" /\ a.slot = SlotAt(u)
      <4>1. CASE u = t
        BY <3>3, <4>1
      <4>2. CASE u # t
        <5>1. replay'[SlotAt(u)] = replay[SlotAt(u)] /\ o.slot # SlotAt(u)
          BY <3>1, <3>3, <3>4, <4>2
        <5> QED BY <1>1, <1>2, <5>1
      <4> QED BY <4>1, <4>2
    <3> QED BY <3>3, <3>5
  <2> QED BY <1>3, <2>1, <2>2
<1>5. InPlace'
  <2>1. Newest' = Newest /\ buffers' = buffers
    BY <1>0 DEF Newest
  <2>2. \A a \in Range(stream') : a.op = "row" =>
          \E t \in Newest : a.slot = SlotAt(t) /\ buffers[a.from] = Uniform(t)
    BY <1>1, <1>2
  <2> QED BY <1>2, <1>4, <2>1, <2>2 DEF InPlace, Uniform
<1>6. DrainTypeOK' /\ Cursors' /\ RingsHold' /\ Assembly'
  BY <1>0 DEF IInv, DrainTypeOK, Cursors, RingsHold, Assembly, Between, First, Complete
<1>7. Merged' /\ PayloadsRead'
  BY <1>0, ZenonT(40) DEF IInv, Merged, PayloadsRead, First, Uniform
<1>8. Replayed'
  <2>1. lpc \notin {"merge", "stage"}
    BY <1>0 DEF IInv, Replayed
  <2> QED BY <1>0, <1>5, <2>1 DEF IInv, Replayed, First
<1> QED BY <1>6, <1>7, <1>8 DEF IInv

-----------------------------------------------------------------------------
(* The release.                                                            *)

\* Releasing what was ingested brings the cursors together again, ring by
\* ring, and the views of what was released go with the last.
LEMMA CommitKeeps ==
  ASSUME IInv, CommitRing
  PROVE  IInv'
<1> USE Constants
<1> DEFINE last == ring = NumCollectors
           left == {q \in DOMAIN pending : q[1] >= nextGen}
<1>0. /\ lpc = "attach" /\ lpc \notin Between /\ written = ready /\ ring' = NextRing
      /\ read' = [read EXCEPT ![ring] = @ + ready]
      /\ UNCHANGED <<write, slots, nextGen, buffers, ptr, stream, replay>>
  BY DEF CommitRing, Release, Between, stage, copies, replayHost, replayDevice
<1>1. last => /\ lpc' = "train" /\ ready' = 0 /\ runs' = <<>> /\ written' = 0
              /\ DOMAIN finals' = Collectors /\ pending' = [p \in left |-> pending[p]]
  BY DEF CommitRing
<1>2. ~last => UNCHANGED <<lpc, ready, runs, finals, written, pending>>
  BY DEF CommitRing
<1> HIDE DEF last
<1>3. /\ ready \in Nat /\ ready > 0 /\ ready <= Budget
      /\ First \in Int /\ First + ready = nextGen /\ nextGen \in 0..MaxSteps
      /\ \A c \in Collectors :
           read[c] \in 0..MaxSteps /\ write[c] \in 0..MaxSteps /\ nextGen <= write[c]
  BY <1>0, WithinDrain
<1>4. ring \in Collectors /\ read \in [Collectors -> 0..MaxSteps]
  BY DEF IInv, DrainTypeOK
<1>5. \A c \in Collectors : read[c] = IF c < ring THEN nextGen ELSE First
  BY <1>0 DEF IInv, Cursors, Between
<1>6. \A c \in Collectors : read'[c] = IF c <= ring THEN nextGen ELSE First
  BY <1>0, <1>3, <1>4, <1>5, SMTT(30)
<1>7. /\ ring' \in Collectors /\ (last => ring' = 1) /\ (~last => ring' = ring + 1)
      /\ (last => \A c \in Collectors : c <= ring)
  BY <1>0, <1>4 DEF NextRing, last
<1>8. DrainTypeOK'
  <2>1. read' \in [Collectors -> 0..MaxSteps]
    <3>1. read' = [c \in Collectors |-> read'[c]]
      BY <1>0, <1>4
    <3>2. \A c \in Collectors : read'[c] \in 0..MaxSteps
      BY <1>3, <1>4, <1>5, <1>6
    <3> QED BY <3>1, <3>2
  <2>2. CASE last
    <3>1. DOMAIN pending' \subseteq DOMAIN pending
      BY <1>1, <2>2
    <3>2. DOMAIN pending' \subseteq (0..MaxSteps) \X Collectors
      BY <3>1 DEF IInv, DrainTypeOK
    <3>3. nextGen' \in 0..MaxSteps /\ ready' \in 0..Budget /\ written' \in 0..ready'
      BY <1>0, <1>1, <1>3, <2>2
    <3>4. /\ write' \in [Collectors -> 0..MaxSteps]
          /\ slots' \in [Collectors -> [Slots -> Step]]
      BY <1>0 DEF IInv, DrainTypeOK
    <3> QED BY <1>1, <1>7, <2>1, <2>2, <3>2, <3>3, <3>4 DEF DrainTypeOK
  <2>3. CASE ~last
    BY <1>0, <1>2, <1>7, <2>1, <2>3 DEF IInv, DrainTypeOK
  <2> QED BY <2>2, <2>3
<1>9. Cursors'
  <2>1. CASE last
    BY <1>0, <1>1, <1>3, <1>6, <1>7, <2>1 DEF Cursors, Between
  <2>2. CASE ~last
    <3>1. /\ lpc' = "attach" /\ ready' = ready /\ First' = First /\ nextGen' = nextGen
      BY <1>0, <1>2, <2>2 DEF First
    <3>2. \A c \in Collectors : read'[c] = IF c < ring' THEN nextGen ELSE First
      BY <1>4, <1>6, <1>7, <2>2
    <3> QED BY <1>3, <3>1, <3>2 DEF Cursors, Between
  <2> QED BY <2>1, <2>2
<1>10. RingsHold'
  <2> SUFFICES ASSUME NEW c \in Collectors
               PROVE  /\ read'[c] <= write[c] /\ write[c] <= read'[c] + Capacity
                      /\ \A g \in read'[c]..(write[c] - 1) : slots[c][g % Capacity] = g
    BY <1>0 DEF RingsHold
  <2>1. /\ write[c] <= read[c] + Capacity
        /\ \A g \in read[c]..(write[c] - 1) : slots[c][g % Capacity] = g
    BY DEF IInv, RingsHold
  <2>2. read[c] <= read'[c] /\ read'[c] <= nextGen /\ read'[c] \in Int
    BY <1>3, <1>4, <1>5, <1>6
  <2> QED BY <1>3, <2>1, <2>2, SMTT(30)
<1>11. Assembly'
  <2>1. CASE last
    <3>1. First' = nextGen /\ nextGen' = nextGen /\ write' = write
      BY <1>0, <1>1, <1>3, <2>1 DEF First
    <3>2. \A p \in left : /\ nextGen <= p[1] /\ p[1] < write[p[2]] /\ p[1] < nextGen + Budget
                          /\ pending[p] = p[1] % Capacity
      <4> SUFFICES ASSUME NEW p \in left
                   PROVE  /\ nextGen <= p[1] /\ p[1] < write[p[2]] /\ p[1] < nextGen + Budget
                          /\ pending[p] = p[1] % Capacity
        OBVIOUS
      <4>1. p[1] < write[p[2]] /\ p[1] < First + Budget /\ pending[p] = p[1] % Capacity
        BY DEF IInv, Assembly
      <4>2. p[1] \in Int /\ p[1] >= nextGen
        BY DEF IInv, DrainTypeOK
      <4> QED BY <1>3, <4>1, <4>2
    <3>3. \A g \in nextGen..(nextGen - 1) : FALSE
      BY <1>3
    <3>4. DOMAIN pending' = left /\ \A p \in left : pending'[p] = pending[p]
      BY <1>1, <2>1
    <3> HIDE DEF left
    <3> QED BY <3>1, <3>2, <3>3, <3>4 DEF Assembly
  <2>2. CASE ~last
    BY <1>0, <1>2, <2>2 DEF IInv, Assembly, First, Complete
  <2> QED BY <2>1, <2>2
<1>12. Merged'
  <2>1. CASE last
    <3>1. runs' = <<>> /\ Len(runs') = 0 /\ runs' \in Seq([Collectors -> Int])
      BY <1>1, <2>1, EmptySeq
    <3> QED BY <1>1, <2>1, <3>1 DEF Merged
  <2>2. CASE ~last
    BY <1>0, <1>2, <2>2 DEF IInv, Merged, First, Uniform
  <2> QED BY <2>1, <2>2
<1>13. PayloadsRead'
  <2>1. CASE last
    BY <1>1, <2>1 DEF PayloadsRead
  <2>2. CASE ~last
    BY <1>0, <1>2, <2>2 DEF IInv, PayloadsRead, First
  <2> QED BY <2>1, <2>2
<1>14. Replayed'
  <2>1. ptr = nextGen
    BY <1>0 DEF IInv, Replayed
  <2>2. lpc' \notin {"acquire", "merge", "stage"}
    BY <1>0, <1>1, <1>2
  <2> QED BY <1>0, <2>1, <2>2, InPlaceKept DEF IInv, Replayed
<1> QED BY <1>8, <1>9, <1>10, <1>11, <1>12, <1>13, <1>14 DEF IInv

-----------------------------------------------------------------------------
(* The invariant of the drain, and what it says.                           *)

LEMMA Initial == Init => IInv
<1> SUFFICES ASSUME Init PROVE IInv
  OBVIOUS
<1> USE Constants
<1>0. /\ write = [c \in Collectors |-> 0] /\ read = [c \in Collectors |-> 0]
      /\ slots = [c \in Collectors |-> [s \in Slots |-> -1]]
      /\ lpc = "loop" /\ ring = 1 /\ nextGen = 0 /\ ready = 0 /\ written = 0 /\ ptr = 0
      /\ finals = [c \in Collectors |-> <<>>]
      /\ replay = [s \in 0..BufferSize |-> [c \in Envs |-> -1]]
  BY DEF Init, ReplayInit
<1>1. runs = <<>> /\ Len(runs) = 0 /\ runs \in Seq([Collectors -> Int])
  BY EmptySeq DEF Init
<1>2. DOMAIN pending = {}
  BY DEF Init
<1>3. IsASequence(stream) /\ Range(stream) = {}
  BY EmptyQueue DEF Init
<1>4. DrainTypeOK
  BY <1>0, <1>2 DEF DrainTypeOK, Step
<1>5. Cursors
  BY <1>0, <1>1 DEF Cursors, Between
<1>6. RingsHold
  BY <1>0 DEF RingsHold
<1>7. Assembly
  BY <1>0, <1>2 DEF Assembly, First
<1>8. Merged /\ PayloadsRead
  BY <1>0, <1>1 DEF Merged, PayloadsRead
<1>9. Replayed
  <2>1. Newest = {}
    BY <1>0 DEF Newest
  <2> QED BY <1>0, <1>3, <2>1 DEF Replayed, InPlace
<1> QED BY <1>4, <1>5, <1>6, <1>7, <1>8, <1>9 DEF IInv

LEMMA Inductive == IInv /\ [Next]_vars => IInv'
<1> SUFFICES ASSUME IInv, [Next]_vars PROVE IInv'
  OBVIOUS
<1>1. CASE \E c \in Collectors : Push(c)
  BY <1>1, PushKeeps
<1>2. CASE Drain
  BY <1>2, ScanKeeps, PopKeeps, AcquireKeeps, MergeKeeps, ReadFinalsKeeps, StageKeeps,
     WriteFinalsKeeps, CommitKeeps DEF Drain
<1>3. CASE CopyStream
  BY <1>3, CopyStreamKeeps
<1>4. CASE ReadProgress \/ MaybeTrain \/ Update \/ Publish \/ ComputeStream \/ UNCHANGED vars
  <2>1. Quiet
    BY <1>4, QuietSteps
  <2>2. lpc \in {"loop", "scan", "pop", "acquire", "merge", "stage", "attach",
                 "train", "update", "publish"}
    BY DEF IInv, DrainTypeOK
  <2>3. lpc' \in {"loop", "scan", "pop", "acquire", "merge", "stage", "attach",
                  "train", "update", "publish"}
    BY <2>1, <2>2 DEF Quiet
  <2> QED BY <2>1, <2>3, QuietKeeps
<1> QED BY <1>1, <1>2, <1>3, <1>4 DEF Next, Learner

LEMMA InvariantHolds == Spec => []IInv
BY Initial, Inductive, PTL DEF Spec

\* Between two drains every ring's read cursor stands at the assembler's next
\* generation, however unevenly the collectors push: what _ingest_runs would
\* warn about cannot happen.
THEOREM CursorsAgree == Spec => []CursorsInLockstep
<1>1. IInv => CursorsInLockstep
  BY DEF IInv, Cursors, CursorsInLockstep, Between
<1> QED BY <1>1, InvariantHolds, PTL

\* A view the assembler keeps over several drains shows the env step it was
\* added for as long as its ring has not released the slot; that no slot is
\* released early is PayloadsAreAligned and CursorsAgree.
THEOREM ViewsStayIntact == Spec => []PendingViewsIntact
<1>1. ASSUME IInv PROVE PendingViewsIntact
  <2> SUFFICES ASSUME NEW p \in DOMAIN pending, p[1] >= read[p[2]]
               PROVE  slots[p[2]][pending[p]] = p[1]
    BY DEF PendingViewsIntact
  <2>1. p[1] \in 0..MaxSteps /\ p[2] \in Collectors
    BY <1>1 DEF IInv, DrainTypeOK
  <2>2. p[1] < write[p[2]] /\ pending[p] = p[1] % Capacity
    BY <1>1 DEF IInv, Assembly
  <2>3. read[p[2]] \in Int /\ write[p[2]] \in Int
    BY <1>1, <2>1 DEF IInv, DrainTypeOK
  <2>4. p[1] \in read[p[2]]..(write[p[2]] - 1)
    BY <2>1, <2>2, <2>3
  <2> QED BY <1>1, <2>1, <2>2, <2>4 DEF IInv, RingsHold
<1> QED BY <1>1, InvariantHolds, PTL

\* Once the copy stream has caught up, the k-th full batch of the replay
\* buffer is the k-th env step of every collector: the assembler never joins
\* steps of different ordinals, and no row is copied after it was refilled.
THEOREM BatchesAreAligned == Spec => []ReplayAligned
<1>1. ASSUME IInv PROVE ReplayAligned
  <2> USE Constants
  <2> SUFFICES ASSUME stream = <<>>, NEW t \in Max({0, ptr - Cap})..(ptr - 1),
                      NEW c \in Collectors
               PROVE  StepAt(t, c) = t
    BY DEF ReplayAligned
  <2>1. ptr \in Nat
    <3>1. lpc \notin Between => First \in Nat
      BY <1>1 DEF IInv, DrainTypeOK, Cursors
    <3> QED BY <1>1, <3>1 DEF IInv, DrainTypeOK, Replayed, Between
  <2>2. Max({0, ptr - Cap}) = IF ptr > Cap THEN ptr - Cap ELSE 0
    BY <2>1, SkipIs DEF Skip
  <2>3. t \in Newest
    BY <2>1, <2>2 DEF Newest
  <2>4. Range(stream) = {}
    BY EmptyQueue
  <2>5. replay[SlotAt(t)] = Uniform(t)
    BY <1>1, <2>3, <2>4 DEF IInv, Replayed, InPlace
  <2> QED BY <2>5 DEF StepAt, Uniform
<1> QED BY <1>1, InvariantHolds, PTL

\* The final rows attached to a generation are that generation's, whatever
\* ring they were read from: read_final_span counts from each ring's own read
\* cursor, the merge from the assembler's.
PayloadsAligned ==
  lpc = "attach" /\ written < ready =>
    FinalRow = [c \in Collectors |-> ptr - ready + written]

LEMMA PayloadsFit ==
  ASSUME IInv
  PROVE  PayloadsAligned
<1> SUFFICES ASSUME lpc = "attach", written < ready
             PROVE  FinalRow = [c \in Collectors |-> ptr - ready + written]
  BY DEF PayloadsAligned
<1>1. nextGen \in Nat /\ ready \in Nat /\ written \in Nat
  BY Constants DEF IInv, DrainTypeOK
<1>2. written + 1 \in 1..ready /\ First + (written + 1) - 1 = ptr - ready + written
  BY <1>1 DEF IInv, Replayed, First
<1>3. \A c \in Collectors : finals[c][written + 1] = ptr - ready + written
  BY <1>2 DEF IInv, PayloadsRead
<1> QED BY <1>3 DEF FinalRow

\* At every attach, the final rows attached to a generation are that generation's, whatever
\* ring they were read from: read_final_span counts from each ring's own read
\* cursor, the merge from the assembler's.
THEOREM PayloadsAreAligned == Spec => []PayloadsAligned
<1>1. IInv => PayloadsAligned
  BY PayloadsFit
<1> QED BY <1>1, InvariantHolds, PTL

-----------------------------------------------------------------------------
(* Lists: sequences that name each member of a set once.                   *)

Lists(q, S) ==
  /\ q \in Seq(S)
  /\ \A x \in S : \E i \in 1..Len(q) : q[i] = x
  /\ \A i, j \in 1..Len(q) : q[i] = q[j] => i = j

LEMMA ListCounts ==
  ASSUME NEW S, NEW q, Lists(q, S)
  PROVE  IsFiniteSet(S) /\ Cardinality(S) = Len(q) /\ Len(q) \in Nat
<1>1. q \in Seq(S)
  BY DEF Lists
<1>2. Len(q) \in Nat /\ q \in [1..Len(q) -> S]
  BY <1>1, LenProperties
<1>3. q \in Bijection(1..Len(q), S)
  BY <1>2 DEF Lists, Bijection, Injection, Surjection, IsInjective
<1>4. ExistsBijection(1..Len(q), S)
  BY <1>3 DEF ExistsBijection
<1>5. IsFiniteSet(1..Len(q)) /\ Cardinality(1..Len(q)) = Len(q)
  BY <1>2, FS_Interval, SMTT(30)
<1> QED BY <1>2, <1>4, <1>5, FS_Bijection

LEMMA ListOf ==
  ASSUME NEW S, NEW n \in Nat, NEW q \in [1..n -> S],
         \A x \in S : \E i \in 1..n : q[i] = x,
         \A i, j \in 1..n : q[i] = q[j] => i = j
  PROVE  Lists(q, S) /\ Len(q) = n
<1>1. q = [i \in 1..n |-> q[i]] /\ \A i \in 1..n : q[i] \in S
  OBVIOUS
<1>2. q \in Seq(S) /\ Len(q) = n
  <2>1. [i \in 1..n |-> q[i]] \in Seq(S) /\ Len([i \in 1..n |-> q[i]]) = n
    BY <1>1, IsASeq
  <2> QED BY <1>1, <2>1
<1> QED BY <1>2 DEF Lists

LEMMA EmptyList == Lists(<<>>, {})
BY EmptySeq DEF Lists

LEMMA ListsJoin ==
  ASSUME NEW S, NEW T, NEW q, NEW r, Lists(q, S), Lists(r, T), S \cap T = {}
  PROVE  Lists(q \o r, S \cup T)
<1>0. q \in Seq(S) /\ r \in Seq(T)
  BY DEF Lists
<1> DEFINE U == S \cup T
<1>1. q \in Seq(U) /\ r \in Seq(U)
  <2>1. S \subseteq U /\ T \subseteq U
    OBVIOUS
  <2> HIDE DEF U
  <2> QED BY <1>0, <2>1, SeqMonotonic
<1>2. /\ q \o r \in Seq(U) /\ Len(q \o r) = Len(q) + Len(r)
      /\ \A i \in 1..(Len(q) + Len(r)) :
           (q \o r)[i] = IF i <= Len(q) THEN q[i] ELSE r[i - Len(q)]
  <2> HIDE DEF U
  <2> QED BY <1>1, ConcatProperties
<1>3. /\ Len(q) \in Nat /\ Len(r) \in Nat
      /\ \A i \in 1..Len(q) : q[i] \in S
      /\ \A i \in 1..Len(r) : r[i] \in T
  BY <1>0, LenProperties, ElementOfSeq
<1> DEFINE n == Len(q)
           m == Len(r)
           p == q \o r
<1>4. ASSUME NEW x \in U PROVE \E i \in 1..(n + m) : p[i] = x
  <2>1. CASE x \in S
    <3>1. PICK i \in 1..n : q[i] = x
      BY <2>1 DEF Lists
    <3>2. i \in 1..(n + m) /\ i <= n
      BY <1>3
    <3> QED BY <1>2, <3>1, <3>2
  <2>2. CASE x \in T
    <3>1. PICK i \in 1..m : r[i] = x
      BY <2>2 DEF Lists
    <3>2. i + n \in 1..(n + m) /\ ~(i + n <= n) /\ i + n - n = i
      BY <1>3
    <3>3. p[i + n] = r[i + n - n]
      BY <1>2, <3>2
    <3> QED BY <3>1, <3>2, <3>3
  <2> QED BY <2>1, <2>2
<1>5. ASSUME NEW i \in 1..(n + m), NEW j \in 1..(n + m), p[i] = p[j]
      PROVE  i = j
  <2>1. /\ p[i] = IF i <= n THEN q[i] ELSE r[i - n]
        /\ p[j] = IF j <= n THEN q[j] ELSE r[j - n]
    BY <1>2
  <2>2. /\ i <= n => i \in 1..n /\ q[i] \in S
        /\ j <= n => j \in 1..n /\ q[j] \in S
        /\ ~(i <= n) => i - n \in 1..m /\ r[i - n] \in T
        /\ ~(j <= n) => j - n \in 1..m /\ r[j - n] \in T
    BY <1>3
  <2>3. (i <= n <=> j <= n)
    BY <1>5, <2>1, <2>2
  <2>4. CASE i <= n
    BY <1>5, <2>1, <2>2, <2>3, <2>4 DEF Lists
  <2>5. CASE ~(i <= n)
    <3>1. i - n = j - n
      BY <1>5, <2>1, <2>2, <2>3, <2>5 DEF Lists
    <3> QED BY <1>3, <3>1
  <2> QED BY <2>4, <2>5
<1> HIDE DEF p
<1>6. p \in Seq(U) /\ Len(p) = n + m
  BY <1>2 DEF p
<1> QED BY <1>4, <1>5, <1>6 DEF Lists, p

LEMMA ListPrefix ==
  ASSUME NEW S, NEW q, Lists(q, S), NEW n \in 0..Len(q)
  PROVE  Lists(SubSeq(q, 1, n), {q[i] : i \in 1..n})
<1> DEFINE P == {q[i] : i \in 1..n}
           r == SubSeq(q, 1, n)
<1>1. q \in Seq(S) /\ Len(q) \in Nat
  BY LenProperties DEF Lists
<1>2. \A i \in 1..n : i \in 1..Len(q)
  BY <1>1
<1>3. r \in Seq(P) /\ Len(r) = n /\ \A i \in 1..n : r[i] = q[i]
  <2>1. \A i \in 1..n : q[i] \in P
    OBVIOUS
  <2> HIDE DEF P
  <2>2. /\ r \in Seq(P) /\ Len(r) = IF 1 <= n THEN n - 1 + 1 ELSE 0
        /\ \A i \in 1..(n - 1 + 1) : r[i] = q[1 + i - 1]
    BY <2>1, SubSeqProperties
  <2> QED BY <2>2
<1>4. r \in [1..n -> P] /\ \A i \in 1..n : r[i] = q[i]
  <2> HIDE DEF P, r
  <2> QED BY <1>3, LenProperties
<1>5. \A x \in P : \E i \in 1..n : r[i] = x
  BY <1>4
<1>6. \A i, j \in 1..n : r[i] = r[j] => i = j
  BY <1>2, <1>4 DEF Lists
<1> HIDE DEF P, r
<1>7. n \in Nat
  OBVIOUS
<1>8. Lists(r, P)
  BY <1>4, <1>5, <1>6, <1>7, ListOf
<1> QED BY <1>8 DEF P, r

LEMMA ListMapped ==
  ASSUME NEW S, NEW q, Lists(q, S), NEW f, \A x, y \in S : f[x] = f[y] => x = y
  PROVE  Lists([i \in 1..Len(q) |-> f[q[i]]], {f[x] : x \in S})
<1> DEFINE T == {f[x] : x \in S}
           r == [i \in 1..Len(q) |-> f[q[i]]]
<1>1. q \in Seq(S) /\ Len(q) \in Nat /\ \A i \in 1..Len(q) : q[i] \in S
  BY LenProperties, ElementOfSeq DEF Lists
<1>2. r \in [1..Len(q) -> T] /\ \A i \in 1..Len(q) : r[i] = f[q[i]]
  BY <1>1, SMTT(30)
<1>3. \A x \in T : \E i \in 1..Len(q) : r[i] = x
  BY SMTT(30) DEF Lists
<1>4. \A i, j \in 1..Len(q) : r[i] = r[j] => i = j
  BY <1>1 DEF Lists
<1> HIDE DEF T, r
<1>5. Lists(r, T)
  BY <1>1, <1>2, <1>3, <1>4, ListOf
<1> QED BY <1>5 DEF T, r

LEMMA DescendingLists ==
  ASSUME NEW a \in Nat, NEW b \in Nat, a <= b
  PROVE  Lists(Descending(b - 1, a), a..(b - 1)) /\ Len(Descending(b - 1, a)) = b - a
<1> DEFINE n == b - a
           q == Descending(b - 1, a)
           R == a..(b - 1)
<1>1. q = [i \in 1..n |-> b - i]
  <2>1. b - 1 - a + 1 = n /\ \A i \in 1..n : b - 1 - i + 1 = b - i
    OBVIOUS
  <2> QED BY <2>1 DEF Descending
<1>2. q \in [1..n -> R] /\ n \in Nat /\ \A i \in 1..n : q[i] = b - i
  BY <1>1
<1>3. \A x \in R : \E i \in 1..n : q[i] = x
  <2> TAKE x \in R
  <2>1. b - x \in 1..n /\ b - (b - x) = x
    OBVIOUS
  <2> QED BY <1>2, <2>1
<1>4. \A i, j \in 1..n : q[i] = q[j] => i = j
  <2> HIDE DEF q
  <2> QED BY <1>2
<1> HIDE DEF q, n, R
<1>5. q \in [1..n -> R] /\ n \in Nat
  BY <1>2
<1>6. Lists(q, R) /\ Len(q) = n
  BY <1>3, <1>4, <1>5, ListOf
<1> QED BY <1>6 DEF q, n, R

\* The least number that is not in S would follow one that is.
LEMMA SetInduction ==
  ASSUME NEW S, 0 \in S, \A n \in Nat : n \in S => n + 1 \in S
  PROVE  Nat \subseteq S
<1> SUFFICES ASSUME Nat \ S # {} PROVE FALSE
  OBVIOUS
<1> DEFINE T == Nat \ S
<1>1. T \subseteq Nat /\ T # {}
  OBVIOUS
<1>2. Min(T) \in T /\ \A m \in T : Min(T) <= m
  <2> HIDE DEF T
  <2> QED BY <1>1, MinIs
<1> DEFINE n == Min(T)
<1> HIDE DEF n
<1>3. n \in Nat /\ n \notin S /\ \A m \in Nat : m \notin S => n <= m
  BY <1>2 DEF n
<1>4. n - 1 \in Nat /\ n - 1 + 1 = n /\ ~(n <= n - 1)
  BY <1>3
<1> QED BY <1>3, <1>4

\* A finite set of numbers can be listed in their order: each one comes after
\* as many as are below it.
LEMMA InOrderLists ==
  ASSUME NEW S, S \subseteq Nat, IsFiniteSet(S)
  PROVE  Lists(InOrder(S), S) /\ Len(InOrder(S)) = Cardinality(S)
<1> DEFINE n == Cardinality(S)
           Below(x) == {y \in S : y < x}
           rank == [x \in S |-> Cardinality(Below(x)) + 1]
           q == [i \in 1..n |-> CHOOSE x \in S : rank[x] = i]
<1>1. n \in Nat /\ IsFiniteSet(1..n) /\ Cardinality(1..n) = n
  <2>1. n \in Nat
    BY FS_CardinalityType
  <2> HIDE DEF n
  <2> QED BY <2>1, FS_Interval
<1>2. ASSUME NEW x \in S
      PROVE  IsFiniteSet(Below(x)) /\ rank[x] \in 1..n
  <2> DEFINE B == Below(x)
  <2>0. B \subseteq S /\ x \notin B
    OBVIOUS
  <2> HIDE DEF B
  <2>1. IsFiniteSet(B) /\ Cardinality(B) <= n /\ (Cardinality(B) = n => B = S)
    BY <2>0, FS_Subset
  <2>2. Cardinality(B) \in Nat
    BY <2>1, FS_CardinalityType
  <2>3. Cardinality(B) # n
    BY <2>0, <2>1
  <2>4. Cardinality(B) + 1 \in 1..n
    <3> HIDE DEF n
    <3> QED BY <1>1, <2>1, <2>2, <2>3
  <2> QED BY <2>1, <2>4 DEF B
<1>3. ASSUME NEW x \in S, NEW y \in S, x < y
      PROVE  rank[x] < rank[y]
  <2> DEFINE B == Below(x)
             C == Below(y)
  <2>1. B \cup {x} \subseteq C /\ x \notin B
    <3>1. x \in Nat /\ y \in Nat /\ \A z \in S : z \in Nat
      OBVIOUS
    <3>2. \A z \in S : z < x => z < y
      BY <1>3, <3>1
    <3>3. B \subseteq C
      BY <3>2
    <3>4. x \in C
      BY <1>3
    <3>5. x \notin B
      BY <3>1
    <3> QED BY <3>3, <3>4, <3>5
  <2>2. IsFiniteSet(B) /\ IsFiniteSet(C)
    BY <1>2
  <2>3. rank[x] = Cardinality(B) + 1 /\ rank[y] = Cardinality(C) + 1
    OBVIOUS
  <2> HIDE DEF B, C
  <2>4. IsFiniteSet(B \cup {x}) /\ Cardinality(B \cup {x}) = Cardinality(B) + 1
    BY <2>1, <2>2, FS_AddElement
  <2>5. Cardinality(B \cup {x}) <= Cardinality(C)
    BY <2>1, <2>2, FS_Subset
  <2>6. Cardinality(B) \in Nat /\ Cardinality(C) \in Nat
    BY <2>2, FS_CardinalityType
  <2> QED BY <2>3, <2>4, <2>5, <2>6
<1>4. rank \in [S -> 1..n]
  <2> HIDE DEF n
  <2> QED BY <1>2
<1> HIDE DEF rank, Below, n
<1>5. rank \in Injection(S, 1..n)
  <2>1. \A x, y \in S : rank[x] = rank[y] => x = y
    <3> SUFFICES ASSUME NEW x \in S, NEW y \in S, x # y PROVE rank[x] # rank[y]
      OBVIOUS
    <3>1. x \in Nat /\ y \in Nat /\ rank[x] \in Nat /\ rank[y] \in Nat
      BY <1>1, <1>4
    <3>2. x < y \/ y < x
      BY <3>1
    <3> QED BY <1>3, <3>1, <3>2
  <2> QED BY <1>4, <2>1 DEF Injection, IsInjective
<1>6. rank \in Surjection(S, 1..n)
  BY <1>1, <1>5, FS_Injection DEF n
<1>7. \A i \in 1..n : q[i] \in S /\ rank[q[i]] = i
  BY <1>6 DEF Surjection
<1>8. q \in [1..n -> S] /\ \A i, j \in 1..n : i < j => q[i] < q[j]
  <2>1. q \in [1..n -> S]
    BY <1>7
  <2> HIDE DEF q
  <2>2. ASSUME NEW i \in 1..n, NEW j \in 1..n, i < j
        PROVE  q[i] < q[j]
    <3>1. q[i] \in Nat /\ q[j] \in Nat /\ q[i] # q[j]
      <4>1. i # j
        BY <2>2
      <4> QED BY <1>7, <4>1
    <3>2. CASE q[j] < q[i]
      <4>1. rank[q[j]] < rank[q[i]]
        BY <1>3, <1>7, <3>2
      <4>2. j < i /\ i \in Nat /\ j \in Nat
        BY <1>7, <4>1
      <4> QED BY <2>2, <4>2
    <3> QED BY <3>1, <3>2
  <2> QED BY <2>1, <2>2
<1> HIDE DEF q
<1> DEFINE r == InOrder(S)
<1>9. r \in [1..n -> S] /\ \A i, j \in 1..n : i < j => r[i] < r[j]
  BY <1>8 DEF InOrder, n
<1> HIDE DEF r
<1>10. \A i, j \in 1..n : r[i] = r[j] => i = j
  <2> SUFFICES ASSUME NEW i \in 1..n, NEW j \in 1..n, i # j PROVE r[i] # r[j]
    OBVIOUS
  <2>1. r[i] \in Nat /\ r[j] \in Nat
    BY <1>9
  <2>2. i < j \/ j < i
    BY <1>1
  <2> QED BY <1>9, <2>1, <2>2
<1>11. r \in Injection(1..n, S)
  BY <1>9, <1>10 DEF Injection, IsInjective
<1>12. r \in Surjection(1..n, S)
  BY <1>1, <1>11, FS_Injection DEF n
<1>13. \A x \in S : \E i \in 1..n : r[i] = x
  BY <1>12 DEF Surjection
<1>14. r \in [1..n -> S]
  BY <1>9
<1>15. n \in Nat
  BY <1>1
<1>16. Lists(r, S) /\ Len(r) = n
  BY ONLY <1>10, <1>13, <1>14, <1>15, ListOf
<1> QED BY <1>16 DEF r, n

\* What FlattenSeq's recursion yields for i of the sequences.
Joined(f, seqs, i) == IF i = 1 THEN seqs[i] ELSE f[i - 1] \o seqs[i]

LEMMA JoinsExist ==
  ASSUME NEW seqs, NEW n \in Nat
  PROVE  \E f : f = [i \in 1..n |-> Joined(f, seqs, i)]
<1> DEFINE Is(f, m) == f = [i \in 1..m |-> Joined(f, seqs, i)]
           S == {m \in Nat : \E f : Is(f, m)}
<1>1. 0 \in S
  <2> DEFINE f == [i \in 1..0 |-> 0]
  <2>1. Is(f, 0)
    OBVIOUS
  <2> QED BY <2>1
<1>2. ASSUME NEW m \in Nat, m \in S
      PROVE  m + 1 \in S
  <2>1. PICK f : Is(f, m)
    BY <1>2
  <2> DEFINE g == [i \in 1..(m + 1) |-> Joined(f, seqs, i)]
  <2>2. \A i \in 1..m : i \in 1..(m + 1) /\ g[i] = f[i]
    BY <2>1
  <2>3. \A i \in 1..(m + 1) : g[i] = Joined(g, seqs, i)
    <3> SUFFICES ASSUME NEW i \in 1..(m + 1) PROVE Joined(f, seqs, i) = Joined(g, seqs, i)
      OBVIOUS
    <3>1. i # 1 => i - 1 \in 1..m
      OBVIOUS
    <3> HIDE DEF g
    <3> QED BY <2>2, <3>1 DEF Joined
  <2>4. Is(g, m + 1)
    BY <2>3
  <2>5. m + 1 \in Nat
    OBVIOUS
  <2> HIDE DEF Is
  <2> QED BY <2>4, <2>5
<1>3. n \in S
  <2> HIDE DEF S
  <2> QED BY <1>1, <1>2, SetInduction
<1> QED BY <1>3

LEMMA FlattenLists ==
  ASSUME NEW n \in Nat, NEW T, NEW seqs \in Seq(T), Len(seqs) = n, NEW sets,
         \A i \in 1..n : Lists(seqs[i], sets[i]),
         \A i, j \in 1..n : i # j => sets[i] \cap sets[j] = {}
  PROVE  Lists(FlattenSeq(seqs), UNION {sets[i] : i \in 1..n})
<1>1. CASE n = 0
  <2>1. FlattenSeq(seqs) = <<>>
    <3>1. seqs = <<>>
      BY <1>1, EmptySeq
    <3> QED BY <1>1, <3>1 DEF FlattenSeq
  <2>2. UNION {sets[i] : i \in 1..n} = {}
    BY <1>1
  <2> QED BY <2>1, <2>2, EmptyList
<1>2. CASE n # 0
  <2> DEFINE f == CHOOSE g : g = [i \in 1..n |-> Joined(g, seqs, i)]
             U(m) == UNION {sets[i] : i \in 1..m}
             S == {m \in Nat : m + 1 \in 1..n => Lists(f[m + 1], U(m + 1))}
  <2>1. FlattenSeq(seqs) = f[n]
    BY <1>2 DEF FlattenSeq, Joined
  <2>2. f = [i \in 1..n |-> Joined(f, seqs, i)]
    BY JoinsExist
  <2> HIDE DEF f
  <2>3. 0 \in S
    <3>1. 1 \in 1..n /\ f[1] = seqs[1]
      BY <1>2, <2>2 DEF Joined
    <3>2. U(1) = sets[1]
      OBVIOUS
    <3>3. Lists(f[1], U(1))
      BY <3>1, <3>2
    <3>4. 0 + 1 = 1
      OBVIOUS
    <3> HIDE DEF U
    <3> QED BY <3>3, <3>4
  <2>4. ASSUME NEW m \in Nat, m \in S
        PROVE  m + 1 \in S
    <3> SUFFICES ASSUME m + 1 + 1 \in 1..n
                 PROVE  Lists(f[m + 1 + 1], U(m + 1 + 1))
      OBVIOUS
    <3>0. PICK k \in 1..n : k = m + 1 + 1
      OBVIOUS
    <3>1. m + 1 \in 1..n /\ k # 1 /\ k - 1 = m + 1
      BY <3>0
    <3>2. Lists(f[k - 1], U(k - 1))
      BY <2>4, <3>1
    <3>3. f[k] = f[k - 1] \o seqs[k]
      <4>1. f[k] = Joined(f, seqs, k)
        BY <2>2
      <4> QED BY <3>1, <4>1 DEF Joined
    <3>4. U(k) = U(k - 1) \cup sets[k]
      <4>1. \A i : i \in 1..k <=> i \in 1..(k - 1) \/ i = k
        BY <3>1
      <4> QED BY <4>1
    <3>5. U(k - 1) \cap sets[k] = {}
      <4>1. \A i \in 1..(k - 1) : i \in 1..n /\ i # k
        BY <3>1
      <4> QED BY <4>1
    <3> HIDE DEF U
    <3>6. Lists(seqs[k], sets[k])
      OBVIOUS
    <3>7. Lists(f[k], U(k))
      BY <3>2, <3>3, <3>4, <3>5, <3>6, ListsJoin
    <3> QED BY <3>0, <3>7
  <2>5. n - 1 \in S /\ n - 1 + 1 = n /\ n \in 1..n
    <3>1. n - 1 \in Nat /\ n - 1 + 1 = n /\ n \in 1..n
      BY <1>2
    <3>2. Nat \subseteq S
      <4> HIDE DEF S
      <4> QED BY <2>3, <2>4, SetInduction
    <3> QED BY <3>1, <3>2
  <2> QED BY <2>1, <2>5
<1> QED BY <1>1, <1>2

-----------------------------------------------------------------------------
(* The table of final rows.                                                *)

\* The rows that the steps in a slot own, and those owned by any.
Rows(s) == {owners[s][c] : c \in DOMAIN owners[s]}
Taken   == UNION {Rows(s) : s \in 0..BufferSize}

\* A row has one owner or is free, and the free ones are listed once.
RowsHeld ==
  /\ \E n \in 0..MaxRows : DOMAIN table = 0..(n - 1)
  /\ DOMAIN owners = 0..BufferSize
  /\ \A s \in 0..BufferSize : DOMAIN owners[s] \subseteq Envs /\ Rows(s) \subseteq DOMAIN table
  /\ \A s, t \in 0..BufferSize : \A c \in DOMAIN owners[s] : \A d \in DOMAIN owners[t] :
       owners[s][c] = owners[t][d] => s = t /\ c = d
  /\ Lists(freeRows, DOMAIN table \ Taken)

LEMMA EnvSets ==
  /\ Envs \subseteq Nat /\ IsFiniteSet(Envs) /\ Cardinality(Envs) = NumEnvs
  /\ IsFiniteSet(0..BufferSize) /\ Cardinality(0..BufferSize) = Cap
  /\ MaxRows \in Nat /\ NumEnvs \in Nat \ {0} /\ NumEnvs <= MaxRows
<1>1. NumEnvs \in Nat \ {0} /\ BufferSize \in Nat \ {0} /\ Cap = BufferSize + 1
  BY ReplayAssumption DEF Cap
<1>2. IsFiniteSet(1..NumEnvs) /\ Cardinality(1..NumEnvs) = NumEnvs
  BY <1>1, FS_Interval
<1>3. IsFiniteSet(0..BufferSize) /\ Cardinality(0..BufferSize) = BufferSize + 1
  BY <1>1, FS_Interval
<1>4. MaxRows = NumEnvs * BufferSize + NumEnvs /\ NumEnvs * BufferSize \in Nat
  BY <1>1, SMT DEF MaxRows
<1> QED BY <1>1, <1>2, <1>3, <1>4 DEF Envs

\* The rows of some of a slot's steps, in env order.
LEMMA SlotRowsList ==
  ASSUME RowsHeld, NEW s \in 0..BufferSize, NEW e, e \subseteq DOMAIN owners[s]
  PROVE  Lists([i \in 1..Len(InOrder(e)) |-> owners[s][InOrder(e)[i]]], {owners[s][c] : c \in e})
<1>1. e \subseteq Envs
  BY DEF RowsHeld
<1>2. e \subseteq Nat /\ IsFiniteSet(e)
  BY <1>1, EnvSets, FS_Subset
<1>3. Lists(InOrder(e), e)
  BY <1>2, InOrderLists
<1>4. \A x, y \in e : owners[s][x] = owners[s][y] => x = y
  BY DEF RowsHeld
<1> DEFINE q == InOrder(e)
           f == owners[s]
<1> HIDE DEF q, f
<1>5. Lists(q, e) /\ \A x, y \in e : f[x] = f[y] => x = y
  BY <1>3, <1>4 DEF q, f
<1>6. Lists([i \in 1..Len(q) |-> f[q[i]]], {f[x] : x \in e})
  BY <1>5, ListMapped
<1> QED BY <1>6 DEF q, f

LEMMA ExtendedSlots ==
  ASSUME ptr \in Nat, NEW k \in Nat
  PROVE  /\ Len(Extended(k)) \in Nat
         /\ Extended(k) \in [1..Len(Extended(k)) -> 0..BufferSize]
         /\ \A i, j \in 1..Len(Extended(k)) : Extended(k)[i] = Extended(k)[j] => i = j
<1> DEFINE n == k - Skip(k)
           first == ptr + Skip(k)
           q == Extended(k)
<1>1. n \in Nat /\ n <= Cap /\ first \in Nat /\ Cap \in Nat \ {0}
  BY SkipIs, Constants
<1>2. q = [i \in 1..n |-> SlotAt(first + i - 1)]
  BY DEF Extended
<1> HIDE DEF q, n, first
<1>3. \A i \in 1..n : first + i - 1 \in Int /\ SlotAt(first + i - 1) \in 0..BufferSize
  BY <1>1, SlotPlaces
<1>4. q \in [1..n -> 0..BufferSize] /\ \A i \in 1..n : q[i] = SlotAt(first + i - 1)
  BY <1>2, <1>3
<1>5. \A i, j \in 1..n : q[i] = q[j] => i = j
  <2> SUFFICES ASSUME NEW i \in 1..n, NEW j \in 1..n, i # j PROVE q[i] # q[j]
    OBVIOUS
  <2> DEFINE a == first + i - 1
             b == first + j - 1
  <2>1. a \in Int /\ b \in Int /\ a # b /\ a - b < Cap /\ b - a < Cap
    BY <1>1
  <2> HIDE DEF a, b
  <2>2. a % Cap # b % Cap
    BY <1>1, <2>1, ModDistinct
  <2>3. q[i] = a % Cap /\ q[j] = b % Cap
    BY <1>4 DEF SlotAt, a, b
  <2> QED BY <2>2, <2>3
<1>6. Len(q) = n
  <2>1. [i \in 1..n |-> SlotAt(first + i - 1)] \in Seq(0..BufferSize)
          /\ Len([i \in 1..n |-> SlotAt(first + i - 1)]) = n
    BY <1>1, <1>3, IsASeq
  <2> QED BY <1>2, <2>1
<1> QED BY <1>1, <1>4, <1>5, <1>6 DEF q

\* Overwriting slots gives back what their steps owned.
LEMMA ExtendRows ==
  ASSUME RowsHeld, ptr \in Nat, NEW k \in Nat, Extend(k), DOMAIN table' = DOMAIN table
  PROVE  RowsHeld'
<1> DEFINE ext == Extended(k)
           n == Len(ext)
           seqs == [i \in 1..n |-> OwnedRows(ext[i])]
           sets == [i \in 1..n |-> Rows(ext[i])]
           back == UNION {sets[i] : i \in 1..n}
           all == {OwnedRows(s) : s \in 0..BufferSize}
<1>1. /\ n \in Nat /\ ext \in [1..n -> 0..BufferSize]
      /\ \A i, j \in 1..n : ext[i] = ext[j] => i = j
  BY ExtendedSlots
<1>2. /\ freeRows' = freeRows \o FlattenSeq(seqs)
      /\ owners' = [s \in DOMAIN owners |-> IF s \in Range(ext) THEN <<>> ELSE owners[s]]
  BY DEF Extend
<1>3. \A s \in 0..BufferSize : (s \in Range(ext) <=> \E i \in 1..n : ext[i] = s)
  <2>1. DOMAIN ext = 1..n
    BY <1>1
  <2> QED BY <2>1 DEF Range
<1> HIDE DEF ext, n
<1>4. \A s \in 0..BufferSize : Lists(OwnedRows(s), Rows(s))
  <2> TAKE s \in 0..BufferSize
  <2> DEFINE e == DOMAIN owners[s]
  <2> HIDE DEF e
  <2>1. Lists([i \in 1..Len(InOrder(e)) |-> owners[s][InOrder(e)[i]]], {owners[s][c] : c \in e})
    BY SlotRowsList DEF e
  <2> QED BY <2>1 DEF OwnedRows, Rows, e
<1>5. seqs \in Seq(all) /\ Len(seqs) = n
  <2>1. \A i \in 1..n : OwnedRows(ext[i]) \in all
    BY <1>1
  <2> HIDE DEF all
  <2> QED BY <1>1, <2>1, IsASeq
<1>6. \A i \in 1..n : Lists(seqs[i], sets[i])
  BY <1>1, <1>4
<1>7. \A i, j \in 1..n : i # j => sets[i] \cap sets[j] = {}
  <2> SUFFICES ASSUME NEW i \in 1..n, NEW j \in 1..n, i # j
               PROVE  Rows(ext[i]) \cap Rows(ext[j]) = {}
    OBVIOUS
  <2>1. ext[i] \in 0..BufferSize /\ ext[j] \in 0..BufferSize /\ ext[i] # ext[j]
    BY <1>1
  <2> QED BY <2>1 DEF RowsHeld, Rows
<1>8. Lists(FlattenSeq(seqs), back)
  <2> HIDE DEF seqs, sets, all
  <2>1. n \in Nat
    BY <1>1
  <2>2. seqs \in Seq(all) /\ Len(seqs) = n
    BY <1>5
  <2>3. Lists(FlattenSeq(seqs), UNION {sets[i] : i \in 1..n})
    BY ONLY <2>1, <2>2, <1>6, <1>7, FlattenLists
  <2> QED BY <2>3
<1>9. /\ \A s \in 0..BufferSize : s \in Range(ext) => Rows(s) \subseteq back
      /\ \A r \in back : \E s \in 0..BufferSize : s \in Range(ext) /\ r \in Rows(s)
  BY <1>1, <1>3
<1> HIDE DEF seqs, sets, back
<1>10. Lists(freeRows', (DOMAIN table \ Taken) \cup back)
  <2>1. back \subseteq Taken
    BY <1>9 DEF Taken
  <2>2. (DOMAIN table \ Taken) \cap back = {}
    BY <2>1
  <2> QED BY <1>2, <1>8, <2>2, ListsJoin DEF RowsHeld
<1>11. /\ DOMAIN owners' = 0..BufferSize
       /\ \A s \in 0..BufferSize : s \in Range(ext) => DOMAIN owners'[s] = {} /\ Rows(s)' = {}
       /\ \A s \in 0..BufferSize : s \notin Range(ext) => owners'[s] = owners[s] /\ Rows(s)' = Rows(s)
  <2>1. DOMAIN owners = 0..BufferSize
    BY DEF RowsHeld
  <2>2. DOMAIN owners' = 0..BufferSize
    BY <1>2, <2>1
  <2>3. ASSUME NEW s \in 0..BufferSize, s \in Range(ext)
        PROVE  DOMAIN owners'[s] = {} /\ Rows(s)' = {}
    <3>1. owners'[s] = <<>>
      BY <1>2, <2>1, <2>3
    <3>2. DOMAIN owners'[s] = {}
      BY <3>1
    <3> QED BY <3>2 DEF Rows
  <2>4. ASSUME NEW s \in 0..BufferSize, s \notin Range(ext)
        PROVE  owners'[s] = owners[s] /\ Rows(s)' = Rows(s)
    BY <1>2, <2>1, <2>4 DEF Rows
  <2> QED BY <2>2, <2>3, <2>4
<1>12. Taken' = Taken \ back
  <2>1. \A s, t \in 0..BufferSize : s # t => Rows(s) \cap Rows(t) = {}
    BY DEF RowsHeld, Rows
  <2>2. Taken' = UNION {Rows(s)' : s \in 0..BufferSize}
    BY DEF Taken
  <2>3. \A r : r \in Taken' <=> \E s \in 0..BufferSize : s \notin Range(ext) /\ r \in Rows(s)
    BY <1>11, <2>2
  <2>4. \A r : r \in Taken <=> \E s \in 0..BufferSize : r \in Rows(s)
    BY DEF Taken
  <2> QED BY <1>9, <2>1, <2>3, <2>4
<1>13. (DOMAIN table \ Taken) \cup back = DOMAIN table' \ Taken'
  <2>1. back \subseteq Taken /\ Taken \subseteq DOMAIN table
    BY <1>9 DEF Taken, RowsHeld
  <2> QED BY <1>12, <2>1
<1>14. \A s, t \in 0..BufferSize : \A c \in DOMAIN owners'[s] : \A d \in DOMAIN owners'[t] :
          owners'[s][c] = owners'[t][d] => s = t /\ c = d
  BY <1>11 DEF RowsHeld
<1>15. \A s \in 0..BufferSize : DOMAIN owners'[s] \subseteq Envs /\ Rows(s)' \subseteq DOMAIN table'
  BY <1>11 DEF RowsHeld
<1>16. \E m \in 0..MaxRows : DOMAIN table' = 0..(m - 1)
  BY DEF RowsHeld
<1> QED BY <1>10, <1>11, <1>13, <1>14, <1>15, <1>16 DEF RowsHeld

\* Growing makes room for what is lacking, as long as there is any.
LEMMA GrownFits ==
  ASSUME NEW n \in 0..MaxRows, DOMAIN table = 0..(n - 1), NEW lack \in Nat, n + lack <= MaxRows
  PROVE  /\ Cardinality(DOMAIN table) = n
         /\ Grown(lack) \in n..MaxRows /\ n + lack <= Grown(lack)
<1>1. n \in Nat /\ MaxRows \in Nat /\ NumEnvs \in Nat
  BY EnvSets
<1>2. Cardinality(DOMAIN table) = n
  <2>1. Cardinality(0..(n - 1)) = n
    BY <1>1, FS_Interval
  <2> QED BY <2>1
<1> DEFINE S == {NumEnvs, 2 * n, n + lack}
           M == Max(S)
<1>3. M \in S /\ \A m \in S : m <= M
  <2> DEFINE b == NumEnvs + 2 * n + lack
  <2>1. S \subseteq Nat /\ S # {} /\ b \in Nat /\ \A m \in S : m <= b
    BY <1>1
  <2> HIDE DEF S, b
  <2> QED BY <2>1, MaxIs
<1>4. M \in Nat /\ n + lack <= M
  BY <1>1, <1>3
<1> HIDE DEF M
<1> DEFINE T == {MaxRows, M}
<1>5. Min(T) \in T /\ \A m \in T : Min(T) <= m
  <2>1. T \subseteq Nat /\ T # {}
    BY <1>1, <1>4
  <2> HIDE DEF T
  <2> QED BY <2>1, MinIs
<1>6. Grown(lack) = Min(T)
  BY <1>2 DEF Grown, M
<1> QED BY <1>1, <1>2, <1>4, <1>5, <1>6

\* The rows of steps other than those given new ones are fewer than there
\* are other steps.
LEMMA OthersCount ==
  ASSUME RowsHeld, NEW envs \in SUBSET Envs, NEW s \in 0..BufferSize,
         NEW K, K = Taken \ {owners[s][c] : c \in envs \cap DOMAIN owners[s]}
  PROVE  /\ IsFiniteSet(K) /\ IsFiniteSet(envs)
         /\ Cardinality(K) \in Nat /\ Cardinality(envs) \in Nat
         /\ Cardinality(K) + Cardinality(envs) <= MaxRows
<1> DEFINE Cells == (0..BufferSize) \X Envs
           P == {o \in Cells : o[2] \in DOMAIN owners[o[1]] /\ ~(o[1] = s /\ o[2] \in envs)}
           Q == {s} \X envs
           f == [o \in P |-> owners[o[1]][o[2]]]
<1>1. IsFiniteSet(Cells) /\ Cardinality(Cells) = MaxRows
  <2>1. IsFiniteSet(Cells) /\ Cardinality(Cells) = Cap * NumEnvs
    BY EnvSets, FS_Product
  <2>2. Cap * NumEnvs = NumEnvs * Cap
    BY EnvSets, Constants
  <2> QED BY <2>1, <2>2 DEF MaxRows
<1>2. IsFiniteSet(envs) /\ Cardinality(envs) \in Nat
  BY EnvSets, FS_Subset, FS_CardinalityType
<1>3. IsFiniteSet(Q) /\ Cardinality(Q) = Cardinality(envs)
  <2>1. IsFiniteSet({s}) /\ Cardinality({s}) = 1
    BY FS_Singleton
  <2>2. IsFiniteSet(Q) /\ Cardinality(Q) = 1 * Cardinality(envs)
    BY <1>2, <2>1, FS_Product
  <2> QED BY <1>2, <2>2
<1>4. P \subseteq Cells /\ Q \subseteq Cells /\ P \cap Q = {}
  OBVIOUS
<1>5. f \in [P -> K]
  <2> SUFFICES ASSUME NEW o \in P PROVE owners[o[1]][o[2]] \in K
    OBVIOUS
  <2>1. o[1] \in 0..BufferSize /\ o[2] \in DOMAIN owners[o[1]] /\ ~(o[1] = s /\ o[2] \in envs)
    OBVIOUS
  <2>2. owners[o[1]][o[2]] \in Taken
    BY <2>1 DEF Taken, Rows
  <2>3. ASSUME NEW c \in envs \cap DOMAIN owners[s] PROVE owners[o[1]][o[2]] # owners[s][c]
    BY <2>1 DEF RowsHeld
  <2> QED BY <2>2, <2>3
<1>6. ASSUME NEW r \in K PROVE \E o \in P : f[o] = r
  <2>1. PICK t \in 0..BufferSize : r \in Rows(t)
    BY DEF Taken
  <2>2. PICK c \in DOMAIN owners[t] : r = owners[t][c]
    BY <2>1 DEF Rows
  <2>3. c \in Envs
    BY <2>2 DEF RowsHeld
  <2>4. ~(t = s /\ c \in envs)
    BY <2>2
  <2>5. <<t, c>> \in P
    BY <2>2, <2>3, <2>4
  <2> QED BY <2>2, <2>5
<1> HIDE DEF Cells, P, Q, f
<1>7. f \in Surjection(P, K)
  BY <1>5, <1>6 DEF Surjection
<1>8. IsFiniteSet(P) /\ Cardinality(P) \in Nat
  BY <1>1, <1>4, FS_Subset, FS_CardinalityType
<1>9. IsFiniteSet(K) /\ Cardinality(K) <= Cardinality(P) /\ Cardinality(K) \in Nat
  BY <1>7, <1>8, FS_Surjection, FS_CardinalityType
<1>10. Cardinality(P) + Cardinality(Q) <= Cardinality(Cells)
  <2>1. /\ IsFiniteSet(P \cup Q)
        /\ Cardinality(P \cup Q) = Cardinality(P) + Cardinality(Q) - Cardinality(P \cap Q)
    BY <1>3, <1>8, FS_Union
  <2>2. Cardinality(P \cap Q) = 0
    BY <1>4, FS_EmptySet
  <2>3. P \cup Q \subseteq Cells
    BY <1>4
  <2>4. Cardinality(P \cup Q) <= Cardinality(Cells)
    BY <1>1, <2>3, FS_Subset
  <2> QED BY <1>2, <1>3, <1>8, <2>1, <2>2, <2>4
<1> QED BY <1>1, <1>2, <1>3, <1>8, <1>9, <1>10, EnvSets

\* Whatever is asked for, there are rows enough, and none of them is taken.
LEMMA SupplyIs ==
  ASSUME RowsHeld, NEW envs \in SUBSET Envs, NEW s \in 0..BufferSize, WriteFinal(envs, s),
         NEW K, K = Taken \ {owners[s][c] : c \in envs \cap DOMAIN owners[s]}
  PROVE  /\ \E n \in 0..MaxRows : DOMAIN table' = 0..(n - 1)
         /\ DOMAIN table \subseteq DOMAIN table'
         /\ Lists(Supply(envs, s), DOMAIN table' \ K)
         /\ Cardinality(envs) \in Nat /\ Cardinality(envs) <= Len(Supply(envs, s))
<1> DEFINE avail == Available(envs, s)
           lack == Lacking(envs, s)
           e == envs \cap DOMAIN owners[s]
           given == {owners[s][c] : c \in e}
<1>1. PICK n \in 0..MaxRows : DOMAIN table = 0..(n - 1)
  BY DEF RowsHeld
<1>2. n \in Nat /\ MaxRows \in Nat
  BY EnvSets
<1>3. /\ IsFiniteSet(K) /\ IsFiniteSet(envs)
      /\ Cardinality(K) \in Nat /\ Cardinality(envs) \in Nat
      /\ Cardinality(K) + Cardinality(envs) <= MaxRows
  BY OthersCount
<1>4. K \subseteq DOMAIN table /\ given \subseteq Taken /\ Taken \subseteq DOMAIN table
  BY DEF Taken, RowsHeld, Rows
<1>5. Lists(avail, DOMAIN table \ K)
  <2>1. Lists([i \in 1..Len(InOrder(e)) |-> owners[s][InOrder(e)[i]]], given)
    <3> HIDE DEF e
    <3>1. e \subseteq DOMAIN owners[s]
      BY DEF e
    <3> QED BY <3>1, SlotRowsList
  <2>2. Lists(freeRows, DOMAIN table \ Taken)
    BY DEF RowsHeld
  <2>3. (DOMAIN table \ Taken) \cap given = {}
    BY <1>4
  <2>4. (DOMAIN table \ Taken) \cup given = DOMAIN table \ K
    BY <1>4
  <2>5. avail = freeRows \o [i \in 1..Len(InOrder(e)) |-> owners[s][InOrder(e)[i]]]
    BY DEF Available, Replaced
  <2> HIDE DEF avail, given, e
  <2>6. Lists(avail, (DOMAIN table \ Taken) \cup given)
    BY <2>1, <2>2, <2>3, <2>5, ListsJoin
  <2> QED BY <2>4, <2>6
<1>6. Len(avail) \in Nat /\ Len(avail) = n - Cardinality(K)
  <2>1. IsFiniteSet(DOMAIN table) /\ Cardinality(DOMAIN table) = n
    BY <1>1, <1>2, FS_Interval
  <2>2. Cardinality(DOMAIN table \ K) = n - Cardinality((DOMAIN table) \cap K)
    BY <2>1, FS_Difference
  <2>3. (DOMAIN table) \cap K = K
    BY <1>4
  <2>4. Cardinality(DOMAIN table \ K) = Len(avail) /\ Len(avail) \in Nat
    BY <1>5, ListCounts
  <2> QED BY <2>2, <2>3, <2>4
<1>7. lack = Cardinality(envs) - Len(avail)
  BY DEF Lacking
<1>8. CASE lack <= 0
  <2>1. table' = table /\ Supply(envs, s) = avail
    BY <1>8 DEF WriteFinal, Supply
  <2>2. Cardinality(envs) <= Len(avail)
    <3> HIDE DEF avail, lack
    <3> QED BY <1>3, <1>6, <1>7, <1>8
  <2> HIDE DEF avail
  <2> QED BY <1>1, <1>3, <1>5, <2>1, <2>2
<1>9. CASE lack > 0
  <2> DEFINE N == Grown(lack)
             more == Descending(N - 1, n)
  <2>0. lack \in Nat /\ n + lack <= MaxRows /\ ~(lack <= 0) /\ n \in 0..MaxRows
    <3> HIDE DEF avail, lack
    <3> QED BY <1>2, <1>3, <1>6, <1>7, <1>9
  <2>1. Cardinality(DOMAIN table) = n /\ N \in n..MaxRows /\ n + lack <= N
    <3> HIDE DEF lack
    <3> QED BY <1>1, <2>0, GrownFits
  <2>2. DOMAIN table' = 0..(N - 1)
    BY <2>0 DEF WriteFinal
  <2>3. Supply(envs, s) = avail \o more
    BY <2>0, <2>1 DEF Supply
  <2> HIDE DEF avail, lack, N
  <2>4. Lists(more, n..(N - 1)) /\ Len(more) = N - n
    <3>1. N \in Nat /\ n <= N
      BY <1>2, <2>1
    <3> QED BY <1>2, <3>1, DescendingLists
  <2> HIDE DEF more
  <2>5. (DOMAIN table \ K) \cap (n..(N - 1)) = {} /\ (DOMAIN table \ K) \cup (n..(N - 1)) = DOMAIN table' \ K
    <3>1. \A i : i \in 0..(N - 1) <=> i \in 0..(n - 1) \/ i \in n..(N - 1)
      BY <1>2, <2>1
    <3>2. \A i : ~(i \in 0..(n - 1) /\ i \in n..(N - 1))
      BY <1>2, <2>1
    <3> QED BY <1>1, <1>4, <2>2, <3>1, <3>2
  <2>6. Lists(avail \o more, DOMAIN table' \ K)
    <3>1. Lists(avail \o more, (DOMAIN table \ K) \cup (n..(N - 1)))
      BY <1>5, <2>4, <2>5, ListsJoin
    <3> QED BY <2>5, <3>1
  <2>7. Len(avail \o more) = Len(avail) + Len(more)
    <3>1. avail \in Seq(DOMAIN table \ K) /\ more \in Seq(n..(N - 1))
      BY <1>5, <2>4 DEF Lists
    <3> DEFINE A == DOMAIN table \ K
               B == n..(N - 1)
               C == A \cup B
    <3>2. A \subseteq C /\ B \subseteq C /\ avail \in Seq(A) /\ more \in Seq(B)
      BY <3>1
    <3> HIDE DEF A, B, C
    <3>3. avail \in Seq(C) /\ more \in Seq(C)
      BY <3>2, SeqMonotonic
    <3> QED BY <3>3, ConcatProperties
  <2>8. N \in 0..MaxRows /\ DOMAIN table \subseteq DOMAIN table'
    BY <1>1, <1>2, <2>1, <2>2
  <2>9. Cardinality(envs) <= Len(Supply(envs, s))
    <3> DEFINE a == Len(avail)
               size == Cardinality(envs)
               all == Len(Supply(envs, s))
    <3>1. size \in Nat /\ a \in Nat /\ size = lack + a /\ lack \in Nat
      BY <1>3, <1>6, <1>7, <2>0
    <3>2. all = a + (N - n)
      BY <2>3, <2>4, <2>7
    <3>3. n \in Nat /\ N \in Nat /\ n + lack <= N
      BY <1>2, <2>1
    <3> HIDE DEF a, size, all
    <3>4. size <= all
      BY ONLY <3>1, <3>2, <3>3
    <3> QED BY <3>4 DEF size, all
  <2> QED BY <1>3, <2>2, <2>3, <2>6, <2>8, <2>9
<1> QED
  <2>1. lack <= 0 \/ lack > 0
    <3> HIDE DEF avail, lack
    <3> QED BY <1>3, <1>6, <1>7
  <2> QED BY <1>8, <1>9, <2>1

\* Each env is given the row at its place from the end of the supply.
LEMMA GivenIs ==
  ASSUME NEW envs \in SUBSET Envs, NEW s
  PROVE  /\ DOMAIN Given(envs, s) = envs
         /\ Lists(InOrder(envs), envs) /\ Len(InOrder(envs)) = Cardinality(envs)
         /\ \A c \in envs : \E i \in 1..Cardinality(envs) :
              /\ InOrder(envs)[i] = c
              /\ Given(envs, s)[c] = Supply(envs, s)[Len(Supply(envs, s)) + 1 - i]
<1> DEFINE ids == InOrder(envs)
           sup == Supply(envs, s)
<1>1. envs \subseteq Nat /\ IsFiniteSet(envs)
  BY EnvSets, FS_Subset
<1>2. Lists(ids, envs) /\ Len(ids) = Cardinality(envs)
  BY <1>1, InOrderLists
<1>3. Len(ids) \in Nat
  BY <1>2, ListCounts
<1> DEFINE at(c) == LET I == {i \in 1..Len(ids) : ids[i] = c} IN IF I # {} THEN Min(I) ELSE 0
<1>4. Given(envs, s) = [c \in envs |-> sup[Len(sup) + 1 - at(c)]]
  BY DEF Given, SelectInSeq
<1>5. ASSUME NEW c \in envs PROVE at(c) \in 1..Len(ids) /\ ids[at(c)] = c
  <2> DEFINE I == {i \in 1..Len(ids) : ids[i] = c}
  <2>1. I # {} /\ I \subseteq Nat
    BY <1>2 DEF Lists
  <2>2. Min(I) \in I
    <3> HIDE DEF I
    <3> QED BY <2>1, MinIs
  <2> QED BY <2>1, <2>2
<1> HIDE DEF at, ids, sup
<1>6. \A c \in envs : \E i \in 1..Cardinality(envs) :
        ids[i] = c /\ Given(envs, s)[c] = sup[Len(sup) + 1 - i]
  BY <1>2, <1>4, <1>5
<1> QED BY <1>2, <1>4, <1>6 DEF ids, sup

\* The rows given out are free ones, and one for each env.
LEMMA WriteFinalRows ==
  ASSUME RowsHeld, NEW envs \in SUBSET Envs, NEW s \in 0..BufferSize, WriteFinal(envs, s)
  PROVE  /\ RowsHeld'
         /\ DOMAIN table \subseteq DOMAIN table'
         /\ DOMAIN Given(envs, s) = envs
         /\ \A c \in envs : Given(envs, s)[c] \in DOMAIN table'
<1> DEFINE old == {owners[s][c] : c \in envs \cap DOMAIN owners[s]}
           K == Taken \ old
           sup == Supply(envs, s)
           size == Cardinality(envs)
           m == Len(sup) - size
           ids == InOrder(envs)
           new == Given(envs, s)
           F == {sup[i] : i \in 1..m}
           G == {new[c] : c \in envs}
<1>1. /\ \E n \in 0..MaxRows : DOMAIN table' = 0..(n - 1)
      /\ DOMAIN table \subseteq DOMAIN table'
      /\ Lists(sup, DOMAIN table' \ K)
      /\ size \in Nat /\ size <= Len(sup)
  BY SupplyIs
<1>2. /\ DOMAIN new = envs /\ Lists(ids, envs) /\ Len(ids) = size
      /\ \A c \in envs : \E i \in 1..size : ids[i] = c /\ new[c] = sup[Len(sup) + 1 - i]
  BY GivenIs
<1>3. /\ freeRows' = SubSeq(sup, 1, m)
      /\ owners' = [owners EXCEPT ![s] =
                      [c \in DOMAIN owners[s] \cup envs |-> IF c \in envs THEN new[c] ELSE owners[s][c]]]
  BY DEF WriteFinal
<1>4. K \subseteq DOMAIN table
  BY DEF RowsHeld, Taken
<1> HIDE DEF sup, ids, new, size
<1>5. Len(sup) \in Nat /\ m \in 0..Len(sup)
  BY <1>1, ListCounts
<1> HIDE DEF m
<1>6. m + size = Len(sup)
  BY <1>1, <1>5 DEF m
<1>7. Lists(freeRows', F)
  BY <1>1, <1>3, <1>5, ListPrefix
<1>8. /\ \A i \in 1..Len(sup) : sup[i] \in DOMAIN table' \ K
      /\ \A r \in DOMAIN table' \ K : \E i \in 1..Len(sup) : sup[i] = r
      /\ \A i, j \in 1..Len(sup) : sup[i] = sup[j] => i = j
  <2>1. sup \in Seq(DOMAIN table' \ K)
    BY <1>1 DEF Lists
  <2> HIDE DEF K
  <2>2. \A i \in 1..Len(sup) : sup[i] \in DOMAIN table' \ K
    BY <2>1, ElementOfSeq
  <2> QED BY <1>1, <2>2 DEF Lists
<1>9. ASSUME NEW i \in 1..size
      PROVE  Len(sup) + 1 - i \in 1..Len(sup) /\ ~(Len(sup) + 1 - i \in 1..m)
  BY <1>1, <1>5, <1>6
<1>10. ASSUME NEW c \in envs, NEW d \in envs, new[c] = new[d]
       PROVE  c = d
  <2>1. PICK i \in 1..size : ids[i] = c /\ new[c] = sup[Len(sup) + 1 - i]
    BY <1>2
  <2>2. PICK j \in 1..size : ids[j] = d /\ new[d] = sup[Len(sup) + 1 - j]
    BY <1>2
  <2>3. Len(sup) + 1 - i = Len(sup) + 1 - j
    <3>1. PICK p \in 1..Len(sup) : p = Len(sup) + 1 - i
      BY <1>9
    <3>2. PICK q \in 1..Len(sup) : q = Len(sup) + 1 - j
      BY <1>9
    <3>3. sup[p] = sup[q]
      BY <1>10, <2>1, <2>2, <3>1, <3>2
    <3> QED BY <1>8, <3>1, <3>2, <3>3
  <2>4. i = j
    BY <1>1, <1>5, <2>3
  <2> QED BY <2>1, <2>2, <2>4
<1>11. G \subseteq DOMAIN table' \ K /\ G \cap F = {}
  <2> SUFFICES ASSUME NEW c \in envs
               PROVE  new[c] \in DOMAIN table' \ K /\ \A j \in 1..m : new[c] # sup[j]
    OBVIOUS
  <2>1. PICK i \in 1..size : new[c] = sup[Len(sup) + 1 - i]
    BY <1>2
  <2>2. \A j \in 1..m : j \in 1..Len(sup)
    BY <1>5
  <2> QED BY <1>8, <1>9, <2>1, <2>2
<1>12. ASSUME NEW r \in DOMAIN table' \ K PROVE r \in F \/ r \in G
  <2>1. PICK i \in 1..Len(sup) : sup[i] = r
    BY <1>8
  <2>2. CASE i \in 1..m
    BY <2>1, <2>2
  <2>3. CASE ~(i \in 1..m)
    <3>1. Len(sup) + 1 - i \in 1..size /\ Len(sup) + 1 - (Len(sup) + 1 - i) = i
      BY <1>1, <1>5, <1>6, <2>3
    <3>2. PICK j \in 1..size : j = Len(sup) + 1 - i
      BY <3>1
    <3>3. ids[j] \in envs
      <4>1. ids \in Seq(envs)
        BY <1>2 DEF Lists
      <4> QED BY <1>2, <4>1, ElementOfSeq
    <3>4. PICK k \in 1..size : ids[k] = ids[j] /\ new[ids[j]] = sup[Len(sup) + 1 - k]
      BY <1>2, <3>3
    <3>5. k = j
      BY <1>2, <3>4 DEF Lists
    <3>6. new[ids[j]] = sup[i]
      BY <3>1, <3>2, <3>4, <3>5
    <3> QED BY <2>1, <3>3, <3>6
  <2> QED BY <2>2, <2>3
<1>13. /\ DOMAIN owners' = 0..BufferSize
       /\ \A t \in 0..BufferSize : t # s => owners'[t] = owners[t] /\ Rows(t)' = Rows(t)
       /\ DOMAIN owners'[s] = DOMAIN owners[s] \cup envs
       /\ \A c \in DOMAIN owners'[s] : owners'[s][c] = IF c \in envs THEN new[c] ELSE owners[s][c]
  <2>1. DOMAIN owners = 0..BufferSize
    BY DEF RowsHeld
  <2> DEFINE row == [c \in DOMAIN owners[s] \cup envs |-> IF c \in envs THEN new[c] ELSE owners[s][c]]
  <2>2. /\ DOMAIN owners' = 0..BufferSize /\ owners'[s] = row
        /\ \A t \in 0..BufferSize : t # s => owners'[t] = owners[t]
    <3> HIDE DEF row
    <3>1. owners' = [owners EXCEPT ![s] = row]
      BY <1>3 DEF row
    <3> QED BY <2>1, <3>1
  <2>3. \A t \in 0..BufferSize : t # s => Rows(t)' = Rows(t)
    BY <2>2 DEF Rows
  <2> QED BY <2>2, <2>3
<1>14. \A c \in DOMAIN owners[s] : c \notin envs => owners[s][c] \in K
  <2> SUFFICES ASSUME NEW c \in DOMAIN owners[s], c \notin envs PROVE owners[s][c] \in K
    OBVIOUS
  <2>1. owners[s][c] \in Taken
    BY DEF Taken, Rows
  <2>2. owners[s][c] \notin old
    BY DEF RowsHeld
  <2> QED BY <2>1, <2>2
<1>15. \A t \in 0..BufferSize : t # s => Rows(t) \subseteq K
  <2> SUFFICES ASSUME NEW t \in 0..BufferSize, t # s, NEW c \in DOMAIN owners[t]
               PROVE  owners[t][c] \in K
    BY DEF Rows
  <2>1. owners[t][c] \in Taken
    BY DEF Taken, Rows
  <2>2. owners[t][c] \notin old
    BY DEF RowsHeld
  <2> QED BY <2>1, <2>2
<1>16. \A r \in K : \/ \E t \in 0..BufferSize : t # s /\ r \in Rows(t)
                    \/ \E c \in DOMAIN owners[s] : c \notin envs /\ r = owners[s][c]
  BY DEF Taken, Rows
<1>17. /\ \A c \in envs : owners'[s][c] \in G /\ owners'[s][c] = new[c]
       /\ \A c \in DOMAIN owners[s] : c \notin envs => owners'[s][c] \in K /\ owners'[s][c] = owners[s][c]
  BY <1>13, <1>14
<1> HIDE DEF K, G, F, old
<1>18. Taken' = K \cup G
  <2>1. Taken' = UNION {Rows(t)' : t \in 0..BufferSize}
    BY DEF Taken
  <2>2. Rows(s)' = {owners'[s][c] : c \in DOMAIN owners'[s]}
    BY DEF Rows
  <2>3. ASSUME NEW r \in Taken' PROVE r \in K \cup G
    <3>1. PICK t \in 0..BufferSize : r \in Rows(t)'
      BY <2>1
    <3>2. CASE t # s
      BY <1>13, <1>15, <3>1, <3>2
    <3>3. CASE t = s
      BY <1>13, <1>17, <2>2, <3>1, <3>3
    <3> QED BY <3>2, <3>3
  <2>4. ASSUME NEW r \in K PROVE r \in Taken'
    <3>1. CASE \E t \in 0..BufferSize : t # s /\ r \in Rows(t)
      BY <1>13, <2>1, <3>1
    <3>2. CASE \E c \in DOMAIN owners[s] : c \notin envs /\ r = owners[s][c]
      BY <1>13, <1>17, <2>1, <2>2, <3>2
    <3> QED BY <1>16, <3>1, <3>2
  <2>5. ASSUME NEW r \in G PROVE r \in Taken'
    <3>1. PICK c \in envs : r = new[c]
      BY DEF G
    <3>2. r \in Rows(s)'
      BY <1>13, <1>17, <2>2, <3>1
    <3> QED BY <2>1, <3>2
  <2> QED BY <2>3, <2>4, <2>5
<1>19. F = DOMAIN table' \ Taken'
  <2>1. F \subseteq DOMAIN table' \ K
    <3>1. \A i \in 1..m : i \in 1..Len(sup)
      BY <1>5
    <3> QED BY <1>8, <3>1 DEF F
  <2> QED BY <1>11, <1>12, <1>18, <2>1
<1>20. \A t, u \in 0..BufferSize : \A c \in DOMAIN owners'[t] : \A d \in DOMAIN owners'[u] :
          owners'[t][c] = owners'[u][d] => t = u /\ c = d
  <2> SUFFICES ASSUME NEW t \in 0..BufferSize, NEW u \in 0..BufferSize,
                      NEW c \in DOMAIN owners'[t], NEW d \in DOMAIN owners'[u],
                      owners'[t][c] = owners'[u][d]
               PROVE  t = u /\ c = d
    OBVIOUS
  <2>0. K \cap G = {}
    BY <1>11
  <2>1. CASE t = s /\ c \in envs
    <3>1. owners'[u][d] \in G
      BY <1>17, <2>1
    <3>2. u = s /\ d \in envs
      <4>1. CASE u # s
        <5>1. owners'[u][d] \in K
          BY <1>13, <1>15, <4>1 DEF Rows
        <5> QED BY <2>0, <3>1, <5>1
      <4>2. CASE u = s /\ d \notin envs
        BY <1>13, <1>17, <2>0, <3>1, <4>2
      <4> QED BY <4>1, <4>2
    <3> QED BY <1>10, <1>17, <2>1, <3>2
  <2>2. CASE u = s /\ d \in envs
    <3>1. owners'[t][c] \in G
      BY <1>17, <2>2
    <3>2. t = s /\ c \in envs
      <4>1. CASE t # s
        <5>1. owners'[t][c] \in K
          BY <1>13, <1>15, <4>1 DEF Rows
        <5> QED BY <2>0, <3>1, <5>1
      <4>2. CASE t = s /\ c \notin envs
        BY <1>13, <1>17, <2>0, <3>1, <4>2
      <4> QED BY <4>1, <4>2
    <3> QED BY <1>10, <1>17, <2>2, <3>2
  <2>3. CASE ~(t = s /\ c \in envs) /\ ~(u = s /\ d \in envs)
    <3>1. c \in DOMAIN owners[t] /\ owners'[t][c] = owners[t][c]
      BY <1>13, <2>3
    <3>2. d \in DOMAIN owners[u] /\ owners'[u][d] = owners[u][d]
      BY <1>13, <2>3
    <3>3. owners[t][c] = owners[u][d] => t = u /\ c = d
      BY <3>1, <3>2 DEF RowsHeld
    <3> QED BY <3>1, <3>2, <3>3
  <2> QED BY <2>1, <2>2, <2>3
<1>21. \A t \in 0..BufferSize : DOMAIN owners'[t] \subseteq Envs /\ Rows(t)' \subseteq DOMAIN table'
  <2> TAKE t \in 0..BufferSize
  <2>1. Rows(t)' \subseteq Taken'
    BY DEF Taken
  <2>2. Taken' \subseteq DOMAIN table'
    BY <1>1, <1>4, <1>11, <1>18
  <2>3. DOMAIN owners'[t] \subseteq Envs
    BY <1>13 DEF RowsHeld
  <2> QED BY <2>1, <2>2, <2>3
<1>22. RowsHeld'
  BY <1>1, <1>7, <1>13, <1>19, <1>20, <1>21 DEF RowsHeld
<1>23. \A c \in envs : new[c] \in DOMAIN table'
  BY <1>11 DEF G
<1> QED BY <1>1, <1>2, <1>22, <1>23 DEF new

-----------------------------------------------------------------------------
(* The sum of the collectors' steps.                                       *)

Total(w)  == FoldFunction(LAMBDA n, m : n + m, 0, w)
Chosen(s) == CHOOSE c \in s : TRUE

\* The sum over s, given the sums over smaller sets.
SumStep(sum, w, s) == IF s = {} THEN 0 ELSE w[Chosen(s)] + sum[s \ {Chosen(s)}]

Small(n) == {s \in SUBSET Collectors : Cardinality(s) <= n}

LEMMA Sizes ==
  /\ \A s \in SUBSET Collectors : /\ Cardinality(s) \in Nat /\ (Cardinality(s) = 0 <=> s = {})
                                  /\ Cardinality(s) <= NumCollectors
  /\ Cardinality(Collectors) = NumCollectors
<1>1. IsFiniteSet(Collectors) /\ Cardinality(Collectors) = NumCollectors
  BY EnvSets DEF NumCollectors, Collectors
<1>2. \A s \in SUBSET Collectors : IsFiniteSet(s) /\ Cardinality(s) <= NumCollectors
  BY <1>1, FS_Subset
<1> QED BY <1>1, <1>2, FS_CardinalityType, FS_EmptySet

LEMMA SmallerSet ==
  ASSUME NEW s \in SUBSET Collectors, s # {}
  PROVE  /\ Chosen(s) \in s /\ s \ {Chosen(s)} \in SUBSET Collectors
         /\ Cardinality(s) \in Nat /\ Cardinality(s \ {Chosen(s)}) = Cardinality(s) - 1
<1>1. Chosen(s) \in s
  BY DEF Chosen
<1>2. IsFiniteSet(Collectors)
  BY EnvSets DEF Collectors
<1>3. IsFiniteSet(s)
  BY <1>2, FS_Subset
<1> QED BY <1>1, <1>3, FS_RemoveElement, FS_CardinalityType

LEMMA TotalIsASum ==
  ASSUME NEW w, DOMAIN w = Collectors
  PROVE  \E sum : /\ \A s \in SUBSET Collectors : sum[s] = SumStep(sum, w, s)
                  /\ Total(w) = sum[Collectors]
<1> DEFINE Is(sum, n) == sum = [s \in Small(n) |-> SumStep(sum, w, s)]
           S == {n \in Nat : \E sum : Is(sum, n)}
<1>1. 0 \in S
  <2> DEFINE sum == [s \in Small(0) |-> 0]
  <2>1. \A s \in Small(0) : s = {}
    BY Sizes DEF Small
  <2>2. Is(sum, 0)
    BY <2>1 DEF SumStep
  <2> HIDE DEF Is
  <2> QED BY <2>2
<1>2. ASSUME NEW n \in Nat, n \in S
      PROVE  n + 1 \in S
  <2>1. PICK sum : Is(sum, n)
    BY <1>2
  <2> DEFINE more == [s \in Small(n + 1) |-> SumStep(sum, w, s)]
  <2>2. \A s \in Small(n + 1) : s # {} => s \ {Chosen(s)} \in Small(n)
    BY SmallerSet DEF Small
  <2>3. \A s \in Small(n) : s \in Small(n + 1)
    BY Sizes DEF Small
  <2>4. \A s \in Small(n) : more[s] = sum[s]
    BY <2>1, <2>3
  <2>5. \A s \in Small(n + 1) : SumStep(sum, w, s) = SumStep(more, w, s)
    <3> HIDE DEF more
    <3> QED BY <2>2, <2>4 DEF SumStep
  <2>6. Is(more, n + 1)
    BY <2>5
  <2>7. n + 1 \in Nat
    OBVIOUS
  <2> HIDE DEF Is
  <2> QED BY <2>6, <2>7
<1>3. NumCollectors \in S
  <2> HIDE DEF S
  <2>1. Nat \subseteq S
    BY <1>1, <1>2, SetInduction
  <2> QED BY <2>1, Constants
<1> DEFINE Body(f) == [s \in SUBSET Collectors |-> SumStep(f, w, s)]
           sum == CHOOSE f : f = Body(f)
<1>4. Small(NumCollectors) = SUBSET Collectors
  BY Sizes DEF Small
<1>5. \E f : f = Body(f)
  BY <1>3, <1>4
<1>6. sum = Body(sum)
  BY <1>5, Zenon
<1>7. Total(w) = sum[Collectors]
  BY DEF Total, FoldFunction, FoldFunctionOnSet, MapThenFoldSet, SumStep, Chosen
<1>8. \A s \in SUBSET Collectors : sum[s] = SumStep(sum, w, s)
  <2> HIDE DEF sum
  <2> QED BY <1>6
<1> HIDE DEF sum
<1> QED BY <1>7, <1>8

\* More steps make no smaller sum, and a sum is within what all may take.
LEMMA TotalGrows ==
  ASSUME NEW v \in [Collectors -> 0..MaxSteps], NEW w \in [Collectors -> 0..MaxSteps],
         \A c \in Collectors : v[c] <= w[c]
  PROVE  Total(v) \in Nat /\ Total(w) \in Nat /\ Total(v) <= Total(w)
           /\ Total(w) <= MaxSteps * NumCollectors
<1>0. MaxSteps \in Nat
  BY Constants
<1>1. PICK a : /\ \A s \in SUBSET Collectors : a[s] = SumStep(a, v, s)
               /\ Total(v) = a[Collectors]
  BY TotalIsASum
<1>2. PICK b : /\ \A s \in SUBSET Collectors : b[s] = SumStep(b, w, s)
               /\ Total(w) = b[Collectors]
  BY TotalIsASum
<1> DEFINE Good(s) == a[s] \in Nat /\ b[s] \in Nat /\ a[s] <= b[s] /\ b[s] <= MaxSteps * Cardinality(s)
           S == {n \in Nat : \A s \in SUBSET Collectors : Cardinality(s) = n => Good(s)}
<1>3. 0 \in S
  <2>1. a[{}] = 0 /\ b[{}] = 0
    BY <1>1, <1>2 DEF SumStep
  <2>2. Cardinality({}) = 0 /\ MaxSteps * 0 = 0
    BY <1>0, FS_EmptySet, SMT
  <2>3. Good({})
    BY <2>1, <2>2
  <2> HIDE DEF Good
  <2> QED BY <2>3, Sizes
<1>4. ASSUME NEW n \in Nat, n \in S
      PROVE  n + 1 \in S
  <2> SUFFICES ASSUME NEW s \in SUBSET Collectors, Cardinality(s) = n + 1
               PROVE  Good(s)
    OBVIOUS
  <2> DEFINE c == Chosen(s)
             r == s \ {c}
  <2>1. s # {}
    BY Sizes
  <2>2. c \in Collectors /\ r \in SUBSET Collectors /\ Cardinality(r) = n
    BY <2>1, SmallerSet
  <2>3. Good(r)
    BY <1>4, <2>2
  <2>4. a[s] = v[c] + a[r] /\ b[s] = w[c] + b[r]
    BY <1>1, <1>2, <2>1 DEF SumStep
  <2> HIDE DEF c, r
  <2>5. MaxSteps * (n + 1) = MaxSteps * n + MaxSteps /\ MaxSteps * n \in Nat
    BY <1>0, SMT
  <2> DEFINE k == MaxSteps * n
  <2>6. /\ a[r] \in Nat /\ b[r] \in Nat /\ a[r] <= b[r] /\ b[r] <= k /\ k \in Nat
        /\ v[c] \in Nat /\ w[c] \in Nat /\ v[c] <= w[c] /\ w[c] <= MaxSteps
    BY <1>0, <2>2, <2>3, <2>5
  <2> HIDE DEF k
  <2>7. a[s] \in Nat /\ b[s] \in Nat /\ a[s] <= b[s] /\ b[s] <= k + MaxSteps
    BY <1>0, <2>4, <2>6
  <2> QED BY <2>5, <2>7 DEF k
<1>5. Good(Collectors)
  <2>1. Nat \subseteq S
    <3> HIDE DEF S
    <3> QED BY <1>3, <1>4, SetInduction
  <2> QED BY <2>1, Sizes
<1> QED BY <1>1, <1>2, <1>5, Sizes

-----------------------------------------------------------------------------
(* The table over a drain.                                                 *)

\* The grid, and the final rows on their way to it, name rows of the table.
GridHeld ==
  /\ grid \in [0..BufferSize -> [Envs -> {-1} \cup DOMAIN table]]
  /\ \A o \in Range(stream) : o.op = "final" =>
       \A c \in DOMAIN o.given : o.given[c] \in DOMAIN table

TableHeld == RowsHeld /\ GridHeld

LEMMA PtrIsNat ==
  ASSUME IInv
  PROVE  ptr \in Nat
<1>1. lpc \notin Between => First \in Nat
  BY Constants DEF IInv, DrainTypeOK, Cursors
<1> QED BY <1>1 DEF IInv, DrainTypeOK, Replayed, Between

LEMMA TableInitial == Init => TableHeld
<1> SUFFICES ASSUME Init PROVE TableHeld
  OBVIOUS
<1>1. /\ freeRows = Descending(NumEnvs - 1, 0)
      /\ owners = [s \in 0..BufferSize |-> <<>>]
      /\ grid = [s \in 0..BufferSize |-> [c \in Envs |-> -1]]
      /\ DOMAIN table = 0..(NumEnvs - 1)
      /\ stream = <<>>
  BY DEF Init, ReplayInit
<1>2. \A s \in 0..BufferSize : DOMAIN owners[s] = {} /\ Rows(s) = {}
  BY <1>1 DEF Rows
<1>3. Taken = {}
  BY <1>2 DEF Taken
<1>4. Lists(freeRows, DOMAIN table \ Taken)
  <2>1. 0 \in Nat /\ NumEnvs \in Nat /\ 0 <= NumEnvs
    BY EnvSets
  <2>2. Lists(Descending(NumEnvs - 1, 0), 0..(NumEnvs - 1))
    BY <2>1, DescendingLists
  <2> QED BY <1>1, <1>3, <2>2
<1>5. \E n \in 0..MaxRows : DOMAIN table = 0..(n - 1)
  BY <1>1, EnvSets
<1>6. RowsHeld
  BY <1>1, <1>2, <1>4, <1>5 DEF RowsHeld
<1>7. GridHeld
  BY <1>1, EmptyQueue DEF GridHeld
<1> QED BY <1>6, <1>7 DEF TableHeld

LEMMA TableKept ==
  ASSUME TableHeld, UNCHANGED <<freeRows, owners, table, grid, stream>>
  PROVE  TableHeld'
BY SMTT(30) DEF TableHeld, RowsHeld, GridHeld, Lists, Taken, Rows

LEMMA StageHolds ==
  ASSUME IInv, TableHeld, StageRuns
  PROVE  TableHeld'
<1>1. /\ Extend(ready) /\ stream' = stream \o ExtendOps(ready)
      /\ table' = table /\ grid' = grid
  BY DEF StageRuns, replayDevice
<1>2. ready \in Nat /\ ptr \in Nat
  BY PtrIsNat, Constants DEF IInv, DrainTypeOK
<1>3. RowsHeld'
  BY <1>1, <1>2, ExtendRows DEF TableHeld
<1>4. GridHeld'
  <2>1. IsASequence(ExtendOps(ready)) /\ \A o \in Range(ExtendOps(ready)) : o.op # "final"
    BY <1>2, ExtendOpsAre
  <2>2. IsASequence(stream)
    BY DEF IInv, Replayed, InPlace
  <2>3. Range(stream') = Range(stream) \cup Range(ExtendOps(ready))
    BY <1>1, <2>1, <2>2, MoreQueued
  <2> QED BY <1>1, <2>1, <2>3 DEF TableHeld, GridHeld
<1> QED BY <1>3, <1>4 DEF TableHeld

LEMMA WriteFinalsHolds ==
  ASSUME IInv, TableHeld, WriteFinals
  PROVE  TableHeld'
<1>1. grid' = grid
  BY DEF WriteFinals
<1>2. CASE FinalEnvs = {}
  <2>1. UNCHANGED <<freeRows, owners, table, stream>>
    BY <1>2 DEF WriteFinals
  <2> QED BY <1>1, <2>1, TableKept
<1>3. CASE FinalEnvs # {}
  <2> DEFINE e == FinalEnvs
             s == FinalSlot
             o == [op |-> "final", slot |-> s, given |-> Given(e, s), final |-> FinalRow]
  <2>1. WriteFinal(e, s) /\ stream' = stream \o <<o>>
    BY <1>3 DEF WriteFinals, FinalOps
  <2>2. e \in SUBSET Envs
    BY DEF FinalEnvs, Collectors
  <2>3. s \in 0..BufferSize
    <3>1. ptr - ready + written \in Int
      BY PtrIsNat, Constants, SMTT(30) DEF IInv, DrainTypeOK
    <3> QED BY <3>1, SlotPlaces DEF FinalSlot
  <2>4. o.op = "final" /\ o.given = Given(e, s)
    OBVIOUS
  <2> HIDE DEF e, s, o
  <2>5. /\ RowsHeld' /\ DOMAIN table \subseteq DOMAIN table' /\ DOMAIN Given(e, s) = e
        /\ \A c \in e : Given(e, s)[c] \in DOMAIN table'
    <3>1. RowsHeld
      BY DEF TableHeld
    <3> QED BY <2>1, <2>2, <2>3, <3>1, WriteFinalRows
  <2>6. Range(stream') = Range(stream) \cup {o}
    <3>1. IsASequence(stream)
      BY DEF IInv, Replayed, InPlace
    <3>2. IsASequence(<<o>>) /\ Range(<<o>>) = {o}
      BY OneQueued
    <3> QED BY <2>1, <3>1, <3>2, MoreQueued
  <2>7. GridHeld'
    <3>1. \A p \in Range(stream') : p.op = "final" =>
            \A c \in DOMAIN p.given : p.given[c] \in DOMAIN table'
      BY <2>4, <2>5, <2>6 DEF TableHeld, GridHeld
    <3>2. grid' \in [0..BufferSize -> [Envs -> {-1} \cup DOMAIN table']]
      BY <1>1, <2>5 DEF TableHeld, GridHeld
    <3> QED BY <3>1, <3>2 DEF GridHeld
  <2> QED BY <2>5, <2>7 DEF TableHeld
<1> QED BY <1>2, <1>3

LEMMA CopyStreamHolds ==
  ASSUME IInv, TableHeld, CopyStream
  PROVE  TableHeld'
<1> DEFINE o == Head(stream)
           R == {-1} \cup DOMAIN table
<1>1. /\ stream # <<>> /\ stream' = Tail(stream) /\ Execute(o, buffers)
      /\ UNCHANGED <<freeRows, owners>>
  BY DEF CopyStream, stage, replayHost
<1>2. Range(stream) = {o} \cup Range(stream')
  <2>1. IsASequence(stream)
    BY DEF IInv, Replayed, InPlace
  <2> QED BY <1>1, <2>1, OneTaken
<1> HIDE DEF o
<1>3. DOMAIN table' = DOMAIN table
  BY <1>1 DEF Execute
<1>4. RowsHeld'
  BY <1>1, <1>3 DEF TableHeld, RowsHeld, Lists, Taken, Rows
<1>5. grid' \in [0..BufferSize -> [Envs -> R]]
  <2>1. grid \in [0..BufferSize -> [Envs -> R]]
    BY DEF TableHeld, GridHeld
  <2>2. CASE o.op = "clear"
    <3>1. grid' = [s \in DOMAIN grid |-> IF s \in o.slots THEN [c \in Envs |-> -1] ELSE grid[s]]
      BY <1>1, <2>2 DEF Execute
    <3> QED BY <2>1, <3>1
  <2>3. CASE o.op = "row"
    BY <1>1, <2>1, <2>3 DEF Execute
  <2>4. CASE o.op = "final"
    <3> DEFINE row == [c \in Envs |-> IF c \in DOMAIN o.given THEN o.given[c] ELSE grid[o.slot][c]]
    <3>1. grid' = [grid EXCEPT ![o.slot] = row]
      BY <1>1, <2>4 DEF Execute
    <3>2. \A c \in DOMAIN o.given : o.given[c] \in R
      BY <1>2, <2>4 DEF TableHeld, GridHeld
    <3>3. o.slot \in 0..BufferSize => row \in [Envs -> R]
      BY <2>1, <3>2
    <3> HIDE DEF row, R
    <3> QED BY <2>1, <3>1, <3>3
  <2>5. o.op = "clear" \/ o.op = "row" \/ o.op = "final"
    BY <1>1 DEF Execute
  <2> QED BY <2>2, <2>3, <2>4, <2>5
<1>6. GridHeld'
  BY <1>2, <1>3, <1>5 DEF TableHeld, GridHeld
<1> QED BY <1>4, <1>6 DEF TableHeld

LEMMA TableInductive == IInv /\ TableHeld /\ [Next]_vars => TableHeld'
<1> SUFFICES ASSUME IInv, TableHeld, [Next]_vars PROVE TableHeld'
  OBVIOUS
<1> USE DEF stage, copies, replayHost, replayDevice
<1>1. CASE \E c \in Collectors : Push(c)
  BY <1>1, TableKept DEF Push
<1>2. CASE ScanRing \/ PopReady \/ Acquire \/ MergeGeneration \/ ReadFinals \/ CommitRing
  BY <1>2, TableKept DEF ScanRing, PopReady, Acquire, MergeGeneration, ReadFinals, CommitRing
<1>3. CASE StageRuns
  BY <1>3, StageHolds
<1>4. CASE WriteFinals
  BY <1>4, WriteFinalsHolds
<1>5. CASE CopyStream
  BY <1>5, CopyStreamHolds
<1>6. CASE ReadProgress \/ MaybeTrain \/ Update \/ Publish
  BY <1>6, TableKept DEF ReadProgress, MaybeTrain, Update, Publish
<1>7. CASE ComputeStream \/ UNCHANGED vars
  BY <1>7, TableKept DEF ComputeStream, vars
<1> QED BY <1>1, <1>2, <1>3, <1>4, <1>5, <1>6, <1>7 DEF Next, Learner, Drain

LEMMA TableTyped ==
  ASSUME IInv, TableHeld
  PROVE  ReplayTypeOK /\ RowsPartitioned
<1> DEFINE Cells == (0..BufferSize) \X Envs
           owned == {o \in Cells : o[2] \in DOMAIN owners[o[1]]}
           f == [o \in owned |-> owners[o[1]][o[2]]]
           D == DOMAIN table
<1>1. PICK n \in 0..MaxRows : D = 0..(n - 1)
  BY DEF TableHeld, RowsHeld
<1>2. n \in Nat /\ n <= MaxRows
  BY EnvSets
<1>3. IsFiniteSet(D) /\ Cardinality(D) = n
  <2>1. IsFiniteSet(0..(n - 1)) /\ Cardinality(0..(n - 1)) = n
    BY <1>2, FS_Interval
  <2> QED BY <1>1, <2>1
<1>4. Taken \subseteq D /\ Lists(freeRows, D \ Taken)
  BY DEF TableHeld, RowsHeld, Taken
<1>5. f \in [owned -> Taken]
  BY DEF Taken, Rows
<1>6. \A r \in Taken : \E o \in owned : f[o] = r
  <2> SUFFICES ASSUME NEW s \in 0..BufferSize, NEW c \in DOMAIN owners[s]
               PROVE  \E o \in owned : f[o] = owners[s][c]
    BY DEF Taken, Rows
  <2>1. <<s, c>> \in owned
    BY DEF TableHeld, RowsHeld
  <2>2. f[<<s, c>>] = owners[s][c]
    BY <2>1
  <2> QED BY <2>1, <2>2
<1>7. \A o, p \in owned : f[o] = f[p] => o = p
  <2> SUFFICES ASSUME NEW o \in owned, NEW p \in owned, f[o] = f[p] PROVE o = p
    OBVIOUS
  <2>1. o[1] = p[1] /\ o[2] = p[2]
    BY DEF TableHeld, RowsHeld
  <2>2. o = <<o[1], o[2]>> /\ p = <<p[1], p[2]>>
    OBVIOUS
  <2> QED BY <2>1, <2>2
<1>8. {owners[o[1]][o[2]] : o \in owned} = Taken
  BY <1>5, <1>6
<1>9. Range(freeRows) = D \ Taken
  <2>1. freeRows \in Seq(D \ Taken)
    BY <1>4 DEF Lists
  <2>2. Range(freeRows) = {freeRows[i] : i \in 1..Len(freeRows)}
    <3> DEFINE S == D \ Taken
    <3> HIDE DEF S
    <3>1. freeRows \in Seq(S)
      BY <2>1 DEF S
    <3> QED BY <3>1, RangeEquality
  <2>3. \A i \in 1..Len(freeRows) : freeRows[i] \in D \ Taken
    <3> DEFINE S == D \ Taken
    <3> HIDE DEF S
    <3>1. freeRows \in Seq(S)
      BY <2>1 DEF S
    <3>2. \A i \in 1..Len(freeRows) : freeRows[i] \in S
      BY <3>1, ElementOfSeq
    <3> QED BY <3>2 DEF S
  <2> QED BY <1>4, <2>2, <2>3, SMTT(30) DEF Lists
<1> HIDE DEF owned, f
<1>10. Cardinality(owned) = Cardinality(Taken) /\ IsFiniteSet(Taken)
  <2>1. f \in Bijection(owned, Taken)
    BY <1>5, <1>6, <1>7 DEF Bijection, Injection, Surjection, IsInjective
  <2>2. ExistsBijection(owned, Taken)
    BY <2>1 DEF ExistsBijection
  <2>3. IsFiniteSet(owned)
    <3>1. IsFiniteSet(Cells)
      BY EnvSets, FS_Product
    <3>2. owned \subseteq Cells
      BY DEF owned
    <3> HIDE DEF Cells
    <3> QED BY <3>1, <3>2, FS_Subset
  <2> QED BY <2>2, <2>3, FS_Bijection
<1>11. Len(freeRows) + Cardinality(owned) = n
  <2>1. Cardinality(D \ Taken) = n - Cardinality(D \cap Taken)
    BY <1>3, FS_Difference
  <2>2. D \cap Taken = Taken
    BY <1>4
  <2>3. Cardinality(D \ Taken) = Len(freeRows) /\ Len(freeRows) \in Nat
    BY <1>4, ListCounts
  <2>4. Cardinality(Taken) \in Nat
    BY <1>10, FS_CardinalityType
  <2>5. Len(freeRows) = n - Cardinality(Taken)
    BY <2>1, <2>2, <2>3
  <2>6. Len(freeRows) + Cardinality(Taken) = n
    BY ONLY <1>2, <2>4, <2>5
  <2> QED BY <1>10, <2>6
<1>12. RowsPartitioned
  <2>1. Len(freeRows) + Cardinality(owned) = Cardinality(D)
    BY <1>3, <1>11
  <2>2. Range(freeRows) \cup {owners[o[1]][o[2]] : o \in owned} = D
    BY <1>4, <1>8, <1>9
  <2> QED BY <2>1, <2>2 DEF RowsPartitioned, owned
<1>13. ReplayTypeOK
  <2>1. ptr \in Nat
    BY PtrIsNat
  <2>2. D = 0..(Cardinality(D) - 1) /\ Cardinality(D) <= MaxRows
    BY <1>1, <1>2, <1>3
  <2>3. Range(freeRows) \subseteq D
    BY <1>9
  <2>4. \A s \in 0..BufferSize : \A c \in DOMAIN owners[s] : owners[s][c] \in D
    BY DEF TableHeld, RowsHeld, Rows
  <2> QED BY <2>1, <2>2, <2>3, <2>4 DEF ReplayTypeOK, TableHeld, GridHeld
<1> QED BY <1>12, <1>13

-----------------------------------------------------------------------------
(* The learner's updates.                                                  *)

\* The progress the loop read is behind the collectors', and what is left to
\* do of the updates behind that.
StepsHeld ==
  /\ gstep \in Nat /\ gstep <= CollectorSteps \div NumCollectors
  /\ trained \in 0..gstep /\ toTrain \in 0..gstep /\ (lpc = "update" => toTrain > 0)
  /\ updates \in 0..(PublishInterval - 1)

LEMMA DivGrows ==
  ASSUME NEW a \in Nat, NEW b \in Nat, NEW d \in Nat \ {0}, a <= b
  PROVE  a \div d \in Nat /\ b \div d \in Nat /\ a \div d <= b \div d
<1> DEFINE p == a \div d
           q == b \div d
<1>1. p \in Int /\ q \in Int /\ d * p <= a /\ a < d * p + d /\ d * q <= b /\ b < d * q + d
  BY SMT
<1> HIDE DEF p, q
<1>2. p >= 0
  <2> SUFFICES ASSUME p <= -1 PROVE FALSE
    BY <1>1
  <2>1. d * p + d <= 0
    BY <1>1, SMT
  <2> QED BY <1>1, <2>1, SMT
<1>3. p <= q
  <2> SUFFICES ASSUME q + 1 <= p PROVE FALSE
    BY <1>1
  <2>1. d * q + d <= d * p
    BY <1>1, SMT
  <2> QED BY <1>1, <2>1, SMT
<1> QED BY <1>1, <1>2, <1>3 DEF p, q

\* The learner's sum is one over all collectors, in either state of a step.
LEMMA StepsSum == CollectorSteps = Total(write) /\ CollectorSteps' = Total(write')
BY DEF CollectorSteps, Total, FoldFunction, FoldFunctionOnSet, MapThenFoldSet

LEMMA StepsAre ==
  ASSUME DrainTypeOK
  PROVE  /\ CollectorSteps \in Nat /\ CollectorSteps \div NumCollectors \in Nat
         /\ CollectorSteps \div NumCollectors <= MaxSteps
<1> DEFINE T == Total(write)
           M == MaxSteps * NumCollectors
<1>0. CollectorSteps = T
  BY StepsSum
<1>1. write \in [Collectors -> 0..MaxSteps] /\ \A c \in Collectors : write[c] <= write[c]
  BY Constants DEF DrainTypeOK
<1>2. T \in Nat /\ T <= M
  BY <1>1, TotalGrows
<1>3. M \in Nat /\ M \div NumCollectors = MaxSteps
  BY Constants, SMT
<1> HIDE DEF T, M
<1>4. T \div NumCollectors \in Nat /\ T \div NumCollectors <= M \div NumCollectors
  BY <1>2, <1>3, Constants, DivGrows
<1> QED BY <1>0, <1>2, <1>3, <1>4

LEMMA StepsInitial == Init => StepsHeld
<1> SUFFICES ASSUME Init PROVE StepsHeld
  OBVIOUS
<1>1. /\ gstep = 0 /\ trained = 0 /\ toTrain = 0 /\ updates = 0 /\ lpc = "loop"
  BY DEF Init
<1>2. CollectorSteps \div NumCollectors \in Nat
  BY Initial, StepsAre DEF IInv
<1>3. PublishInterval \in Nat \ {0}
  BY DrainAssumption
<1> QED BY <1>1, <1>2, <1>3 DEF StepsHeld

LEMMA StepsKept ==
  ASSUME StepsHeld, UNCHANGED <<write, gstep, trained, toTrain, updates>>,
         lpc' = "update" => toTrain > 0
  PROVE  StepsHeld'
BY StepsSum DEF StepsHeld, NumCollectors

LEMMA StepsInductive == IInv /\ StepsHeld /\ [Next]_vars => StepsHeld'
<1> SUFFICES ASSUME IInv, StepsHeld, [Next]_vars PROVE StepsHeld'
  OBVIOUS
<1> USE DEF rings, train
<1>0. IInv'
  BY Inductive
<1>1. ASSUME NEW c \in Collectors, Push(c)
      PROVE  StepsHeld'
  <2>1. UNCHANGED <<gstep, trained, toTrain, updates, lpc>> /\ write' = [write EXCEPT ![c] = @ + 1]
    BY <1>1 DEF Push
  <2>2. write \in [Collectors -> 0..MaxSteps] /\ write' \in [Collectors -> 0..MaxSteps]
    BY <1>0 DEF IInv, DrainTypeOK
  <2>3. \A d \in Collectors : write[d] <= write'[d]
    BY <2>1, <2>2
  <2> DEFINE T == Total(write)
             U == Total(write')
  <2>4. T \in Nat /\ U \in Nat /\ T <= U
    BY <2>2, <2>3, TotalGrows
  <2>5. CollectorSteps = T /\ CollectorSteps' = U
    BY StepsSum
  <2> HIDE DEF T, U
  <2>6. T \div NumCollectors \in Nat /\ U \div NumCollectors \in Nat
          /\ T \div NumCollectors <= U \div NumCollectors
    BY <2>4, Constants, DivGrows
  <2>7. gstep \in Nat /\ gstep <= T \div NumCollectors
    BY <2>5 DEF StepsHeld
  <2>8. gstep' <= CollectorSteps' \div NumCollectors'
    BY <2>1, <2>5, <2>6, <2>7 DEF NumCollectors
  <2> QED BY <2>1, <2>8 DEF StepsHeld
<1>2. CASE ReadProgress
  <2>1. /\ lpc' = "scan" /\ write' = write /\ UNCHANGED <<trained, toTrain, updates>>
        /\ gstep' = CollectorSteps \div NumCollectors
    BY <1>2 DEF ReadProgress
  <2>2. CollectorSteps \div NumCollectors \in Nat
    BY StepsAre DEF IInv
  <2>3. CollectorSteps' = CollectorSteps /\ NumCollectors' = NumCollectors
    BY <2>1, StepsSum DEF NumCollectors
  <2>4. gstep' \in Nat /\ gstep <= gstep' /\ gstep' <= CollectorSteps' \div NumCollectors'
    BY <2>1, <2>2, <2>3 DEF StepsHeld
  <2> QED BY <2>1, <2>4 DEF StepsHeld
<1>3. CASE Drain
  <2>1. UNCHANGED <<write, gstep, trained, toTrain, updates>> /\ lpc' # "update"
    <3>1. CASE ScanRing \/ PopReady \/ Acquire \/ MergeGeneration
      BY <3>1 DEF ScanRing, PopReady, Acquire, MergeGeneration
    <3>2. CASE ReadFinals \/ StageRuns \/ WriteFinals
      BY <3>2 DEF ReadFinals, StageRuns, WriteFinals
    <3>3. CASE CommitRing
      BY <3>3 DEF CommitRing
    <3> QED BY <1>3, <3>1, <3>2, <3>3 DEF Drain
  <2> QED BY <2>1, StepsKept
<1>4. CASE MaybeTrain
  <2>1. /\ UNCHANGED <<write, gstep, updates>> /\ toTrain' = Due
        /\ trained' = IF Due > 0 THEN gstep ELSE trained
        /\ lpc' = IF Due > 0 THEN "update" ELSE "loop"
    BY <1>4 DEF MaybeTrain
  <2>2. gstep \in Nat /\ trained \in 0..gstep
    BY DEF StepsHeld
  <2>3. Due \in 0..gstep
    BY <2>2 DEF Due
  <2>4. /\ trained' \in 0..gstep /\ toTrain' \in 0..gstep /\ (lpc' = "update" => toTrain' > 0)
    BY <2>1, <2>2, <2>3
  <2> QED BY <2>1, <2>4, StepsSum DEF StepsHeld, NumCollectors
<1>5. CASE Update
  <2>1. /\ UNCHANGED <<write, gstep, trained>> /\ lpc = "update" /\ lpc' = "publish"
        /\ toTrain' = toTrain - 1 /\ updates' = (updates + NumUpdates) % PublishInterval
    BY <1>5 DEF Update
  <2>2. updates' \in 0..(PublishInterval - 1)
    <3>1. updates + NumUpdates \in Int /\ PublishInterval \in Nat \ {0}
      BY DrainAssumption DEF StepsHeld
    <3> DEFINE u == updates + NumUpdates
    <3> HIDE DEF u
    <3>2. u % PublishInterval \in 0..(PublishInterval - 1)
      BY <3>1, SMT DEF u
    <3> QED BY <2>1, <3>2 DEF u
  <2>3. toTrain' \in 0..gstep
    BY <2>1 DEF StepsHeld
  <2> QED BY <2>1, <2>2, <2>3, StepsSum DEF StepsHeld, NumCollectors
<1>6. CASE Publish
  <2>1. /\ UNCHANGED <<write, gstep, trained, toTrain, updates>>
        /\ lpc' = IF toTrain > 0 THEN "update" ELSE "loop"
    BY <1>6 DEF Publish
  <2> QED BY <2>1, StepsKept
<1>7. CASE CopyStream \/ ComputeStream \/ UNCHANGED vars
  <2>1. UNCHANGED <<write, gstep, trained, toTrain, updates, lpc>>
    BY <1>7 DEF CopyStream, ComputeStream, vars
  <2> QED BY <2>1, StepsKept DEF StepsHeld
<1> QED BY <1>1, <1>2, <1>3, <1>4, <1>5, <1>6, <1>7 DEF Next, Learner

LEMMA StepsTyped ==
  ASSUME IInv, StepsHeld
  PROVE  TrainTypeOK
<1>1. CollectorSteps \div NumCollectors \in Nat /\ CollectorSteps \div NumCollectors <= MaxSteps
  BY StepsAre DEF IInv
<1>2. gstep \in 0..MaxSteps
  BY <1>1, Constants DEF StepsHeld
<1> QED BY <1>2 DEF StepsHeld, TrainTypeOK

\* The types of the drain, the updates and the replay buffer, and the bounds
\* of the fixed buffers: no drain has more generations than DrainStaging's
\* pinned rows, and each row of the final-observation table has one holder,
\* _final_free or a stored step, through every wrap of the ring and every
\* growth of the table (SimpleReplayBuffer.write_final, _grow_final_storage).
THEOREM TypeCorrect == Spec => []TypeOK
<1>1. Init => TableHeld /\ StepsHeld
  BY TableInitial, StepsInitial
<1>2. IInv /\ TableHeld /\ StepsHeld /\ [Next]_vars => TableHeld' /\ StepsHeld'
  BY TableInductive, StepsInductive
<1>3. IInv /\ TableHeld /\ StepsHeld => TypeOK
  BY TableTyped, StepsTyped DEF TypeOK, IInv
<1> QED BY <1>1, <1>2, <1>3, InvariantHolds, PTL DEF Spec

-----------------------------------------------------------------------------
(* What the rows of the table hold.                                        *)

\* The envs cut off at a step.
Cut(t) == {c \in Collectors : <<t, c>> \in Truncated}

\* The newest steps whose terminal observations write_final was given.
Attached == {t \in Newest : lpc = "attach" => t < ptr - ready + written}

\* A drain's copies start with the only clear, and what is written for a step
\* goes to the rows that its slot owns.
OpsHeld ==
  /\ \A i \in 2..Len(stream) : stream[i].op # "clear"
  /\ \A o \in Range(stream) : o.op = "final" =>
       \E t \in Attached :
         o.slot = SlotAt(t) /\ o.given = owners[SlotAt(t)] /\ o.final = Uniform(t)

OnItsWay(t) == \E o \in Range(stream) : o.op = "final" /\ o.slot = SlotAt(t)

Stored(t) ==
  /\ \A c \in Cut(t) : /\ grid[SlotAt(t)][c] = owners[SlotAt(t)][c]
                       /\ table[owners[SlotAt(t)][c]] = t
  /\ \A o \in Range(stream) : o.op = "clear" => SlotAt(t) \notin o.slots

\* Each terminal observation is in its row, or on its way there.
FinalsHeld ==
  /\ OpsHeld
  /\ \A t \in Attached : /\ DOMAIN owners[SlotAt(t)] = Cut(t)
                         /\ Cut(t) = {} \/ OnItsWay(t) \/ Stored(t)
  /\ \A t \in Newest \ Attached : DOMAIN owners[SlotAt(t)] = {}

LEMMA NewestApart ==
  ASSUME NEW p \in Int, NEW t \in Int, NEW u \in Int,
         p - Cap <= t, t < p, p - Cap <= u, u < p, SlotAt(t) = SlotAt(u)
  PROVE  t = u
<1> SUFFICES ASSUME t # u PROVE FALSE
  OBVIOUS
<1>1. Cap \in Nat \ {0} /\ t - u < Cap /\ u - t < Cap
  BY Constants
<1>2. t % Cap # u % Cap
  BY <1>1, ModDistinct
<1> QED BY <1>2 DEF SlotAt

LEMMA OtherSlots ==
  ASSUME IInv, NEW t \in Newest, NEW u \in Newest, t # u
  PROVE  SlotAt(t) # SlotAt(u) /\ SlotAt(t) \in 0..BufferSize /\ SlotAt(u) \in 0..BufferSize
<1>1. ptr \in Int
  BY PtrIsNat
<1>2. /\ t \in Int /\ ptr - Cap <= t /\ t < ptr
      /\ u \in Int /\ ptr - Cap <= u /\ u < ptr
  BY DEF Newest
<1> QED BY <1>1, <1>2, NewestApart, SlotPlaces

LEMMA ExtendOpsOrder ==
  ASSUME NEW k \in Nat, ptr \in Nat
  PROVE  /\ \A i \in 2..Len(ExtendOps(k)) : ExtendOps(k)[i].op # "clear"
         /\ \A o \in Range(ExtendOps(k)) : o.op = "clear" => o.slots = Range(Extended(k))
<1> DEFINE n == Len(Extended(k))
           clear == [op |-> "clear", slots |-> Range(Extended(k))]
           row(i) == [op |-> "row", slot |-> Extended(k)[i], from |-> Skip(k) + i]
           copied == [i \in 1..n |-> row(i)]
           all == {clear} \cup {row(i) : i \in 1..n}
<1>1. n \in Nat
  BY ExtendedSlots
<1>2. ExtendOps(k) = <<clear>> \o copied
  BY DEF ExtendOps
<1>3. clear.op = "clear" /\ clear.slots = Range(Extended(k)) /\ \A i \in 1..n : row(i).op = "row"
  OBVIOUS
<1> HIDE DEF n, clear, row
<1>4. copied \in Seq(all) /\ Len(copied) = n /\ \A i \in 1..n : copied[i] = row(i)
  <2>1. \A i \in 1..n : row(i) \in all
    OBVIOUS
  <2> HIDE DEF all
  <2> QED BY <1>1, <2>1, IsASeq
<1>5. <<clear>> \in Seq(all) /\ Len(<<clear>>) = 1 /\ <<clear>>[1] = clear
  OBVIOUS
<1>6. /\ ExtendOps(k) \in Seq(all) /\ Len(ExtendOps(k)) = 1 + n
      /\ \A i \in 1..(1 + n) : ExtendOps(k)[i] = IF i <= 1 THEN <<clear>>[i] ELSE copied[i - 1]
  <2> HIDE DEF all, copied
  <2> QED BY <1>2, <1>4, <1>5, ConcatProperties
<1>7. ASSUME NEW i \in 2..(1 + n) PROVE ExtendOps(k)[i].op # "clear"
  <2>1. i \in 1..(1 + n) /\ ~(i <= 1) /\ i - 1 \in 1..n
    BY <1>1
  <2>2. ExtendOps(k)[i] = row(i - 1)
    BY <1>4, <1>6, <2>1
  <2> QED BY <1>3, <2>1, <2>2
<1>8. \A o \in Range(ExtendOps(k)) : o \in all
  <2> HIDE DEF all
  <2>1. Range(ExtendOps(k)) = {ExtendOps(k)[i] : i \in 1..Len(ExtendOps(k))}
    BY <1>6, RangeEquality
  <2>2. \A i \in 1..Len(ExtendOps(k)) : ExtendOps(k)[i] \in all
    BY <1>6, ElementOfSeq
  <2> QED BY <2>1, <2>2
<1>9. \A o \in Range(ExtendOps(k)) : o.op = "clear" => o.slots = Range(Extended(k))
  BY <1>3, <1>8
<1> QED BY <1>6, <1>7, <1>9

\* The newest steps after an extension: those it brought are in slots it
\* overwrote, the others are not.
LEMMA ExtendedIs ==
  ASSUME NEW k \in Nat, ptr \in Nat, NEW t \in Nat, ptr + k - Cap <= t, t < ptr + k
  PROVE  /\ t >= ptr => SlotAt(t) \in Range(Extended(k))
         /\ t < ptr => SlotAt(t) \notin Range(Extended(k))
<1> DEFINE s == Skip(k)
           n == k - s
<1>1. s = (IF k > Cap THEN k - Cap ELSE 0) /\ Cap \in Nat \ {0}
  BY SkipIs, Constants
<1> HIDE DEF s
<1>2. s \in Nat /\ n \in Nat /\ ptr + k - Cap <= ptr + s
  BY <1>1
<1>3. Extended(k) = [i \in 1..n |-> SlotAt(ptr + s + i - 1)]
  BY DEF Extended, s
<1>4. Range(Extended(k)) = {SlotAt(ptr + s + i - 1) : i \in 1..n}
  BY <1>3 DEF Range
<1>5. ASSUME t >= ptr PROVE SlotAt(t) \in Range(Extended(k))
  <2>1. t - ptr - s + 1 \in 1..n /\ ptr + s + (t - ptr - s + 1) - 1 = t
    BY <1>1, <1>2, <1>5
  <2> QED BY <1>4, <2>1
<1>6. ASSUME t < ptr PROVE SlotAt(t) \notin Range(Extended(k))
  <2> SUFFICES ASSUME NEW i \in 1..n PROVE SlotAt(ptr + s + i - 1) # SlotAt(t)
    BY <1>4
  <2> DEFINE u == ptr + s + i - 1
             p == ptr + k
  <2>1. p \in Int /\ u \in Int /\ t \in Int /\ u # t
          /\ p - Cap <= u /\ u < p /\ p - Cap <= t /\ t < p
    BY <1>1, <1>2, <1>6
  <2> HIDE DEF u, p
  <2>2. SlotAt(u) # SlotAt(t)
    BY <2>1, NewestApart
  <2> QED BY <2>2 DEF u
<1> QED BY <1>5, <1>6

LEMMA FinalsInitial == Init => FinalsHeld
<1> SUFFICES ASSUME Init PROVE FinalsHeld
  OBVIOUS
<1>1. ptr = 0 /\ stream = <<>>
  BY DEF Init, ReplayInit
<1>2. Newest = {} /\ Attached = {}
  BY <1>1 DEF Newest, Attached
<1>3. OpsHeld
  <2>1. Len(stream) = 0 /\ Range(stream) = {}
    BY <1>1, EmptyQueue
  <2> QED BY <2>1 DEF OpsHeld
<1> QED BY <1>2, <1>3 DEF FinalsHeld

LEMMA FinalsKept ==
  ASSUME FinalsHeld, UNCHANGED <<ptr, owners, grid, table, stream>>, Attached' = Attached
  PROVE  FinalsHeld'
<1>1. Newest' = Newest
  BY DEF Newest
<1> QED BY <1>1 DEF FinalsHeld, OpsHeld, OnItsWay, Stored, Uniform

LEMMA StageFinals ==
  ASSUME IInv, TableHeld, FinalsHeld, StageRuns
  PROVE  FinalsHeld'
<1> DEFINE ext == Range(Extended(ready))
<1>1. /\ lpc = "stage" /\ lpc' = "attach" /\ ready' = ready /\ written' = written
      /\ grid' = grid /\ table' = table /\ ptr' = ptr + ready
      /\ owners' = [s \in DOMAIN owners |-> IF s \in ext THEN <<>> ELSE owners[s]]
      /\ stream' = stream \o ExtendOps(ready)
  BY DEF StageRuns, Extend, drain, replayDevice
<1>2. stream = <<>> /\ written = 0 /\ ptr \in Nat /\ ready \in Nat
  BY <1>1, PtrIsNat, Constants DEF IInv, Replayed, Cursors, DrainTypeOK
<1>3. stream' = ExtendOps(ready)
  <2>1. IsASequence(ExtendOps(ready))
    BY <1>2, ExtendOpsAre
  <2>2. <<>> \o ExtendOps(ready) = ExtendOps(ready)
    BY <2>1, ConcatEmptySeq DEF IsASequence
  <2> QED BY <1>1, <1>2, <2>2
<1>4. DOMAIN owners = 0..BufferSize
  BY DEF TableHeld, RowsHeld
<1>5. ASSUME NEW t \in Newest'
      PROVE  /\ SlotAt(t) \in 0..BufferSize /\ t \in Nat
             /\ t >= ptr => owners'[SlotAt(t)] = <<>>
             /\ t < ptr => /\ t \in Newest /\ SlotAt(t) \notin ext
                           /\ owners'[SlotAt(t)] = owners[SlotAt(t)]
  <2>1. t \in Nat /\ ptr + ready - Cap <= t /\ t < ptr + ready
    BY <1>1, <1>2, Constants DEF Newest
  <2>2. (t >= ptr => SlotAt(t) \in ext) /\ (t < ptr => SlotAt(t) \notin ext)
    BY <1>2, <2>1, ExtendedIs
  <2>3. SlotAt(t) \in 0..BufferSize
    <3>1. t \in Int
      BY <2>1
    <3> QED BY <3>1, SlotPlaces
  <2>4. t < ptr => t \in Newest
    BY <1>2, <2>1, Constants DEF Newest
  <2> HIDE DEF ext
  <2>5. owners'[SlotAt(t)] = IF SlotAt(t) \in ext THEN <<>> ELSE owners[SlotAt(t)]
    BY <1>1, <1>4, <2>3
  <2> QED BY <2>1, <2>2, <2>3, <2>4, <2>5
<1>6. Attached = Newest
  BY <1>1 DEF Attached
<1>7. \A t : t \in Attached' <=> t \in Newest' /\ t < ptr
  BY <1>1, <1>2 DEF Attached
<1>8. OpsHeld'
  <2>1. /\ \A i \in 2..Len(stream') : stream'[i].op # "clear"
        /\ \A o \in Range(stream') : o.op # "final"
    BY <1>2, <1>3, ExtendOpsOrder, ExtendOpsAre
  <2> QED BY <2>1 DEF OpsHeld
<1>9. \A o \in Range(stream') : o.op = "clear" => o.slots = ext
  BY <1>2, <1>3, ExtendOpsOrder
<1>10. ASSUME NEW t \in Attached'
       PROVE  /\ DOMAIN owners'[SlotAt(t)] = Cut(t)
              /\ Cut(t) = {} \/ Stored(t)'
  <2>1. t \in Attached /\ SlotAt(t) \notin ext /\ owners'[SlotAt(t)] = owners[SlotAt(t)]
    BY <1>5, <1>6, <1>7
  <2>2. Range(stream) = {}
    BY <1>2, EmptyQueue
  <2>3. ~OnItsWay(t)
    BY <2>2 DEF OnItsWay
  <2>4. DOMAIN owners[SlotAt(t)] = Cut(t) /\ (Cut(t) = {} \/ Stored(t))
    BY <2>1, <2>3 DEF FinalsHeld
  <2> HIDE DEF ext
  <2>5. Stored(t) => Stored(t)'
    BY <1>1, <1>9, <2>1 DEF Stored
  <2> QED BY <2>1, <2>4, <2>5
<1>11. ASSUME NEW t \in Newest', t \notin Attached'
       PROVE  DOMAIN owners'[SlotAt(t)] = {}
  <2>1. t >= ptr
    BY <1>2, <1>5, <1>7, <1>11
  <2> QED BY <1>5, <2>1
<1> QED BY <1>8, <1>10, <1>11 DEF FinalsHeld, Cut

LEMMA WriteFinalsFinals ==
  ASSUME IInv, TableHeld, FinalsHeld, WriteFinals
  PROVE  FinalsHeld'
<1> DEFINE T == ptr - ready + written
<1>1. /\ lpc = "attach" /\ lpc' = lpc /\ written < ready /\ written' = written + 1 /\ ready' = ready
      /\ UNCHANGED <<ptr, grid>>
  BY DEF WriteFinals
<1>2. ptr \in Nat /\ ready \in Nat /\ written \in Nat /\ ptr = nextGen
  BY <1>1, PtrIsNat, Constants DEF IInv, DrainTypeOK, Replayed
<1>3. T \in Nat /\ T < ptr
  <2>1. First \in Nat
    BY <1>1, Constants DEF IInv, DrainTypeOK, Cursors, Between
  <2> QED BY <1>1, <1>2, <2>1 DEF First
<1>4. FinalRow = Uniform(T)
  BY <1>1, PayloadsFit DEF PayloadsAligned, Uniform
<1>5. FinalSlot = SlotAt(T)
  BY DEF FinalSlot
<1>6. FinalEnvs = IF T \in Newest THEN Cut(T) ELSE {}
  <2>1. T \in Newest <=> written >= Skip(ready)
    <3>1. Skip(ready) = IF ready > Cap THEN ready - Cap ELSE 0
      BY <1>2, SkipIs
    <3> QED BY <1>2, <1>3, <3>1, Constants DEF Newest
  <2>2. \A c \in Collectors : FinalRow[c] = T
    BY <1>4 DEF Uniform
  <2> HIDE DEF T
  <2> QED BY <2>1, <2>2 DEF FinalEnvs, Cut
<1> HIDE DEF T
<1>7. Newest' = Newest /\ \A t : t \in Attached <=> t \in Newest /\ t < T
  BY <1>1 DEF Newest, Attached, T
<1>8. \A t : t \in Attached' <=> t \in Newest /\ t < T + 1
  <2>1. ptr' - ready' + written' = T + 1
    BY <1>1, <1>2 DEF T
  <2> QED BY <1>1, <1>7, <2>1 DEF Attached
<1>9. \A t : t \in Attached' <=> t \in Attached \/ (t \in Newest /\ t = T)
  <2>1. \A t \in Newest : t \in Nat
    BY DEF Newest
  <2> QED BY <1>3, <1>7, <1>8, <2>1
<1>10. CASE FinalEnvs = {}
  <2>1. UNCHANGED <<owners, table, stream>>
    BY <1>10 DEF WriteFinals
  <2>2. CASE T \notin Newest
    <3>1. Attached' = Attached
      BY <1>9, <2>2
    <3> QED BY <1>1, <2>1, <3>1, FinalsKept
  <2>3. CASE T \in Newest
    <3>1. Cut(T) = {} /\ DOMAIN owners[SlotAt(T)] = {}
      BY <1>3, <1>6, <1>7, <1>10, <2>3 DEF FinalsHeld
    <3>2. \A t : (Stored(t) => Stored(t)') /\ (OnItsWay(t) => OnItsWay(t)')
      BY <1>1, <2>1 DEF Stored, OnItsWay
    <3>3. OpsHeld'
      BY <1>9, <2>1 DEF FinalsHeld, OpsHeld, Uniform
    <3> QED BY <1>7, <1>9, <2>1, <3>1, <3>2, <3>3 DEF FinalsHeld, Cut
  <2> QED BY <2>2, <2>3
<1>11. CASE FinalEnvs # {}
  <2> DEFINE e == FinalEnvs
             s == FinalSlot
             g == Given(e, s)
             o == [op |-> "final", slot |-> s, given |-> g, final |-> FinalRow]
  <2>1. WriteFinal(e, s) /\ stream' = stream \o <<o>>
    BY <1>11 DEF WriteFinals, FinalOps
  <2>2. T \in Newest /\ e = Cut(T) /\ s = SlotAt(T) /\ s \in 0..BufferSize
    <3>1. T \in Int
      BY <1>3
    <3> QED BY <1>5, <1>6, <1>11, <3>1, SlotPlaces
  <2>3. o.op = "final" /\ o.slot = s /\ o.given = g /\ o.final = Uniform(T)
    BY <1>4
  <2>4. g = [c \in e |-> g[c]]
    BY DEF Given
  <2>5. DOMAIN owners[s] = {} /\ DOMAIN owners = 0..BufferSize
    BY <1>3, <1>7, <2>2 DEF FinalsHeld, TableHeld, RowsHeld
  <2>6. owners' = [owners EXCEPT ![s] =
                     [c \in DOMAIN owners[s] \cup e |-> IF c \in e THEN g[c] ELSE owners[s][c]]]
    BY <2>1 DEF WriteFinal
  <2>7. \A r \in DOMAIN table : table'[r] = table[r]
    <3>1. DOMAIN table \subseteq DOMAIN table'
      <4>1. e \in SUBSET Envs
        BY DEF FinalEnvs, Collectors
      <4> HIDE DEF e, s
      <4> QED BY <2>1, <2>2, <4>1, WriteFinalRows DEF TableHeld
    <3>2. \/ table' = table
          \/ table' = [r \in 0..(Grown(Lacking(e, s)) - 1) |->
                         IF r \in DOMAIN table THEN table[r] ELSE -1]
      BY <2>1 DEF WriteFinal
    <3> HIDE DEF e, s
    <3> QED BY <3>1, <3>2
  <2> HIDE DEF e, s, g, o
  <2>8. owners'[s] = g /\ \A u \in 0..BufferSize : u # s => owners'[u] = owners[u]
    <3>1. [c \in DOMAIN owners[s] \cup e |-> IF c \in e THEN g[c] ELSE owners[s][c]] = g
      BY <2>4, <2>5
    <3> QED BY <2>2, <2>5, <2>6, <3>1
  <2>9. IsASequence(stream) /\ Range(stream') = Range(stream) \cup {o}
    <3>1. IsASequence(stream)
      BY DEF IInv, Replayed, InPlace
    <3>2. IsASequence(<<o>>) /\ Range(<<o>>) = {o}
      BY OneQueued
    <3> QED BY <2>1, <3>1, <3>2, MoreQueued
  <2>10. ASSUME NEW i \in 2..Len(stream') PROVE stream'[i].op # "clear"
    <3> DEFINE S == Range(stream) \cup {o}
    <3>1. stream \in Seq(S) /\ <<o>> \in Seq(S)
      <4>1. Range(stream) \subseteq S /\ o \in S /\ stream \in Seq(Range(stream))
        BY <2>9 DEF IsASequence
      <4> HIDE DEF S
      <4> QED BY <4>1, SeqMonotonic
    <3> HIDE DEF S
    <3>2. /\ Len(stream') = Len(stream) + Len(<<o>>)
          /\ \A j \in 1..(Len(stream) + Len(<<o>>)) :
               stream'[j] = IF j <= Len(stream) THEN stream[j] ELSE <<o>>[j - Len(stream)]
      BY <2>1, <3>1, ConcatProperties
    <3>3. Len(<<o>>) = 1 /\ <<o>>[1] = o /\ Len(stream) \in Nat
      BY <3>1, LenProperties
    <3>4. CASE i <= Len(stream)
      <4>1. i \in 1..(Len(stream) + 1) /\ i \in 2..Len(stream)
        BY <3>2, <3>3, <3>4
      <4>2. stream'[i] = stream[i]
        BY <3>2, <3>3, <3>4, <4>1
      <4> QED BY <4>1, <4>2 DEF FinalsHeld, OpsHeld
    <3>5. CASE ~(i <= Len(stream))
      <4>1. i \in 1..(Len(stream) + 1) /\ i - Len(stream) = 1
        BY <3>2, <3>3, <3>5
      <4>2. stream'[i] = o
        BY <3>2, <3>3, <3>5, <4>1
      <4> QED BY <2>3, <4>2
    <3> QED BY <3>4, <3>5
  <2>11. ASSUME NEW t \in Newest, t # T
         PROVE  SlotAt(t) \in 0..BufferSize /\ SlotAt(t) # s
    BY <2>2, <2>11, OtherSlots
  <2>12. OpsHeld'
    <3>1. ASSUME NEW a \in Range(stream'), a.op = "final"
          PROVE  \E t \in Attached' :
                   a.slot = SlotAt(t) /\ a.given = owners'[SlotAt(t)] /\ a.final = Uniform(t)
      <4>1. CASE a = o
        BY <1>9, <2>2, <2>3, <2>8, <4>1
      <4>2. CASE a \in Range(stream)
        <5>1. PICK t \in Attached :
                a.slot = SlotAt(t) /\ a.given = owners[SlotAt(t)] /\ a.final = Uniform(t)
          BY <3>1, <4>2 DEF FinalsHeld, OpsHeld
        <5>2. t \in Attached' /\ t \in Newest /\ t # T
          BY <1>3, <1>7, <1>9
        <5> QED BY <2>8, <2>11, <5>1, <5>2
      <4> QED BY <2>9, <4>1, <4>2
    <3> QED BY <2>10, <3>1 DEF OpsHeld, Uniform
  <2>13. ASSUME NEW t \in Attached'
         PROVE  /\ DOMAIN owners'[SlotAt(t)] = Cut(t)
                /\ Cut(t) = {} \/ OnItsWay(t)' \/ Stored(t)'
    <3>1. CASE t = T
      <4>1. DOMAIN owners'[SlotAt(t)] = Cut(t)
        BY <2>2, <2>4, <2>8, <3>1
      <4>2. OnItsWay(t)'
        BY <2>2, <2>3, <2>9, <3>1 DEF OnItsWay
      <4> QED BY <4>1, <4>2
    <3>2. CASE t # T
      <4>1. t \in Attached /\ t \in Newest
        BY <1>7, <1>9, <3>2
      <4>2. SlotAt(t) \in 0..BufferSize /\ owners'[SlotAt(t)] = owners[SlotAt(t)]
        BY <2>8, <2>11, <3>2, <4>1
      <4>3. DOMAIN owners[SlotAt(t)] = Cut(t) /\ (Cut(t) = {} \/ OnItsWay(t) \/ Stored(t))
        BY <4>1 DEF FinalsHeld
      <4>4. OnItsWay(t) => OnItsWay(t)'
        BY <2>9 DEF OnItsWay
      <4>5. ASSUME Stored(t) PROVE Stored(t)'
        <5>1. \A c \in Cut(t) : owners[SlotAt(t)][c] \in DOMAIN table
          BY <4>2, <4>3 DEF TableHeld, RowsHeld, Rows
        <5>2. \A a \in Range(stream') : a.op = "clear" => a \in Range(stream)
          BY <2>3, <2>9
        <5> QED BY <1>1, <2>7, <4>2, <4>5, <5>1, <5>2 DEF Stored, Cut
      <4> QED BY <4>2, <4>3, <4>4, <4>5
    <3> QED BY <3>1, <3>2
  <2>14. ASSUME NEW t \in Newest', t \notin Attached'
         PROVE  DOMAIN owners'[SlotAt(t)] = {}
    <3>1. t \in Newest /\ t # T /\ t \notin Attached
      BY <1>7, <1>9, <2>14
    <3> QED BY <2>8, <2>11, <3>1 DEF FinalsHeld
  <2> QED BY <2>12, <2>13, <2>14 DEF FinalsHeld, Cut
<1> QED BY <1>10, <1>11

LEMMA CopyStreamFinals ==
  ASSUME IInv, TableHeld, FinalsHeld, CopyStream
  PROVE  FinalsHeld'
<1> DEFINE o == Head(stream)
<1>1. /\ stream # <<>> /\ stream' = Tail(stream) /\ Execute(o, buffers)
      /\ UNCHANGED <<ptr, owners, lpc, ready, written>>
  BY DEF CopyStream, stage, replayHost, drain
<1>2. IsASequence(stream)
  BY DEF IInv, Replayed, InPlace
<1>3. Range(stream) = {o} \cup Range(stream')
  BY <1>1, <1>2, OneTaken
<1>4. \A a \in Range(stream') : a.op # "clear"
  <2> DEFINE S == Range(stream)
  <2>1. stream \in Seq(S)
    BY <1>2 DEF IsASequence
  <2> HIDE DEF S
  <2>2. /\ stream' \in Seq(S) /\ Len(stream') = Len(stream) - 1
        /\ \A i \in 1..Len(stream') : stream'[i] = stream[i + 1]
    BY <1>1, <2>1, HeadTailProperties
  <2>3. Range(stream') = {stream'[i] : i \in 1..Len(stream')}
    BY <2>2, RangeEquality
  <2>4. Len(stream) \in Nat
    BY <2>1, LenProperties
  <2> SUFFICES ASSUME NEW i \in 1..Len(stream') PROVE stream'[i].op # "clear"
    BY <2>3
  <2>5. i + 1 \in 2..Len(stream)
    BY <2>2, <2>4
  <2> QED BY <2>2, <2>5 DEF FinalsHeld, OpsHeld
<1> HIDE DEF o
<1>5. Newest' = Newest /\ Attached' = Attached
  BY <1>1 DEF Newest, Attached
<1>6. OpsHeld'
  <2>1. \A i \in 2..Len(stream') : stream'[i].op # "clear"
    <3>1. IsASequence(stream')
      BY <1>1, <1>2, OneTaken
    <3>2. \A i \in 1..Len(stream') : stream'[i] \in Range(stream')
      <4> DEFINE S == Range(stream')
      <4>1. stream' \in Seq(S)
        BY <3>1 DEF IsASequence
      <4> HIDE DEF S
      <4>2. \A i \in 1..Len(stream') : stream'[i] \in S
        BY <4>1, ElementOfSeq
      <4> QED BY <4>2 DEF S
    <3>3. \A i \in 2..Len(stream') : i \in 1..Len(stream')
      OBVIOUS
    <3> QED BY <1>4, <3>2, <3>3
  <2> QED BY <1>1, <1>3, <1>5, <2>1 DEF FinalsHeld, OpsHeld, Uniform
<1>7. grid \in [0..BufferSize -> [Envs -> {-1} \cup DOMAIN table]] /\ Envs = Collectors
  BY DEF TableHeld, GridHeld, Collectors
<1>8. ASSUME NEW t \in Attached, Cut(t) # {}
      PROVE  OnItsWay(t)' \/ Stored(t)'
  <2>1. /\ DOMAIN owners[SlotAt(t)] = Cut(t) /\ (OnItsWay(t) \/ Stored(t))
        /\ t \in Newest /\ Cut(t) \subseteq Collectors
    BY <1>8 DEF FinalsHeld, Attached, Cut
  <2>2. SlotAt(t) \in 0..BufferSize
    <3>1. t \in Int
      BY <2>1 DEF Newest
    <3> QED BY <3>1, SlotPlaces
  <2>3. ASSUME o.op # "final" \/ o.slot # SlotAt(t), OnItsWay(t) PROVE OnItsWay(t)'
    BY <1>3, <2>3 DEF OnItsWay
  <2>4. CASE o.op = "clear"
    <3>1. ASSUME Stored(t) PROVE Stored(t)'
      <4>1. SlotAt(t) \notin o.slots
        BY <1>3, <2>4, <3>1 DEF Stored
      <4>2. table' = table /\ grid'[SlotAt(t)] = grid[SlotAt(t)]
        BY <1>1, <1>7, <2>2, <2>4, <4>1 DEF Execute
      <4> QED BY <1>1, <1>4, <3>1, <4>2 DEF Stored, Cut
    <3> QED BY <2>1, <2>3, <2>4, <3>1
  <2>5. CASE o.op = "row"
    <3>1. table' = table /\ grid' = grid
      BY <1>1, <2>5 DEF Execute
    <3>2. ASSUME Stored(t) PROVE Stored(t)'
      BY <1>1, <1>4, <3>1, <3>2 DEF Stored, Cut
    <3> QED BY <2>1, <2>3, <2>5, <3>2
  <2>6. CASE o.op = "final"
    <3>1. PICK u \in Attached :
            o.slot = SlotAt(u) /\ o.given = owners[SlotAt(u)] /\ o.final = Uniform(u)
      BY <1>3, <2>6 DEF FinalsHeld, OpsHeld
    <3>2. u \in Newest /\ DOMAIN owners[SlotAt(u)] = Cut(u)
      BY DEF FinalsHeld, Attached
    <3> DEFINE f == owners[SlotAt(u)]
               row == [c \in Envs |-> IF c \in DOMAIN f THEN f[c] ELSE grid[SlotAt(u)][c]]
    <3>3. /\ grid' = [grid EXCEPT ![SlotAt(u)] = row]
          /\ table' = [r \in DOMAIN table |->
                         IF \E c \in DOMAIN f : f[c] = r
                           THEN Uniform(u)[CHOOSE c \in DOMAIN f : f[c] = r]
                           ELSE table[r]]
      <4> DEFINE was == [c \in Envs |-> IF c \in DOMAIN o.given THEN o.given[c] ELSE grid[o.slot][c]]
      <4>1. grid' = [grid EXCEPT ![o.slot] = was]
        BY <1>1, <2>6 DEF Execute
      <4>2. was = row
        BY <3>1
      <4>3. table' = [r \in DOMAIN table |->
                        IF \E c \in DOMAIN o.given : o.given[c] = r
                          THEN o.final[CHOOSE c \in DOMAIN o.given : o.given[c] = r]
                          ELSE table[r]]
        BY <1>1, <2>6 DEF Execute
      <4> HIDE DEF was, row
      <4>4. grid' = [grid EXCEPT ![SlotAt(u)] = row]
        BY <3>1, <4>1, <4>2
      <4>5. o.given = f /\ o.final = Uniform(u)
        BY <3>1
      <4> HIDE DEF f
      <4> QED BY <4>3, <4>4, <4>5
    <3> HIDE DEF f
    <3>4. DOMAIN f = Cut(u) /\ Cut(u) \subseteq Collectors /\ f = owners[SlotAt(u)]
      BY <3>2 DEF f, Cut
    <3>5. \A c \in Cut(t) : owners[SlotAt(t)][c] \in DOMAIN table
      BY <2>1, <2>2 DEF TableHeld, RowsHeld, Rows
    <3>6. CASE u = t
      <4>1. ASSUME NEW c \in Cut(t)
            PROVE  grid'[SlotAt(t)][c] = f[c] /\ table'[f[c]] = t
        <5>1. grid'[SlotAt(t)] = row
          BY <1>7, <2>2, <3>3, <3>6
        <5>2. row[c] = f[c]
          BY <1>7, <2>1, <3>4, <3>6
        <5>3. f[c] \in DOMAIN table /\ \E d \in DOMAIN f : f[d] = f[c]
          BY <3>4, <3>5, <3>6
        <5> DEFINE d == CHOOSE d \in DOMAIN f : f[d] = f[c]
        <5>4. d \in DOMAIN f
          BY <5>3
        <5>5. table'[f[c]] = Uniform(u)[d]
          BY <3>3, <5>3
        <5> HIDE DEF d
        <5>6. Uniform(u)[d] = u
          BY <3>4, <5>4 DEF Uniform
        <5> QED BY <3>6, <5>1, <5>2, <5>5, <5>6
      <4>2. Stored(t)'
        BY <1>1, <1>4, <3>4, <3>6, <4>1 DEF Stored, Cut
      <4> QED BY <4>2
    <3>7. CASE u # t
      <4>1. SlotAt(u) # SlotAt(t) /\ SlotAt(u) \in 0..BufferSize
        BY <2>1, <3>2, <3>7, OtherSlots
      <4>2. ASSUME Stored(t) PROVE Stored(t)'
        <5>1. grid'[SlotAt(t)] = grid[SlotAt(t)]
          <6> HIDE DEF row
          <6> QED BY <1>7, <2>2, <3>3, <4>1
        <5>2. ASSUME NEW c \in Cut(t)
              PROVE  table'[owners[SlotAt(t)][c]] = table[owners[SlotAt(t)][c]]
          <6> DEFINE r == owners[SlotAt(t)][c]
          <6>1. \A d \in DOMAIN f : f[d] # r
            BY <2>1, <2>2, <3>4, <4>1 DEF TableHeld, RowsHeld
          <6>2. r \in DOMAIN table
            BY <3>5
          <6> HIDE DEF r
          <6>3. table'[r] = table[r]
            BY <3>3, <6>1, <6>2
          <6> QED BY <6>3 DEF r
        <5> QED BY <1>1, <1>4, <4>2, <5>1, <5>2 DEF Stored, Cut
      <4>3. o.slot # SlotAt(t)
        BY <3>1, <4>1
      <4> QED BY <2>1, <2>3, <4>2, <4>3
    <3> QED BY <3>6, <3>7
  <2>7. o.op = "clear" \/ o.op = "row" \/ o.op = "final"
    BY <1>1 DEF Execute
  <2> QED BY <2>4, <2>5, <2>6, <2>7
<1> QED BY <1>1, <1>5, <1>6, <1>8 DEF FinalsHeld, Cut

LEMMA FinalsInductive == IInv /\ TableHeld /\ FinalsHeld /\ [Next]_vars => FinalsHeld'
<1> SUFFICES ASSUME IInv, TableHeld, FinalsHeld, [Next]_vars PROVE FinalsHeld'
  OBVIOUS
<1>1. CASE StageRuns
  BY <1>1, StageFinals
<1>2. CASE WriteFinals
  BY <1>2, WriteFinalsFinals
<1>3. CASE CopyStream
  BY <1>3, CopyStreamFinals
<1>4. CASE CommitRing
  <2>1. /\ UNCHANGED <<ptr, owners, grid, table, stream>>
        /\ lpc = "attach" /\ written = ready
        /\ lpc' # "attach" \/ UNCHANGED <<lpc, ready, written>>
    BY <1>4 DEF CommitRing, stage, copies, replayHost, replayDevice
  <2>2. ptr \in Nat /\ ready \in Nat
    BY PtrIsNat, Constants DEF IInv, DrainTypeOK
  <2>3. Newest' = Newest /\ Attached = Newest
    <3>1. \A t \in Newest : t < ptr - ready + written
      BY <2>1, <2>2 DEF Newest
    <3> QED BY <2>1, <3>1 DEF Attached, Newest
  <2>4. Attached' = Attached
    <3>1. CASE lpc' # "attach"
      BY <2>3, <3>1 DEF Attached
    <3>2. CASE UNCHANGED <<lpc, ready, written>>
      BY <2>1, <2>3, <3>2 DEF Attached
    <3> QED BY <2>1, <3>1, <3>2
  <2> QED BY <2>1, <2>4, FinalsKept
<1>5. CASE ~(StageRuns \/ WriteFinals \/ CopyStream \/ CommitRing)
  <2>1. /\ UNCHANGED <<ptr, owners, grid, table, stream>>
        /\ \/ UNCHANGED <<lpc, ready, written>>
           \/ lpc # "attach" /\ lpc' # "attach"
    <3> USE DEF drain, stage, copies, replayHost, replayDevice
    <3>1. CASE \E c \in Collectors : Push(c)
      BY <3>1 DEF Push
    <3>2. CASE ScanRing \/ PopReady \/ Acquire \/ MergeGeneration \/ ReadFinals
      BY <3>2 DEF ScanRing, PopReady, Acquire, MergeGeneration, ReadFinals
    <3>3. CASE ReadProgress \/ MaybeTrain \/ Update \/ Publish
      BY <3>3 DEF ReadProgress, MaybeTrain, Update, Publish
    <3>4. CASE ComputeStream \/ UNCHANGED vars
      BY <3>4 DEF ComputeStream, vars
    <3> QED BY <1>5, <3>1, <3>2, <3>3, <3>4 DEF Next, Learner, Drain
  <2>2. Newest' = Newest
    BY <2>1 DEF Newest
  <2>3. Attached' = Attached
    <3>1. CASE UNCHANGED <<lpc, ready, written>>
      BY <2>1, <2>2, <3>1 DEF Attached
    <3>2. CASE lpc # "attach" /\ lpc' # "attach"
      BY <2>2, <3>2 DEF Attached
    <3> QED BY <2>1, <3>1, <3>2
  <2> QED BY <2>1, <2>3, FinalsKept
<1> QED BY <1>1, <1>2, <1>3, <1>4, <1>5

-----------------------------------------------------------------------------
(* What sampling reads.                                                    *)

\* A publish is due after every update call: weight_publish_interval divides
\* num_updates.
PublishesEach == NumUpdates % PublishInterval = 0

\* Sampling is over when the learner goes on, so it is of the buffer as it is,
\* with all that is still to be copied.
SamplingHeld ==
  /\ updates = 0 /\ done \in Nat
  /\ lpc \in {"update", "publish"} => ptr >= 2
  /\ lpc # "publish" => kernels = <<>>
  /\ kernels = <<>> \/ kernels = <<[ptr |-> ptr, after |-> done + Len(stream)]>>

LEMMA LessOf ==
  ASSUME NEW a \in Int, NEW b \in Int
  PROVE  Min({a, b}) = IF a <= b THEN a ELSE b
<1> DEFINE m == IF a <= b THEN a ELSE b
<1>1. m \in {a, b} /\ \A x \in {a, b} : m <= x
  OBVIOUS
<1>2. \A x \in {a, b} : (\A y \in {a, b} : x <= y) => x = m
  OBVIOUS
<1> QED BY <1>1, <1>2 DEF Min

LEMMA MoreOf ==
  ASSUME NEW a \in Int, NEW b \in Int
  PROVE  Max({a, b}) = IF a >= b THEN a ELSE b
<1> DEFINE m == IF a >= b THEN a ELSE b
<1>1. m \in {a, b} /\ \A x \in {a, b} : m >= x
  OBVIOUS
<1>2. \A x \in {a, b} : (\A y \in {a, b} : x >= y) => x = m
  OBVIOUS
<1> QED BY <1>1, <1>2 DEF Max

LEMMA StoredIs ==
  ASSUME NEW p \in Nat
  PROVE  NumStored(p) = IF p = 0 THEN 0 ELSE IF p - 1 <= BufferSize THEN p - 1 ELSE BufferSize
<1> DEFINE m == Max({p - 1, 0})
<1>1. m = IF p = 0 THEN 0 ELSE p - 1
  <2>1. m = IF p - 1 >= 0 THEN p - 1 ELSE 0
    BY MoreOf
  <2> QED BY <2>1
<1> HIDE DEF m
<1>2. m \in Int /\ BufferSize \in Int /\ BufferSize > 0
  BY <1>1, Constants
<1>3. NumStored(p) = IF m <= BufferSize THEN m ELSE BufferSize
  BY <1>2, LessOf DEF NumStored, m
<1> QED BY <1>1, <1>2, <1>3

\* Windows start at a complete step that the buffer still has.
LEMMA StartsAre ==
  ASSUME NEW p \in Nat, p >= 2, NEW n \in Nat \ {0}, NEW t \in Starts(n, p)
  PROVE  t \in Nat /\ p - Cap <= t /\ t <= p - 2
<1>1. Cap = BufferSize + 1 /\ BufferSize \in Nat \ {0}
  BY Constants
<1>2. CASE n = 1
  <2>1. t \in (p - 1 - NumStored(p))..(p - 2)
    BY <1>2 DEF Starts
  <2>2. NumStored(p) = IF p - 1 <= BufferSize THEN p - 1 ELSE BufferSize
    BY StoredIs
  <2> QED BY <1>1, <2>1, <2>2
<1>3. CASE n # 1 /\ p - 1 < BufferSize
  <2>1. Max({1, p - n}) = IF 1 >= p - n THEN 1 ELSE p - n
    BY MoreOf
  <2>2. t \in 0..(Max({1, p - n}) - 1)
    BY <1>3 DEF Starts
  <2> QED BY <1>1, <1>3, <2>1, <2>2
<1>4. CASE n # 1 /\ ~(p - 1 < BufferSize)
  <2>1. t \in (p - 1 - BufferSize)..(p - 2)
    BY <1>4 DEF Starts
  <2> QED BY <1>1, <1>4, <2>1
<1> QED BY <1>2, <1>3, <1>4

LEMMA SamplingInitial == Init => SamplingHeld
BY DEF Init, SamplingHeld

LEMMA SamplingKept ==
  ASSUME SamplingHeld, UNCHANGED <<updates, kernels, done>>,
         kernels = <<>> \/ UNCHANGED <<ptr, stream>>,
         lpc' \in {"update", "publish"} => ptr >= 2 /\ ptr' = ptr,
         lpc' # "publish" => kernels = <<>>
  PROVE  SamplingHeld'
BY DEF SamplingHeld

LEMMA SamplingInductive ==
  IInv /\ StepsHeld /\ SamplingHeld /\ PublishesEach /\ [Next]_vars => SamplingHeld'
<1> SUFFICES ASSUME IInv, StepsHeld, SamplingHeld, PublishesEach, [Next]_vars PROVE SamplingHeld'
  OBVIOUS
<1> USE DEF drain, stage, copies, replayHost, replayDevice, train
<1>1. CASE \E c \in Collectors : Push(c)
  <2>1. UNCHANGED <<updates, kernels, done, ptr, stream, lpc>>
    BY <1>1 DEF Push
  <2> QED BY <2>1 DEF SamplingHeld
<1>2. CASE ReadProgress \/ Drain
  <2>1. /\ UNCHANGED <<updates, kernels, done>> /\ lpc # "publish"
        /\ lpc' \notin {"update", "publish"}
    <3>1. CASE ReadProgress \/ ScanRing \/ PopReady \/ Acquire \/ MergeGeneration
      BY <3>1 DEF ReadProgress, ScanRing, PopReady, Acquire, MergeGeneration
    <3>2. CASE ReadFinals \/ StageRuns \/ WriteFinals
      BY <3>2 DEF ReadFinals, StageRuns, WriteFinals
    <3>3. CASE CommitRing
      BY <3>3 DEF CommitRing
    <3> QED BY <1>2, <3>1, <3>2, <3>3 DEF Drain
  <2>2. kernels = <<>>
    BY <2>1 DEF SamplingHeld
  <2> QED BY <2>1, <2>2, SamplingKept
<1>3. CASE MaybeTrain
  <2>1. /\ UNCHANGED <<updates, kernels, done, ptr, stream>> /\ lpc = "train"
        /\ lpc' = IF Due > 0 THEN "update" ELSE "loop"
    BY <1>3 DEF MaybeTrain
  <2>2. kernels = <<>>
    BY <2>1 DEF SamplingHeld
  <2>3. Due > 0 => ptr >= 2
    <3>1. Due > 0 => NumStored(ptr) > 0
      BY DEF Due
    <3>2. ptr \in Nat
      BY PtrIsNat
    <3>3. NumStored(ptr) = IF ptr = 0 THEN 0
                           ELSE IF ptr - 1 <= BufferSize THEN ptr - 1 ELSE BufferSize
      BY <3>2, StoredIs
    <3> QED BY <3>1, <3>2, <3>3, Constants
  <2> QED BY <2>1, <2>2, <2>3, SamplingKept
<1>4. CASE Update
  <2>1. /\ UNCHANGED <<done, ptr, stream>> /\ lpc = "update" /\ lpc' = "publish"
        /\ updates' = (updates + NumUpdates) % PublishInterval
        /\ kernels' = Append(kernels, [ptr |-> ptr, after |-> done + Len(stream)])
    BY <1>4 DEF Update
  <2>2. kernels = <<>> /\ updates = 0 /\ ptr >= 2 /\ done \in Nat
    BY <2>1 DEF SamplingHeld
  <2>3. updates' = 0
    <3>1. NumUpdates \in Nat
      BY DrainAssumption
    <3>2. 0 + NumUpdates = NumUpdates
      BY <3>1
    <3> QED BY <2>1, <2>2, <3>2 DEF PublishesEach
  <2>4. kernels' = <<[ptr |-> ptr, after |-> done + Len(stream)]>>
    BY <2>1, <2>2
  <2> QED BY <2>1, <2>2, <2>3, <2>4 DEF SamplingHeld
<1>5. CASE Publish
  <2>1. /\ UNCHANGED <<updates, kernels, done, ptr, stream>> /\ PublishSynced
        /\ lpc = "publish" /\ lpc' \in {"update", "loop"}
    BY <1>5 DEF Publish
  <2>2. kernels = <<>> /\ ptr >= 2
    BY <2>1 DEF SamplingHeld, PublishSynced
  <2> QED BY <2>1, <2>2, SamplingKept
<1>6. CASE CopyStream
  <2>1. /\ stream # <<>> /\ stream' = Tail(stream) /\ done' = done + 1
        /\ UNCHANGED <<updates, kernels, ptr, lpc>>
    BY <1>6 DEF CopyStream
  <2>2. Len(stream) \in Nat /\ Len(stream') = Len(stream) - 1
    <3> DEFINE S == Range(stream)
    <3>1. stream \in Seq(S)
      BY DEF IInv, Replayed, InPlace, IsASequence
    <3> HIDE DEF S
    <3> QED BY <2>1, <3>1, HeadTailProperties, LenProperties
  <2>3. done \in Nat
    BY DEF SamplingHeld
  <2>4. done' + Len(stream') = done + Len(stream) /\ done' \in Nat
    BY <2>1, <2>2, <2>3
  <2> QED BY <2>1, <2>4 DEF SamplingHeld
<1>7. CASE ComputeStream
  <2>1. kernels # <<>> /\ kernels' = Tail(kernels) /\ UNCHANGED <<updates, done, ptr, stream, lpc>>
    BY <1>7 DEF ComputeStream, SampleReady
  <2>2. kernels' = <<>>
    <3>1. PICK k : kernels = <<k>>
      BY <2>1 DEF SamplingHeld
    <3> QED BY <2>1, <3>1
  <2> QED BY <2>1, <2>2 DEF SamplingHeld
<1>8. CASE UNCHANGED vars
  <2>1. UNCHANGED <<updates, kernels, done, ptr, stream, lpc>>
    BY <1>8 DEF vars
  <2> QED BY <2>1 DEF SamplingHeld
<1> QED BY <1>1, <1>2, <1>3, <1>4, <1>5, <1>6, <1>7, <1>8 DEF Next, Learner

\* With the copies executed, a stored step and what follows it read as the
\* trajectory does.
LEMMA ReadsAre ==
  ASSUME IInv, TableHeld, FinalsHeld, lpc # "attach", stream = <<>>,
         NEW t \in Newest, NEW c \in Collectors
  PROVE  /\ StepAt(t, c) = t
         /\ t <= ptr - 2 =>
              NextAt(t, c) = IF <<t, c>> \in Truncated THEN <<"final", t>> ELSE <<"obs", t + 1>>
<1>1. Range(stream) = {}
  BY EmptyQueue
<1>2. \A u \in Newest : StepAt(u, c) = u
  <2> TAKE u \in Newest
  <2>1. replay[SlotAt(u)] = Uniform(u)
    BY <1>1 DEF IInv, Replayed, InPlace
  <2> QED BY <2>1 DEF StepAt, Uniform
<1>3. ASSUME <<t, c>> \in Truncated
      PROVE  grid[SlotAt(t)][c] >= 0 /\ table[grid[SlotAt(t)][c]] = t
  <2>1. t \in Attached /\ c \in Cut(t)
    BY <1>3 DEF Attached, Cut
  <2>2. DOMAIN owners[SlotAt(t)] = Cut(t) /\ Stored(t)
    BY <1>1, <2>1 DEF FinalsHeld, OnItsWay
  <2>3. /\ grid[SlotAt(t)][c] = owners[SlotAt(t)][c] /\ table[owners[SlotAt(t)][c]] = t
    BY <2>1, <2>2 DEF Stored
  <2>4. SlotAt(t) \in 0..BufferSize
    <3>1. t \in Int
      BY DEF Newest
    <3> QED BY <3>1, SlotPlaces
  <2>5. owners[SlotAt(t)][c] \in DOMAIN table
    BY <2>1, <2>2, <2>4 DEF TableHeld, RowsHeld, Rows
  <2>6. \A r \in DOMAIN table : r >= 0
    <3>1. PICK n \in 0..MaxRows : DOMAIN table = 0..(n - 1)
      BY DEF TableHeld, RowsHeld
    <3> QED BY <3>1
  <2> QED BY <2>3, <2>5, <2>6
<1>4. t <= ptr - 2 => t + 1 \in Newest
  <2>1. ptr \in Nat /\ t \in Nat /\ ptr - Cap <= t /\ Cap \in Nat
    BY PtrIsNat, Constants DEF Newest
  <2> QED BY <2>1 DEF Newest
<1> QED BY <1>2, <1>3, <1>4 DEF NextAt

\* Reading a window's steps where they belong returns the trajectory.
LEMMA WindowIs ==
  ASSUME NEW p \in Nat, NEW n \in Nat \ {0}, NEW t \in Nat, t <= p - 2, NEW c,
         \A u \in t..(p - 2) :
           /\ StepAt(u, c) = u
           /\ NextAt(u, c) = IF <<u, c>> \in Truncated THEN <<"final", u>> ELSE <<"obs", u + 1>>
  PROVE  Sampled(n, p, t, c) = Trajectory(n, p, t, c)
<1> DEFINE len == Min({n, p - 1 - t})
           offs == 0..(len - 1)
           stops == {o \in offs : <<t + o, c>> \in Terminated}
           cuts == {o \in offs : <<t + o, c>> \in Truncated}
           ends == {o \in offs : <<t + o, c>> \in Terminated \cup Truncated}
           off == Min(ends \cup {len - 1})
<1>1. len = (IF n <= p - 1 - t THEN n ELSE p - 1 - t) /\ len \in Nat \ {0} /\ len <= p - 1 - t
  <2>1. p - 1 - t \in Nat \ {0}
    OBVIOUS
  <2>2. len = IF n <= p - 1 - t THEN n ELSE p - 1 - t
    BY <2>1, LessOf
  <2> QED BY <2>1, <2>2
<1>2. MaxOff(n, p, t) = len - 1
  <2>1. Max({p - 2 - t, 0}) = p - 2 - t
    <3>1. Max({p - 2 - t, 0}) = IF p - 2 - t >= 0 THEN p - 2 - t ELSE 0
      BY MoreOf
    <3> QED BY <3>1
  <2>2. Min({n - 1, p - 2 - t}) = IF n - 1 <= p - 2 - t THEN n - 1 ELSE p - 2 - t
    BY LessOf
  <2>3. MaxOff(n, p, t) = Min({n - 1, p - 2 - t})
    BY <2>1 DEF MaxOff
  <2> QED BY <1>1, <2>2, <2>3
<1> HIDE DEF len
<1>3. \A o \in offs : StepAt(t + o, c) = t + o
  <2> SUFFICES ASSUME NEW o \in offs PROVE StepAt(t + o, c) = t + o
    OBVIOUS
  <2>1. t + o \in t..(p - 2)
    BY <1>1
  <2> QED BY <2>1
<1>4. /\ {o \in offs : <<StepAt(t + o, c), c>> \in Terminated} = stops
      /\ {o \in offs : <<StepAt(t + o, c), c>> \in Truncated} = cuts
  BY <1>3
<1>5. stops \cup cuts \cup {len - 1} = ends \cup {len - 1}
  OBVIOUS
<1>6. off \in offs
  <2> DEFINE E == ends \cup {len - 1}
  <2>1. E \subseteq offs /\ E # {}
    BY <1>1
  <2>2. E \subseteq Nat
    BY <2>1
  <2> HIDE DEF E
  <2>3. Min(E) \in E
    BY <2>1, <2>2, MinIs
  <2> QED BY <2>1, <2>3 DEF E
<1>7. StepAt(t + 0, c) = t
  <2>1. 0 \in offs /\ t + 0 = t
    BY <1>1
  <2> QED BY <1>3, <2>1
<1>8. t + off \in t..(p - 2)
  <2> HIDE DEF off
  <2> QED BY <1>1, <1>6
<1> DEFINE W == Window(n, p, t, c, LAMBDA o : StepAt(t + o, c))
           within == {i \in offs : \A j \in stops : i <= j}
<1>9. W = [first |-> t, rewards |-> {<<o, t + o>> : o \in within}, off |-> off]
  <2>1. {<<o, StepAt(t + o, c)>> : o \in within} = {<<o, t + o>> : o \in within}
    BY <1>3, ZenonT(40)
  <2> HIDE DEF stops, cuts, ends
  <2> QED BY <1>2, <1>4, <1>5, <1>7, <2>1 DEF Window
<1>10. Sampled(n, p, t, c) =
         [first |-> W.first, rewards |-> W.rewards, last |-> StepAt(t + W.off, c),
          next |-> NextAt(t + W.off, c)]
  BY DEF Sampled
<1>11. Trajectory(n, p, t, c) =
         [first |-> t, rewards |-> {<<o, t + o>> : o \in within}, last |-> t + off,
          next |-> IF <<t + off, c>> \in Truncated THEN <<"final", t + off>>
                                                   ELSE <<"obs", t + off + 1>>]
  BY DEF Trajectory, len
<1> HIDE DEF W, off, within
<1>12. /\ StepAt(t + off, c) = t + off
       /\ NextAt(t + off, c) = IF <<t + off, c>> \in Truncated THEN <<"final", t + off>>
                                                              ELSE <<"obs", t + off + 1>>
  BY <1>8
<1>13. /\ W.first = t /\ W.rewards = {<<o, t + o>> : o \in within} /\ W.off = off
  BY <1>9
<1> QED BY <1>10, <1>11, <1>12, <1>13

\* What a sampled window returns is the trajectory as it was when the update
\* was called, for every start and length of window, when a publish is due
\* after every update call: no ingest overtakes the sampling, each next
\* observation is the successor's or the step's own terminal one, and no row
\* was changed for a later owner (SimpleReplayBuffer.sample, Learner.update).
THEOREM SamplesAreIntact ==
  ASSUME PublishesEach
  PROVE  Spec => []SamplesIntact
<1>1. Init => TableHeld /\ StepsHeld /\ FinalsHeld /\ SamplingHeld
  BY TableInitial, StepsInitial, FinalsInitial, SamplingInitial
<1>2. IInv /\ TableHeld /\ StepsHeld /\ FinalsHeld /\ SamplingHeld /\ [Next]_vars
        => TableHeld' /\ StepsHeld' /\ FinalsHeld' /\ SamplingHeld'
  BY TableInductive, StepsInductive, FinalsInductive, SamplingInductive
<1>3. ASSUME IInv, TableHeld, FinalsHeld, SamplingHeld
      PROVE  SamplesIntact
  <2> SUFFICES ASSUME SampleReady, NEW n \in WindowSizes,
                      NEW t \in Starts(n, Head(kernels).ptr), NEW c \in Collectors
               PROVE  Sampled(n, Head(kernels).ptr, t, c) = Trajectory(n, Head(kernels).ptr, t, c)
    BY DEF SamplesIntact
  <2>1. kernels # <<>> /\ done >= Head(kernels).after
    BY DEF SampleReady
  <2>2. /\ kernels = <<[ptr |-> ptr, after |-> done + Len(stream)]>>
        /\ lpc = "publish" /\ ptr >= 2 /\ done \in Nat
    BY <1>3, <2>1 DEF SamplingHeld
  <2>3. Head(kernels).ptr = ptr /\ Head(kernels).after = done + Len(stream)
    BY <2>2
  <2>4. stream = <<>>
    <3> DEFINE S == Range(stream)
    <3>1. stream \in Seq(S)
      BY <1>3 DEF IInv, Replayed, InPlace, IsASequence
    <3> HIDE DEF S
    <3>2. Len(stream) \in Nat
      BY <3>1, LenProperties
    <3>3. Len(stream) = 0
      BY <2>1, <2>2, <2>3, <3>2
    <3> QED BY <3>1, <3>3, EmptySeq
  <2>5. n \in Nat \ {0} /\ ptr \in Nat
    BY <1>3, PtrIsNat, DrainAssumption
  <2>6. t \in Nat /\ ptr - Cap <= t /\ t <= ptr - 2
    BY <2>2, <2>3, <2>5, StartsAre
  <2>7. ASSUME NEW u \in t..(ptr - 2)
        PROVE  /\ StepAt(u, c) = u
               /\ NextAt(u, c) = IF <<u, c>> \in Truncated THEN <<"final", u>> ELSE <<"obs", u + 1>>
    <3>1. u \in Newest /\ u <= ptr - 2
      BY <2>5, <2>6, Constants DEF Newest
    <3> QED BY <1>3, <2>2, <2>4, <3>1, ReadsAre
  <2>8. Sampled(n, ptr, t, c) = Trajectory(n, ptr, t, c)
    BY <2>5, <2>6, <2>7, WindowIs
  <2> QED BY <2>3, <2>8
<1> QED BY <1>1, <1>2, <1>3, InvariantHolds, PTL DEF Spec

=============================================================================
