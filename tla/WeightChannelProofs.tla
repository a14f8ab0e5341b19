------------------------- MODULE WeightChannelProofs ------------------------
(***************************************************************************)
(* Proofs about WeightChannel, for any words, transports and number of     *)
(* publishes: the seqlock protocol makes the channel a versioned register. *)
(***************************************************************************)
EXTENDS WeightChannel, TLAPS

\* Where the collector's copy of a word goes.
CopyOf(w) == IF w \in StagedWords THEN staging[w] ELSE actor[w]

\* No publish is begun beyond the last version.
SeqBounded ==
  /\ Version(seq) <= MaxVersion
  /\ Writing => Version(seq) < MaxVersion

\* The active slot is the published version, complete; the other slot is the
\* next version but for the words still to be written.
SlotsVersioned ==
  /\ \A w \in Words : slots[ActiveSlot(seq)][w] = Version(seq)
  /\ Writing => \A w \in Words \ todo : slots[TargetSlot(seq)][w] = Version(seq) + 1

\* An attempt runs on an even counter value above the loaded version.
AttemptFresh ==
  /\ s1 <= seq
  /\ loaded <= Version(seq)
  /\ rpc = "copy" => Loadable(s1)

\* Unless a publish ended meanwhile, what was copied is of the version the
\* attempt began with.
CopyConsistent ==
  rpc = "copy" /\ Version(seq) = Version(s1) =>
    \A w \in Words \ unread : CopyOf(w) = Version(s1)

\* What is only loaded from staging always is the loaded version.
StagedPolicy == \A w \in StagedWords : actor[w] = loaded

IInv == /\ TypeOK /\ SeqBounded /\ SlotsVersioned
        /\ AttemptFresh /\ CopyConsistent /\ StagedPolicy

-----------------------------------------------------------------------------
\* How versions and slots follow the counter.
LEMMA CounterArithmetic ==
  ASSUME NEW s \in Nat
  PROVE  /\ Version(s) \in Nat /\ s % 2 \in {0, 1} /\ s + 1 \in Nat
         /\ ActiveSlot(s) \in 0..1 /\ TargetSlot(s) \in 0..1
         /\ ActiveSlot(s) # TargetSlot(s)
         /\ s % 2 = 0 => /\ (s + 1) % 2 = 1 /\ Version(s + 1) = Version(s)
                         /\ ActiveSlot(s + 1) = ActiveSlot(s)
                         /\ TargetSlot(s + 1) = TargetSlot(s)
         /\ s % 2 = 1 => /\ (s + 1) % 2 = 0 /\ Version(s + 1) = Version(s) + 1
                         /\ ActiveSlot(s + 1) = TargetSlot(s)
BY SMT DEF Version, ActiveSlot, TargetSlot

\* A later counter value never stands for an earlier version.
LEMMA VersionMonotone ==
  ASSUME NEW s \in Nat, NEW t \in Nat, s <= t
  PROVE  Version(s) <= Version(t) /\ (s % 2 = 0 /\ Version(s) = Version(t) => t <= s + 1)
BY SMT DEF Version

\* The empty channel satisfies the invariant.
LEMMA InitInv == Init => IInv
<1> SUFFICES ASSUME Init PROVE IInv
  OBVIOUS
<1>1. /\ seq = 0 /\ s1 = 0 /\ loaded = 0 /\ rpc = "idle" /\ MaxVersion \in Nat
      /\ slots = [b \in 0..1 |-> [w \in Words |-> 0]]
      /\ actor = [w \in Words |-> 0] /\ staging = [w \in Words |-> 0]
      /\ todo = {} /\ unread = {} /\ transport \in Transports
  BY ChannelAssumption DEF Init
<1>2. /\ Version(0) = 0 /\ ActiveSlot(0) \in 0..1 /\ 0 % 2 = 0
  BY SMT DEF Version, ActiveSlot
<1>3. TypeOK
  BY <1>1, SMT DEF TypeOK
<1>4. SeqBounded
  BY <1>1, <1>2, SMT DEF SeqBounded, Writing
<1>5. SlotsVersioned
  BY <1>1, <1>2, SMT DEF SlotsVersioned, Writing
<1>6. AttemptFresh /\ CopyConsistent
  BY <1>1, <1>2, SMT DEF AttemptFresh, CopyConsistent
<1>7. StagedPolicy
  <2>1. StagedWords \subseteq Words
    BY DEF StagedWords, Words
  <2> QED BY <1>1, <2>1 DEF StagedPolicy
<1> QED BY <1>3, <1>4, <1>5, <1>6, <1>7 DEF IInv

\* A publish writes only the slot that is not active.
LEMMA PublishStep ==
  ASSUME IInv, Publish
  PROVE  IInv'
<1> USE DEF IInv
<1>1. /\ seq \in Nat /\ s1 \in Nat /\ loaded \in Nat /\ MaxVersion \in Nat
      /\ Version(seq) \in Nat /\ Version(s1) \in Nat
  BY CounterArithmetic, ChannelAssumption, SMT DEF TypeOK
<1>2. UNCHANGED <<transport, rpc, s1, unread, staging, actor, loaded>>
  BY DEF Publish, PublishBegin, WriteWord, PublishEnd, reader
<1>3. UNCHANGED StagedWords /\ \A w \in Words : CopyOf(w)' = CopyOf(w)
  BY <1>2 DEF StagedWords, CopyOf
<1>4. StagedPolicy'
  BY <1>2, <1>3 DEF StagedPolicy
<1>5. CASE PublishBegin
  <2>1. /\ seq' = seq + 1 /\ seq % 2 = 0 /\ slots' = slots /\ todo' = Words
        /\ Version(seq) < MaxVersion
    BY <1>1, <1>5, CounterArithmetic DEF PublishBegin, Writing
  <2>2. /\ seq' \in Nat /\ seq' % 2 = 1 /\ Version(seq') = Version(seq)
        /\ ActiveSlot(seq') = ActiveSlot(seq) /\ s1 <= seq'
    BY <1>1, <2>1, CounterArithmetic, SMTT(30) DEF AttemptFresh
  <2>3. TypeOK'
    BY <1>2, <2>1, <2>2 DEF TypeOK
  <2>4. SeqBounded' /\ SlotsVersioned'
    BY <2>1, <2>2 DEF SeqBounded, SlotsVersioned, Writing
  <2>5. AttemptFresh' /\ CopyConsistent'
    BY <1>2, <1>3, <2>2 DEF AttemptFresh, CopyConsistent, Loadable
  <2> QED BY <1>4, <2>3, <2>4, <2>5
<1>6. ASSUME NEW w \in Words, WriteWord(w)
      PROVE  IInv'
  <2>1. /\ seq' = seq /\ seq % 2 = 1 /\ todo' = todo \ {w} /\ w \in todo
        /\ slots' = [slots EXCEPT ![TargetSlot(seq)][w] = Version(seq) + 1]
    BY <1>6 DEF WriteWord, Writing
  <2>2. /\ TargetSlot(seq) \in 0..1 /\ ActiveSlot(seq) \in 0..1
        /\ ActiveSlot(seq) # TargetSlot(seq) /\ Version(seq) + 1 \in Nat
    BY <1>1, CounterArithmetic, SMT
  <2>3. slots' \in [0..1 -> [Words -> Nat]]
    BY <2>1, <2>2 DEF TypeOK
  <2>4. TypeOK'
    BY <1>2, <2>1, <2>3 DEF TypeOK
  <2>5. SlotsVersioned'
    <3>1. slots'[ActiveSlot(seq)] = slots[ActiveSlot(seq)]
      BY <2>1, <2>2 DEF TypeOK
    <3>2. \A v \in Words : slots'[TargetSlot(seq)][v] =
             IF v = w THEN Version(seq) + 1 ELSE slots[TargetSlot(seq)][v]
      BY <2>1, <2>2 DEF TypeOK
    <3> QED BY <2>1, <3>1, <3>2 DEF SlotsVersioned, Writing
  <2>6. SeqBounded' /\ AttemptFresh' /\ CopyConsistent'
    BY <1>2, <1>3, <2>1 DEF SeqBounded, AttemptFresh, CopyConsistent, Writing, Loadable
  <2> QED BY <1>4, <2>4, <2>5, <2>6
<1>7. CASE PublishEnd
  <2>1. seq' = seq + 1 /\ seq % 2 = 1 /\ slots' = slots /\ todo' = todo /\ todo = {}
    BY <1>7 DEF PublishEnd, Writing
  <2>2. /\ seq' \in Nat /\ seq' % 2 = 0 /\ Version(seq') = Version(seq) + 1
        /\ ActiveSlot(seq') = TargetSlot(seq)
    BY <1>1, <2>1, CounterArithmetic
  <2>3. TypeOK'
    BY <1>2, <2>1, <2>2 DEF TypeOK
  <2>4. SeqBounded'
    BY <1>1, <2>1, <2>2, SMT DEF SeqBounded, Writing
  <2>5. SlotsVersioned'
    BY <2>1, <2>2 DEF SlotsVersioned, Writing
  <2>6. /\ s1 <= seq' /\ loaded <= Version(seq') /\ Version(s1) < Version(seq')
    <3>1. Version(s1) <= Version(seq) /\ s1 <= seq /\ loaded <= Version(seq)
      BY <1>1, VersionMonotone DEF AttemptFresh
    <3> QED BY <1>1, <2>1, <2>2, <3>1, SMT
  <2>7. AttemptFresh'
    BY <1>2, <2>6 DEF AttemptFresh, Loadable
  <2>8. CopyConsistent'
    BY <1>1, <1>2, <2>2, <2>6, SMT DEF CopyConsistent
  <2> QED BY <1>4, <2>3, <2>4, <2>5, <2>7, <2>8
<1> QED BY <1>5, <1>6, <1>7 DEF Publish

\* What the collector copies is of the version its attempt began with as long
\* as the counter stays below the next one; only then does it load.
LEMMA MaybeLoadStep ==
  ASSUME IInv, MaybeLoad
  PROVE  IInv'
<1> USE DEF IInv
<1>1. /\ seq \in Nat /\ s1 \in Nat /\ loaded \in Nat /\ MaxVersion \in Nat
      /\ Version(seq) \in Nat /\ Version(s1) \in Nat
      /\ StagedWords \subseteq Words
  BY CounterArithmetic, ChannelAssumption, SMT DEF TypeOK, StagedWords, Words
<1>2. UNCHANGED <<transport, seq, slots, todo, StagedWords>>
  BY DEF MaybeLoad, PollLoad, CopyWord, LoadSnapshot, RetryLoad, writer, StagedWords
<1>3. SeqBounded' /\ SlotsVersioned'
  BY <1>2 DEF SeqBounded, SlotsVersioned, Writing
<1>4. CASE PollLoad \/ RetryLoad
  <2>1. /\ s1' = seq /\ UNCHANGED <<staging, actor, loaded>>
        /\ \/ Loadable(seq) /\ rpc' = "copy" /\ unread' = Words
           \/ ~Loadable(seq) /\ rpc' = "idle" /\ unread' = {}
    BY <1>4 DEF PollLoad, RetryLoad, StartAttempt
  <2>2. TypeOK' /\ StagedPolicy'
    BY <1>1, <1>2, <2>1 DEF TypeOK, StagedPolicy
  <2>3. AttemptFresh'
    BY <1>1, <1>2, <2>1, SMT DEF AttemptFresh, Loadable
  <2>4. CopyConsistent'
    BY <2>1 DEF CopyConsistent
  <2> QED BY <1>3, <2>2, <2>3, <2>4
<1>5. ASSUME NEW w \in Words, CopyWord(w)
      PROVE  IInv'
  <2> DEFINE value == slots[ActiveSlot(s1)][w]
  <2>1. /\ UNCHANGED <<rpc, s1, loaded>> /\ rpc = "copy" /\ unread' = unread \ {w}
        /\ IF w \in StagedWords
             THEN staging' = [staging EXCEPT ![w] = value] /\ actor' = actor
             ELSE actor' = [actor EXCEPT ![w] = value] /\ staging' = staging
    BY <1>5, WordsAssumption DEF CopyWord, StagedWords, Words
  <2>2. ActiveSlot(s1) \in 0..1 /\ value \in Nat
    <3>1. ActiveSlot(s1) \in 0..1
      BY <1>1, CounterArithmetic
    <3> QED BY <3>1 DEF TypeOK
  <2>3. Version(seq) = Version(s1) => value = Version(s1)
    BY DEF SlotsVersioned, ActiveSlot
  <2> HIDE DEF value
  <2>4. staging' \in [Words -> Nat] /\ actor' \in [Words -> Nat]
    BY <2>1, <2>2 DEF TypeOK
  <2>5. TypeOK'
    BY <1>2, <2>1, <2>4 DEF TypeOK
  <2>6. AttemptFresh'
    BY <1>2, <2>1 DEF AttemptFresh, Loadable
  <2>7. StagedPolicy'
    BY <1>1, <1>2, <2>1 DEF StagedPolicy, TypeOK
  <2>8. \A v \in Words : CopyOf(v)' = IF v = w THEN value ELSE CopyOf(v)
    BY <1>2, <2>1 DEF CopyOf, TypeOK
  <2>9. CopyConsistent'
    BY <1>2, <2>1, <2>3, <2>8 DEF CopyConsistent
  <2> QED BY <1>3, <2>5, <2>6, <2>7, <2>9
<1>6. CASE LoadSnapshot
  <2>1. /\ rpc = "copy" /\ rpc' = "idle" /\ unread = {} /\ seq = s1
        /\ loaded' = Version(s1) /\ actor' = [w \in Words |-> CopyOf(w)]
        /\ UNCHANGED <<s1, unread, staging>>
    BY <1>6 DEF LoadSnapshot, Recheck, LoadedVersion, CopyOf
  <2>2. \A w \in Words : CopyOf(w) = Version(s1)
    BY <2>1 DEF CopyConsistent
  <2>3. actor' \in [Words -> Nat] /\ loaded' \in 0..MaxVersion
    BY <1>1, <2>1, <2>2, SMT DEF SeqBounded
  <2>4. TypeOK'
    BY <1>2, <2>1, <2>3 DEF TypeOK
  <2>5. AttemptFresh'
    BY <1>1, <1>2, <2>1, SMT DEF AttemptFresh
  <2>6. CopyConsistent' /\ StagedPolicy'
    BY <1>1, <1>2, <2>1, <2>2 DEF CopyConsistent, StagedPolicy
  <2> QED BY <1>3, <2>4, <2>5, <2>6
<1> QED BY <1>4, <1>5, <1>6 DEF MaybeLoad

\* A step that changes nothing keeps the invariant.
LEMMA StutterStep ==
  ASSUME IInv, UNCHANGED vars
  PROVE  IInv'
BY DEF vars, writer, reader, IInv, TypeOK, SeqBounded, SlotsVersioned, AttemptFresh,
       CopyConsistent, StagedPolicy, CopyOf, StagedWords, Writing, Loadable

\* IInv is an invariant.
THEOREM Inductive == Spec => []IInv
<1>1. IInv /\ [Next]_vars => IInv'
  BY PublishStep, MaybeLoadStep, StutterStep DEF Next
<1> QED BY InitInv, <1>1, PTL DEF Spec

-----------------------------------------------------------------------------
\* Every variable keeps its type; no version beyond the last is ever loaded.
THEOREM TypeCorrect == Spec => []TypeOK
<1>1. IInv => TypeOK
  BY DEF IInv
<1> QED BY <1>1, Inductive, PTL

\* On the host transport the policy is, at every moment, one whole published
\* version: the one it reports.
THEOREM HostPolicyIsIntact == Spec => []HostPolicyIntact
<1>1. IInv => HostPolicyIntact
  BY DEF IInv, StagedPolicy, StagedWords, HostPolicyIntact
<1> QED BY <1>1, Inductive, PTL

\* A load, on either transport, brings in one whole version and a newer one.
THEOREM LoadsAreConsistent == Spec => LoadIsConsistent
<1> DEFINE Consistent ==
      loaded' # loaded =>
        loaded' > loaded /\ \A w \in Words : actor'[w] = loaded'
<1>1. IInv /\ [Next]_vars => Consistent
  <2> SUFFICES ASSUME IInv, [Next]_vars, loaded' # loaded
               PROVE  loaded' > loaded /\ \A w \in Words : actor'[w] = loaded'
    OBVIOUS
  <2>1. LoadSnapshot
    BY DEF Next, Publish, PublishBegin, WriteWord, PublishEnd, MaybeLoad, PollLoad,
           CopyWord, RetryLoad, vars, reader
  <2>2. /\ rpc = "copy" /\ unread = {} /\ seq = s1
        /\ loaded' = Version(s1) /\ actor' = [w \in Words |-> CopyOf(w)]
    BY <2>1 DEF LoadSnapshot, Recheck, LoadedVersion, CopyOf
  <2>3. \A w \in Words : CopyOf(w) = Version(s1)
    BY <2>2 DEF IInv, CopyConsistent
  <2>4. Version(s1) > loaded
    BY <2>2 DEF IInv, AttemptFresh, Loadable
  <2> QED BY <2>2, <2>3, <2>4
<1>2. IInv /\ [Next]_vars => [Consistent]_vars
  BY <1>1
<1> HIDE DEF Consistent
<1>3. Spec => [][Consistent]_vars
  BY <1>2, Inductive, PTL DEF Spec
<1> QED BY <1>3 DEF LoadIsConsistent, Consistent

-----------------------------------------------------------------------------
\* The channel implements the versioned register: the end of a publish is the
\* register's Publish, a load its Load, and every other step leaves it alone.
THEOREM ImplementsRegister == Spec => RefinesRegister
<1>1. Init => Register!Init
  <2>1. 0 \div 2 = 0
    BY SMT
  <2> QED BY <2>1 DEF Init, Register!Init, policyBar, Version
<1>2. IInv /\ [Next]_vars => [Register!Next]_Register!registerVars
  <2> SUFFICES ASSUME IInv, [Next]_vars
               PROVE  [Register!Next]_Register!registerVars
    OBVIOUS
  <2> USE DEF IInv
  <2>1. /\ seq \in Nat /\ s1 \in Nat /\ loaded \in Nat
    BY SMT DEF TypeOK
  <2>2. CASE PublishEnd
    <3>1. /\ seq' = seq + 1 /\ seq % 2 = 1 /\ UNCHANGED policyBar
      BY <2>2 DEF PublishEnd, Writing, reader, policyBar
    <3>2. Version(seq') = Version(seq) + 1
      BY <2>1, <3>1, CounterArithmetic
    <3> QED BY <3>1, <3>2 DEF Register!Next, Register!Publish
  <2>3. CASE LoadSnapshot
    <3>1. /\ rpc = "copy" /\ unread = {} /\ seq = s1 /\ seq' = seq
          /\ transport' = transport
          /\ loaded' = Version(s1) /\ actor' = [w \in Words |-> CopyOf(w)]
      BY <2>3 DEF LoadSnapshot, Recheck, LoadedVersion, CopyOf, writer
    <3>2. \A w \in Words : CopyOf(w) = Version(s1)
      BY <3>1 DEF CopyConsistent
    <3>3. policyBar' = [w \in Words |-> Version(seq)]
      BY <3>1, <3>2 DEF policyBar
    <3>4. \A w \in Words : policyBar[w] = loaded
      BY DEF policyBar, StagedPolicy, StagedWords
    <3>5. loaded < Version(seq)
      BY <2>1, <3>1, CounterArithmetic, SMT DEF AttemptFresh, Loadable
    <3>6. Register!Load
      BY <3>1, <3>3, <3>4, <3>5 DEF Register!Load
    <3> QED BY <3>6 DEF Register!Next
  <2>4. CASE ~PublishEnd /\ ~LoadSnapshot
    <3>1. Version(seq') = Version(seq)
      <4>1. CASE PublishBegin
        BY <2>1, <4>1, CounterArithmetic DEF PublishBegin, Writing
      <4>2. CASE ~PublishBegin
        BY <2>4, <4>2 DEF Next, Publish, WriteWord, MaybeLoad, PollLoad, CopyWord,
           RetryLoad, writer, vars
      <4> QED BY <4>1, <4>2
    <3>2. policyBar' = policyBar
      <4>1. UNCHANGED <<transport, loaded>>
        BY <2>4 DEF Next, Publish, PublishBegin, WriteWord, MaybeLoad, PollLoad, CopyWord,
           RetryLoad, reader, vars
      <4>2. transport = "host" => actor' = actor
        BY <2>4 DEF Next, Publish, PublishBegin, WriteWord, MaybeLoad, PollLoad, CopyWord,
           RetryLoad, reader, vars
      <4> QED BY <4>1, <4>2 DEF policyBar
    <3> QED BY <3>1, <3>2 DEF Register!registerVars
  <2> QED BY <2>2, <2>3, <2>4
<1> QED BY <1>1, <1>2, Inductive, PTL DEF Spec, RefinesRegister, Register!Spec
=============================================================================
