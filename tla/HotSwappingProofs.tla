-------------------------- MODULE HotSwappingProofs --------------------------
(***************************************************************************)
(* Proofs about HotSwapping, for any skills, durations and gestures: the   *)
(* types, that a skill runs only when it has been prepared, and that only  *)
(* the operator gets the robot out of passive.                             *)
(*                                                                         *)
(* SkillPrepared is not inductive: a hop left in the queue while the robot *)
(* heads for the preparation would be routed through a skill.  QueueSide   *)
(* says that a hop is only ever left on the way through fixstand.          *)
(***************************************************************************)
EXTENDS HotSwapping, TLAPS

\* The only route with a hop to spare is passive - fixstand - walk.
QueueSide == queue # <<>> => Heading = Fixstand

IInv == TypeOK /\ QueueSide /\ SkillPrepared

-----------------------------------------------------------------------------
(* The graph.                                                              *)

\* The names of the baseline states are different, and no skill has one.
LEMMA StatesDiffer ==
  /\ Passive # Fixstand /\ Passive # Walk /\ Fixstand # Walk
  /\ Prep \notin Baseline /\ Skills \cap Baseline = {} /\ Prep \notin Skills
  /\ Baseline \subseteq States /\ Skills \subseteq States /\ Prep \in States
  /\ \A s \in States : s \in Baseline \/ s = Prep \/ s \in Skills
  /\ Nothing \notin States /\ Nothing \notin Blends
BY HotSwappingAssumption DEF Passive, Fixstand, Walk, Prep, Baseline, States

\* A transition that takes time leads to a baseline state.
LEMMA SmoothEdgesLeadToBaseline ==
  ASSUME NEW from, NEW t, NEW d \in Durations(<<from, t>>), d # 0
  PROVE  t \in Baseline /\ d \in 1..MaxAge
<1>1. <<from, t>> \in SmoothEdges  BY DEF Durations
<1>2. t \in Baseline
  BY <1>1 DEF SmoothEdges, Baseline
<1>3. d \in 1..MaxAge  BY <1>1, BlendAssumption DEF Durations
<1> QED  BY <1>2, <1>3

LEMMA MaxAgePositive == MaxAge \in Nat /\ 1 \in 0..MaxAge
<1>1. <<Passive, Fixstand>> \in SmoothEdges  BY DEF SmoothEdges
<1>2. PICK d \in Blend[<<Passive, Fixstand>>] : d \in 1..MaxAge
  BY <1>1, BlendAssumption
<1> QED  BY <1>2, HotSwappingAssumption

\* The routes that requests and queued hops ask for.
LEMMA Routes ==
  ASSUME NEW s \in States, NEW t \in States, s # t
  PROVE  /\ <<s, t>> \in Edges => PathTo(s, t) = <<t>>
         /\ t = Passive => <<s, t>> \in Edges
         /\ s = Walk /\ t \in {Fixstand, Prep} => <<s, t>> \in Edges
         /\ s = Fixstand /\ t = Walk => <<s, t>> \in Edges
         /\ s = Passive /\ t = Fixstand => <<s, t>> \in Edges
         /\ s = Passive /\ t = Walk => PathTo(s, t) = <<Fixstand, Walk>>
<1>1. <<s, t>> \in Edges => PathTo(s, t) = <<t>>  BY DEF PathTo
<1>2. t = Passive => <<s, t>> \in Edges  BY DEF Edges, SmoothEdges
<1>3. s = Walk /\ t \in {Fixstand, Prep} => <<s, t>> \in Edges
  BY DEF Edges, SmoothEdges, ImmediateEdges
<1>4. s = Fixstand /\ t = Walk => <<s, t>> \in Edges
  BY DEF Edges, SmoothEdges
<1>5. s = Passive /\ t = Fixstand => <<s, t>> \in Edges
  BY DEF Edges, SmoothEdges
<1>6. ASSUME s = Passive, t = Walk  PROVE PathTo(s, t) = <<Fixstand, Walk>>
  <2>1. \A m : <<Passive, m>> \in Edges <=> m = Fixstand
    BY StatesDiffer DEF Edges, SmoothEdges, ImmediateEdges, Baseline
  <2>2. <<Fixstand, Walk>> \in Edges  BY DEF Edges, SmoothEdges
  <2>3. (CHOOSE m \in States : <<Passive, m>> \in Edges /\ <<m, Walk>> \in Edges) = Fixstand
    BY <2>1, <2>2, StatesDiffer DEF Baseline
  <2>4. <<Passive, Walk>> \notin Edges  BY <2>1, StatesDiffer
  <2> QED  BY <1>6, <2>3, <2>4, StatesDiffer DEF PathTo
<1> QED  BY <1>1, <1>2, <1>3, <1>4, <1>5, <1>6

-----------------------------------------------------------------------------
(* What the parts of a call do.                                            *)

\* Whether or not the blend takes time, the robot heads for its target.
LEMMA TakeHeads ==
  ASSUME NEW from, NEW t, Take(from, t)
  PROVE  /\ Heading' = t /\ current' \in {from, t}
         /\ active' \in Blends \cup {Nothing}
<1>1. PICK d \in Durations(<<from, t>>) :
        IF d = 0 THEN current' = t /\ active' = Nothing
        ELSE current' = from /\ active' = [target |-> t, duration |-> d]
  BY DEF Take
<1>2. CASE d = 0  BY <1>1, <1>2 DEF Heading
<1>3. CASE d # 0
  <2>1. active' \in Blends /\ active'.target = t
    BY <1>1, <1>3, SmoothEdgesLeadToBaseline DEF Blends
  <2> QED  BY <1>1, <1>3, <2>1, StatesDiffer DEF Heading
<1> QED  BY <1>2, <1>3

\* What entering the state t comes to: it is headed for, or it is a
\* preparation that is done and hands over to the skill.
LEMMA EnterHeads ==
  ASSUME TypeOK, NEW from \in States, NEW t \in States, NEW ready, NEW was \in BOOLEAN,
         pending' \in Skills \cup {Nothing}, spec' \in Skills \cup {Nothing},
         t = Prep => pending' \in Skills /\ spec' = pending',
         Enter(from, t, ready, was)
  PROVE  /\ current' \in States /\ active' \in Blends \cup {Nothing}
         /\ age' \in 0..MaxAge /\ readySince' \in 0..MaxAge \cup {Nothing}
         /\ reached' \in BOOLEAN /\ played' \in Nat
         /\ outcome' = "command"
         /\ \/ Heading' = t /\ (t \in Skills => reached' = was)
            \/ t = Prep /\ Heading' = pending' /\ reached'
<1>1. age' \in 0..MaxAge /\ outcome' = "command"  BY MaxAgePositive DEF Enter
<1>2. CASE t \in Baseline /\ Take(from, t) /\ reached' = was /\ UNCHANGED <<readySince, played>>
  BY <1>1, <1>2, TakeHeads, StatesDiffer DEF TypeOK
<1>3. CASE t \in Skills /\ Take(from, t) /\ reached' = was /\ played' = 1 /\ UNCHANGED readySince
  BY <1>1, <1>3, TakeHeads, StatesDiffer DEF TypeOK
<1>4. CASE /\ t = Prep
           /\ readySince' = ReadySince(Nothing, spec', 0, ready)
           /\ reached' = Prepared(readySince', FALSE, spec', 0)
           /\ IF reached' THEN Take(Prep, pending') /\ played' = 1
              ELSE Take(from, Prep) /\ UNCHANGED played
  <2>1. readySince' \in 0..MaxAge \cup {Nothing}
    BY <1>4, MaxAgePositive DEF ReadySince
  <2>2. reached' \in BOOLEAN  BY <1>4 DEF Prepared
  <2>3. pending' \in States  BY <1>4, StatesDiffer
  <2>4. CASE reached'
    <3>1. Take(Prep, pending') /\ played' = 1  BY <1>4, <2>4
    <3>2. /\ Heading' = pending' /\ current' \in {Prep, pending'}
          /\ active' \in Blends \cup {Nothing}
      BY <3>1, TakeHeads
    <3> QED  BY <1>1, <1>4, <2>1, <2>2, <2>3, <2>4, <3>1, <3>2, StatesDiffer
  <2>5. CASE ~reached'
    BY <1>1, <1>4, <2>1, <2>2, <2>5, TakeHeads, StatesDiffer DEF TypeOK
  <2> QED  BY <2>2, <2>4, <2>5
<1> QED  BY <1>2, <1>3, <1>4 DEF Enter

\* A skill is armed only in settled walking, and nothing but an emergency is
\* heard in a preparation or a skill, or on the way to one.
LEMMA Hearing ==
  ASSUME NEW intents \in SUBSET Intents
  PROVE  /\ Armed(intents) \subseteq Skills
         /\ Armed(intents) # {} => current = Walk /\ active = Nothing /\ ~Emergency(intents)
         /\ Armed(intents) # {} =>
              PendingAfter(intents) \in Skills /\ SpecAfter(intents) = PendingAfter(intents)
         /\ Armed(intents) = {} => SpecAfter(intents) = spec
         /\ Armed(intents) = {} /\ ~Emergency(intents) => PendingAfter(intents) = pending
         /\ Emergency(intents) => PendingAfter(intents) = Nothing
<1>1. Armed(intents) \subseteq Skills  BY DEF Armed
<1>2. Armed(intents) # {} => current = Walk /\ active = Nothing /\ ~Emergency(intents)
  BY DEF Armed
<1>3. Armed(intents) # {} =>
        PendingAfter(intents) \in Skills /\ SpecAfter(intents) = PendingAfter(intents)
  BY <1>1, <1>2 DEF PendingAfter, SpecAfter
<1> QED  BY <1>1, <1>2, <1>3 DEF PendingAfter, SpecAfter

LEMMA Asking ==
  ASSUME NEW intents \in SUBSET Intents
  PROVE  /\ Requested(intents) \in {Nothing, Passive, Fixstand, Walk, Prep}
         /\ Emergency(intents) => Requested(intents) = Passive
         /\ Requested(intents) = Passive => Emergency(intents)
         /\ ~Emergency(intents) /\ Protected # {} => Requested(intents) = Nothing
         /\ Requested(intents) = Prep => Armed(intents) # {}
         /\ Requested(intents) \in {Fixstand, Walk} =>
              intents \cap DOMAIN TargetOf # {} /\ ~Emergency(intents)
<1>1. DOMAIN TargetOf = {"request_fixstand", "request_walk"}
      /\ TargetOf["request_fixstand"] = Fixstand /\ TargetOf["request_walk"] = Walk
  BY DEF TargetOf
<1>2. \A t \in Targets(intents) :
        t \in {Fixstand, Walk} /\ intents \cap DOMAIN TargetOf # {}
  BY <1>1 DEF Targets
<1>3. CASE Emergency(intents)
  BY <1>3, StatesDiffer DEF Requested, Baseline, States
<1>4. CASE ~Emergency(intents) /\ (Protected # {} \/ Armed(intents) # {})
  BY <1>4, StatesDiffer DEF Requested, Baseline, States, Armed
<1>5. CASE ~Emergency(intents) /\ Protected = {} /\ Armed(intents) = {}
  <2>1. Requested(intents) = Nothing
        \/ Requested(intents) \in Targets(intents)
    BY <1>5 DEF Requested
  <2> QED  BY <1>2, <1>5, <2>1, StatesDiffer DEF Baseline, States
<1> QED  BY <1>3, <1>4, <1>5

-----------------------------------------------------------------------------
(* The invariant.                                                          *)

LEMMA HearingTypes ==
  ASSUME TypeOK, NEW intents \in SUBSET Intents, Hear(intents),
         pending' \in {PendingAfter(intents), Nothing}
  PROVE  /\ pending' \in Skills \cup {Nothing} /\ spec' \in Skills \cup {Nothing}
         /\ stopping' \in BOOLEAN /\ heard' \subseteq Intents
<1>1. Armed(intents) = {} => PendingAfter(intents) \in {pending, Nothing}
  BY Hearing
<1>2. PendingAfter(intents) \in Skills \cup {Nothing}
      /\ SpecAfter(intents) \in Skills \cup {Nothing}
  BY <1>1, Hearing DEF TypeOK
<1> QED  BY <1>2 DEF Hear, TypeOK

\* A transition to t keeps the invariant when no hop is left over, but on the
\* way through fixstand, and a skill is entered only from its preparation.
LEMMA EnterKeeps ==
  ASSUME TypeOK, NEW from \in States, NEW t \in States, NEW ready, NEW was \in BOOLEAN,
         pending' \in Skills \cup {Nothing}, spec' \in Skills \cup {Nothing},
         stopping' \in BOOLEAN, heard' \subseteq Intents,
         queue' \in {<<>>, <<Walk>>}, queue' # <<>> => t = Fixstand,
         t = Prep => pending' \in Skills /\ spec' = pending',
         t \in Skills => pending' = t /\ spec' = t /\ was = TRUE,
         Enter(from, t, ready, was)
  PROVE  IInv'
<1>1. /\ current' \in States /\ active' \in Blends \cup {Nothing}
      /\ age' \in 0..MaxAge /\ readySince' \in 0..MaxAge \cup {Nothing}
      /\ reached' \in BOOLEAN /\ played' \in Nat
      /\ outcome' = "command"
  BY EnterHeads
<1>2. \/ Heading' = t /\ (t \in Skills => reached' = was)
      \/ t = Prep /\ Heading' = pending' /\ reached'
  BY EnterHeads
<1>3. TypeOK'  BY <1>1 DEF TypeOK
<1>4. QueueSide'
  BY <1>2, StatesDiffer DEF QueueSide, Baseline
<1>5. SkillPrepared'
  BY <1>2, StatesDiffer DEF SkillPrepared, Running
<1> QED  BY <1>3, <1>4, <1>5 DEF IInv

\* A call that ends the session disturbs nothing but the pending skill.
LEMMA FailKeeps ==
  ASSUME IInv, NEW why \in {"error", "invalid", "complete"}, Fail(why),
         pending' \in Skills \cup {Nothing}, spec' \in Skills \cup {Nothing},
         stopping' \in BOOLEAN, heard' \subseteq Intents
  PROVE  IInv'
<1>1. Heading' = Heading  BY DEF Fail, machine, Heading
<1>2. TypeOK'  BY DEF IInv, Fail, TypeOK, machine, local
<1>3. QueueSide'  BY <1>1 DEF IInv, Fail, QueueSide, machine
<1>4. SkillPrepared'  BY DEF Fail, SkillPrepared, Running
<1> QED  BY <1>2, <1>3, <1>4 DEF IInv

\* A running blend leads to a baseline state.
LEMMA BlendTarget ==
  ASSUME TypeOK, active # Nothing
  PROVE  active.target \in Baseline /\ active.target \in States /\ Heading = active.target
BY StatesDiffer DEF TypeOK, Blends, Heading

LEMMA PreemptKeeps ==
  ASSUME IInv, NEW intents \in SUBSET Intents, NEW ready, Preempt(intents, ready)
  PROVE  IInv'
<1>1. TypeOK /\ Hear(intents) /\ active # Nothing /\ active.target # Passive
  BY DEF IInv, Preempt
<1>2. active.target \in States /\ Passive \in States
  BY <1>1, BlendTarget, StatesDiffer DEF Baseline
<1>3. PathTo(active.target, Passive) = <<Passive>>  BY <1>1, <1>2, Routes
<1>4. queue' = <<>>  BY <1>3 DEF Preempt, BeginRouted
<1>5. Enter(active.target, Passive, ready, reached)
  BY <1>3 DEF Preempt, BeginRouted
<1>6. /\ pending' \in Skills \cup {Nothing} /\ spec' \in Skills \cup {Nothing}
      /\ stopping' \in BOOLEAN /\ heard' \subseteq Intents
  BY <1>1, HearingTypes DEF Preempt
<1>7. Passive # Prep /\ Passive \notin Skills /\ reached \in BOOLEAN
  BY <1>1, StatesDiffer DEF Baseline, TypeOK
<1> QED  BY <1>1, <1>2, <1>4, <1>5, <1>6, <1>7, EnterKeeps

LEMMA BlendOnKeeps ==
  ASSUME IInv, NEW intents \in SUBSET Intents, BlendOn(intents)
  PROVE  IInv' /\ Heading' = Heading
<1>1. TypeOK /\ Hear(intents) /\ active # Nothing /\ Heading = active.target
      /\ active.target \in Baseline /\ active.target \in States
  BY BlendTarget DEF IInv, BlendOn
<1>2. /\ pending' \in Skills \cup {Nothing} /\ spec' \in Skills \cup {Nothing}
      /\ stopping' \in BOOLEAN /\ heard' \subseteq Intents
  BY <1>1, HearingTypes DEF BlendOn
<1>3. CASE Fail("error")
  BY <1>2, <1>3, FailKeeps DEF Fail, machine, Heading
<1>4. CASE /\ outcome' = "command" /\ age' = Later /\ UNCHANGED <<queue, local>>
           /\ IF age >= active.duration THEN current' = active.target /\ active' = Nothing
              ELSE UNCHANGED <<current, active>>
  <2>1. Heading' = Heading /\ current' \in States /\ active' \in Blends \cup {Nothing}
    BY <1>1, <1>4 DEF Heading, TypeOK
  <2>2. age' \in 0..MaxAge
    BY <1>1, <1>4, HotSwappingAssumption DEF Later, TypeOK
  <2>3. TypeOK'  BY <1>1, <1>2, <1>4, <2>1, <2>2 DEF TypeOK, local
  <2>4. QueueSide'  BY <1>4, <2>1 DEF IInv, QueueSide
  <2>5. SkillPrepared'  BY <1>1, <2>1, StatesDiffer DEF SkillPrepared
  <2> QED  BY <2>1, <2>3, <2>4, <2>5 DEF IInv
<1> QED  BY <1>3, <1>4 DEF BlendOn

\* A settled preparation or skill is protected and has no hop to follow; nor
\* has passive.
LEMMA Settled ==
  ASSUME IInv, active = Nothing
  PROVE  /\ current \in States /\ Heading = current
         /\ current \notin Baseline => Protected # {} /\ current # Walk /\ queue = <<>>
         /\ current = Passive => queue = <<>>
         /\ queue # <<>> => queue = <<Walk>> /\ current = Fixstand
<1>1. current \in States /\ Heading = current  BY DEF IInv, TypeOK, Heading
<1>2. queue # <<>> => queue = <<Walk>> /\ current = Fixstand
  BY <1>1 DEF IInv, TypeOK, QueueSide
<1>3. current \notin Baseline => current \in {Prep} \cup Skills
  BY <1>1, StatesDiffer
<1>4. current \notin Baseline => Protected # {} /\ current # Walk
  BY <1>3, StatesDiffer DEF Protected, Baseline
<1> QED  BY <1>1, <1>2, <1>4, StatesDiffer DEF Baseline

\* What a settled state is left for.
LEMMA Targeted ==
  ASSUME IInv, active = Nothing, NEW intents \in SUBSET Intents
  PROVE  /\ Hop(intents) => Target(intents) = Walk /\ current = Fixstand /\ Rest(intents) = <<>>
         /\ ~Hop(intents) => Target(intents) = Requested(intents)
         /\ Rest(intents) \in {<<>>, <<Walk>>} /\ (Rest(intents) # <<>> => current = Fixstand)
         /\ Emergency(intents) => Target(intents) = Passive
<1>1. Kept(intents) \in {<<>>, <<Walk>>} /\ (Kept(intents) # <<>> => current = Fixstand)
  BY Settled DEF Kept, IInv, TypeOK
<1>2. Hop(intents) => Kept(intents) = <<Walk>>  BY <1>1 DEF Hop
<1>3. Emergency(intents) => ~Hop(intents) /\ Requested(intents) = Passive
  BY Asking DEF Hop, Kept
<1>4. Hop(intents) => Target(intents) = Walk /\ Rest(intents) = <<>>
  <2>1. Head(<<Walk>>) = Walk /\ Tail(<<Walk>>) = <<>>  OBVIOUS
  <2> QED  BY <1>2, <2>1, Zenon DEF Target, Rest
<1>5. ~Hop(intents) => Target(intents) = Requested(intents) /\ Rest(intents) = Kept(intents)
  BY DEF Target, Rest
<1>6. Hop(intents) => current = Fixstand  BY <1>1 DEF Hop
<1> QED  BY <1>1, <1>3, <1>4, <1>5, <1>6

LEMMA StayKeeps ==
  ASSUME IInv, NEW intents \in SUBSET Intents, NEW ready, Stay(intents, ready)
  PROVE  IInv' /\ Heading' = Heading
<1>1. TypeOK /\ Hear(intents) /\ active = Nothing /\ pending' = PendingAfter(intents)
  BY DEF IInv, Stay
<1>2. /\ pending' \in Skills \cup {Nothing} /\ spec' \in Skills \cup {Nothing}
      /\ stopping' \in BOOLEAN /\ heard' \subseteq Intents
  BY <1>1, HearingTypes
<1>3. /\ UNCHANGED <<current, active, reached>> /\ outcome' = "command"
      /\ Heading' = Heading /\ Heading = current
  BY <1>1 DEF Stay, Run, Heading
<1>4. queue' \in {<<>>, <<Walk>>} /\ (queue' # <<>> => current = Fixstand)
  BY <1>1, Targeted DEF Stay
<1>5. age' \in 0..MaxAge
  BY <1>1, HotSwappingAssumption DEF Stay, Run, Later, TypeOK
<1>6. readySince' \in 0..MaxAge \cup {Nothing}
  BY <1>1 DEF Stay, Run, ReadySince, TypeOK
<1>7. played' \in Nat
  BY <1>1 DEF Stay, Run, TypeOK
<1>8. TypeOK'  BY <1>1, <1>2, <1>3, <1>4, <1>5, <1>6, <1>7 DEF TypeOK
<1>9. QueueSide'  BY <1>3, <1>4 DEF QueueSide
<1>10. SkillPrepared'
  <2>1. ASSUME current \notin Baseline
        PROVE  UNCHANGED <<pending, spec>>
    <3>1. Armed(intents) = {}  BY <2>1, <1>1, Settled, Hearing
    <3>2. ~Emergency(intents)
      BY <2>1, <1>1, Targeted, StatesDiffer DEF Stay, Baseline
    <3> QED  BY <1>1, <3>1, <3>2, Hearing DEF Hear
  <2>2. outcome = "command"  BY <1>1 DEF Hear
  <2> QED  BY <1>3, <2>1, <2>2, StatesDiffer DEF IInv, SkillPrepared, Running
<1> QED  BY <1>3, <1>8, <1>9, <1>10 DEF IInv

LEMMA LeaveKeeps ==
  ASSUME IInv, NEW intents \in SUBSET Intents, NEW ready, Leave(intents, ready)
  PROVE  IInv'
<1> DEFINE T == Target(intents)
<1>1. TypeOK /\ Hear(intents) /\ active = Nothing /\ pending' = PendingAfter(intents)
      /\ current \in States /\ Heading = current /\ reached \in BOOLEAN
  BY DEF IInv, Leave, TypeOK, Heading
<1>2. /\ pending' \in Skills \cup {Nothing} /\ spec' \in Skills \cup {Nothing}
      /\ stopping' \in BOOLEAN /\ heard' \subseteq Intents
  BY <1>1, HearingTypes
<1>3. queue' = Tail(PathTo(current, T)) /\ T # current /\ T # Nothing
  BY DEF Leave, BeginRouted
<1>4. Enter(current, Head(PathTo(current, T)), ready, reached)
  BY DEF Leave, BeginRouted
<1>5. ASSUME NEW t \in {Passive, Fixstand, Walk}, PathTo(current, T) = <<t>>
      PROVE  IInv'
  <2>1. queue' \in {<<>>, <<Walk>>} /\ (queue' # <<>> => t = Fixstand)  BY <1>3, <1>5
  <2>2. Enter(current, t, ready, reached)  BY <1>4, <1>5
  <2>3. t \in States /\ t # Prep /\ t \notin Skills  BY StatesDiffer DEF Baseline
  <2> QED  BY <1>1, <1>2, <2>1, <2>2, <2>3, EnterKeeps
<1>6. CASE T = Passive
  BY <1>1, <1>3, <1>5, <1>6, Routes, StatesDiffer DEF Baseline
<1>7. CASE Hop(intents)
  BY <1>1, <1>3, <1>5, <1>7, Targeted, Routes, StatesDiffer DEF Baseline
<1>8. CASE ~Hop(intents) /\ T = Prep
  <2>1. Armed(intents) # {} /\ current = Walk  BY <1>1, <1>8, Targeted, Asking, Hearing
  <2>2. pending' \in Skills /\ spec' = pending'  BY <1>1, <2>1, Hearing DEF Hear
  <2>3. PathTo(current, T) = <<Prep>>  BY <1>1, <1>3, <1>8, <2>1, Routes, StatesDiffer
  <2>4. queue' \in {<<>>, <<Walk>>} /\ (queue' # <<>> => Prep = Fixstand)  BY <1>3, <2>3
  <2>5. Enter(current, Prep, ready, reached)  BY <1>4, <2>3
  <2>6. Prep \in States /\ Prep \notin Skills  BY StatesDiffer
  <2> QED  BY <1>1, <1>2, <2>2, <2>4, <2>5, <2>6, EnterKeeps
<1>9. CASE ~Hop(intents) /\ T \in {Fixstand, Walk}
  <2>1. ~Emergency(intents) /\ Requested(intents) = T /\ T # Nothing
    BY <1>1, <1>3, <1>9, Targeted, Asking
  <2>2. Protected = {}  BY <2>1, Asking
  <2>3. current \in Baseline  BY <1>1, <2>2, Settled
  <2>4. CASE current = Passive /\ T = Walk
    <3>1. PathTo(current, T) = <<Fixstand, Walk>>
      BY <1>1, <1>3, <2>4, Routes, StatesDiffer DEF Baseline
    <3>2. queue' \in {<<>>, <<Walk>>}  BY <1>3, <3>1
    <3>3. Enter(current, Fixstand, ready, reached)  BY <1>4, <3>1
    <3>4. Fixstand \in States /\ Fixstand # Prep /\ Fixstand \notin Skills
      BY StatesDiffer DEF Baseline
    <3> QED  BY <1>1, <1>2, <3>2, <3>3, <3>4, EnterKeeps
  <2>5. CASE ~(current = Passive /\ T = Walk)
    <3>1. <<current, T>> \in Edges
      BY <1>1, <1>3, <1>9, <2>3, <2>5, Routes, StatesDiffer DEF Baseline
    <3> QED  BY <1>1, <1>3, <1>5, <1>9, <3>1, Routes, StatesDiffer DEF Baseline
  <2> QED  BY <2>4, <2>5
<1> QED  BY <1>1, <1>3, <1>6, <1>7, <1>8, <1>9, Targeted, Asking

LEMMA CompleteKeeps ==
  ASSUME IInv, NEW intents \in SUBSET Intents, NEW ready, Complete(intents, ready)
  PROVE  IInv'
<1>1. TypeOK /\ Hear(intents) /\ active = Nothing /\ Completes(ready) /\ outcome = "command"
  BY DEF IInv, Complete, Hear
<1>2. /\ pending' \in Skills \cup {Nothing} /\ spec' \in Skills \cup {Nothing}
      /\ stopping' \in BOOLEAN /\ heard' \subseteq Intents
  BY <1>1, HearingTypes DEF Complete
<1>3. current \in Skills \/ current = Prep  BY <1>1 DEF Completes
<1>4. /\ current \in States /\ Heading = current /\ current \notin Baseline
      /\ Protected # {} /\ current # Walk /\ queue = <<>>
  BY <1>1, <1>3, Settled, StatesDiffer
<1> DEFINE was == reached \/ current = Prep
<1>5. Enter(current, Successor(intents), ready, was) /\ queue' = queue
  BY DEF Complete
<1>6. was \in BOOLEAN  BY <1>1 DEF TypeOK
<1> HIDE DEF was
<1>7. queue' \in {<<>>, <<Walk>>} /\ queue' = <<>>  BY <1>4, <1>5
<1>8. CASE Successor(intents) \in {Passive, Walk}
  <2>1. /\ Successor(intents) \in States /\ Successor(intents) # Prep
        /\ Successor(intents) \notin Skills
    BY <1>8, StatesDiffer DEF Baseline
  <2> QED  BY <1>1, <1>2, <1>4, <1>5, <1>6, <1>7, <2>1, EnterKeeps
<1>9. CASE ~Emergency(intents) /\ current = Prep
  <2>1. Armed(intents) = {}  BY <1>4, Hearing
  <2>2. pending \in Skills /\ spec = pending
    BY <1>1, <1>4, <1>9 DEF IInv, SkillPrepared, Running
  <2>3. Prep \notin Skills  BY StatesDiffer
  <2>4. pending' = pending /\ spec' = spec /\ PendingAfter(intents) = pending
    BY <1>1, <1>9, <2>1, <2>3, Hearing DEF Hear, Complete
  <2>5. Successor(intents) = pending  BY <1>9, <2>4 DEF Successor
  <2>6. was = TRUE  BY <1>9 DEF was
  <2>7. pending \in States /\ pending # Prep  BY <2>2, StatesDiffer
  <2>8. Enter(current, pending, ready, was)  BY <1>5, <2>5
  <2> QED  BY <1>1, <1>2, <1>4, <1>6, <1>7, <2>2, <2>4, <2>6, <2>7, <2>8, EnterKeeps
<1> QED  BY <1>3, <1>8, <1>9 DEF Successor

-----------------------------------------------------------------------------
(* The theorems.                                                           *)

LEMMA Starts == Init => IInv
<1> SUFFICES ASSUME Init  PROVE IInv
  OBVIOUS
<1>1. Heading = current /\ current \in Baseline /\ current \in States
  BY StatesDiffer DEF Init, Heading
<1>2. queue \in {<<>>, <<Walk>>} /\ active \in Blends \cup {Nothing}  BY DEF Init
<1>3. TypeOK
  <2>1. age \in 0..MaxAge  BY MaxAgePositive DEF Init
  <2>2. played \in Nat  BY DEF Init
  <2>3. /\ pending \in Skills \cup {Nothing} /\ spec \in Skills \cup {Nothing}
        /\ readySince \in 0..MaxAge \cup {Nothing}
    BY DEF Init
  <2>4. reached \in BOOLEAN /\ stopping \in BOOLEAN  BY DEF Init
  <2>5. outcome = "command" /\ heard \subseteq Intents  BY DEF Init
  <2> QED  BY <1>1, <1>2, <2>1, <2>2, <2>3, <2>4, <2>5 DEF TypeOK
<1>4. QueueSide  BY DEF Init, QueueSide
<1>5. SkillPrepared  BY <1>1, StatesDiffer DEF SkillPrepared
<1> QED  BY <1>3, <1>4, <1>5 DEF IInv

LEMMA FailingKeeps ==
  ASSUME IInv, NEW intents \in SUBSET Intents, NEW ready,
         Refuse(intents) \/ Break(intents, ready)
  PROVE  IInv' /\ Heading' = Heading
<1>1. CASE Refuse(intents)
  BY <1>1, FailKeeps DEF Refuse, skill, IInv, TypeOK, Fail, machine, Heading
<1>2. CASE Break(intents, ready)
  <2>1. Fail("error") /\ Hear(intents) /\ pending' = PendingAfter(intents) /\ TypeOK
    BY <1>2 DEF Break, IInv
  <2> QED  BY <2>1, HearingTypes, FailKeeps DEF Fail, machine, Heading
<1> QED  BY <1>1, <1>2

LEMMA StopKeeps ==
  ASSUME IInv, RequestStop \/ StopCall
  PROVE  IInv' /\ Heading' = Heading
<1>1. CASE RequestStop
  <2>1. Heading' = Heading  BY <1>1 DEF RequestStop, machine, Heading
  <2> QED  BY <1>1, <2>1 DEF RequestStop, machine, skill, local, IInv, TypeOK,
                            QueueSide, SkillPrepared, Running
<1>2. CASE StopCall
  BY <1>2, FailKeeps DEF StopCall, skill, IInv, TypeOK, Fail, machine, Heading
<1> QED  BY <1>1, <1>2

LEMMA StepKeeps ==
  ASSUME IInv, [Next]_vars
  PROVE  IInv'
<1>1. ASSUME NEW intents \in Gestures, NEW ready \in BOOLEAN, Call(intents, ready)
      PROVE  IInv'
  <2>1. intents \in SUBSET Intents  BY GesturesAssumption
  <2> QED  BY <1>1, <2>1, FailingKeeps, PreemptKeeps, BlendOnKeeps, StayKeeps, LeaveKeeps,
              CompleteKeeps DEF Call
<1>2. CASE RequestStop \/ StopCall  BY <1>2, StopKeeps
<1>3. CASE UNCHANGED vars
  BY <1>3 DEF vars, machine, skill, local, IInv, TypeOK, QueueSide, SkillPrepared, Running, Heading
<1> QED  BY <1>1, <1>2, <1>3 DEF Next

\* Whatever is pressed and whatever the robot measures, the machine, its queue
\* and its bookkeeping keep to their values.
THEOREM TypeCorrect == Spec => []TypeOK
<1>1. IInv => TypeOK  BY DEF IInv
<1> QED  BY <1>1, Starts, StepKeeps, PTL DEF Spec

\* A skill runs only after the preparation made for it reported the robot
\* ready, and a preparation always has a skill to hand over to.
THEOREM SkillsArePrepared == Spec => []SkillPrepared
<1>1. IInv => SkillPrepared  BY DEF IInv
<1> QED  BY <1>1, Starts, StepKeeps, PTL DEF Spec

\* Out of passive leads only a call that hears a request and no emergency.
LEMMA LeavePassive ==
  ASSUME IInv, NEW intents \in Gestures, NEW ready \in BOOLEAN, Call(intents, ready),
         Heading = Passive, Heading' # Passive
  PROVE  heard' \cap DOMAIN TargetOf # {} /\ ~Emergency(heard')
<1>1. intents \in SUBSET Intents  BY GesturesAssumption
<1>2. ~Preempt(intents, ready)  BY BlendTarget DEF Preempt, IInv
<1>3. ~(Refuse(intents) \/ BlendOn(intents) \/ Stay(intents, ready) \/ Break(intents, ready))
  BY <1>1, FailingKeeps, BlendOnKeeps, StayKeeps
<1>4. ~Complete(intents, ready)
  <2>1. SUFFICES ASSUME active = Nothing, current \in Skills \/ current = Prep  PROVE FALSE
    BY DEF Complete, Completes
  <2> QED  BY <2>1, StatesDiffer DEF Heading, Baseline
<1>5. Leave(intents, ready)  BY <1>2, <1>3, <1>4 DEF Call
<1>6. active = Nothing /\ heard' = intents /\ Target(intents) \notin {Nothing, current}
  BY <1>5 DEF Leave, Hear
<1>7. current = Passive  BY <1>6 DEF Heading
<1>8. ~Hop(intents)  BY <1>1, <1>6, <1>7, Targeted, StatesDiffer
<1>9. Requested(intents) = Target(intents)  BY <1>1, <1>6, <1>8, Targeted
<1>10. Armed(intents) = {}  BY <1>1, <1>7, Hearing, StatesDiffer
<1>11. Requested(intents) \in {Fixstand, Walk}
  BY <1>1, <1>6, <1>7, <1>9, <1>10, Asking
<1> QED  BY <1>1, <1>6, <1>11, Asking

\* Once in passive, or on the way there, the robot gets out again only by a
\* request made then: no queued hop and no pending skill takes it out.
THEOREM PassiveIsLeftOnRequest == Spec => PassiveUntilAsked
<1>1. ASSUME IInv, [Next]_vars
      PROVE  [Heading = Passive /\ Heading' # Passive
                => heard' \cap DOMAIN TargetOf # {} /\ ~Emergency(heard')]_vars
  <2> SUFFICES ASSUME Next, Heading = Passive, Heading' # Passive
               PROVE  heard' \cap DOMAIN TargetOf # {} /\ ~Emergency(heard')
    BY <1>1
  <2>1. ~(RequestStop \/ StopCall)  BY <1>1, StopKeeps
  <2> QED  BY <1>1, <2>1, LeavePassive DEF Next
<1> QED  BY <1>1, Starts, StepKeeps, PTL DEF Spec, PassiveUntilAsked
=============================================================================
