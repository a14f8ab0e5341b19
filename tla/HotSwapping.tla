----------------------------- MODULE HotSwapping -----------------------------
(***************************************************************************)
(* RobotHotSwappingController (runtime/hot_swapping.py) with the state     *)
(* machine it extends (runtime/state_machine.py), the shared preparation   *)
(* state (runtime/preparation.py) and the baseline and skill states of the *)
(* G1 program (state_machines/g1_states.py).                               *)
(*                                                                         *)
(* One step is one call of step(): the operator's buttons and the measured *)
(* robot are inputs, and the call may fail wherever a policy, a processor  *)
(* or a check may raise.  Time is counted in calls.  Commands are left out *)
(* (_last_command is set by the first call, which no state can complete).  *)
(***************************************************************************)
EXTENDS Integers, Sequences, FiniteSets

CONSTANTS Skills,    \* names of the finite skill modules
          Steps,     \* per skill: policy steps until its motion has played out
          Blend,     \* smooth edge -> the durations its transition may take
          Ramp,      \* per skill: ramp_duration_s of its preparation
          Settle,    \* per skill: settle_duration_s
          Timeout,   \* per skill: timeout_s
          Gestures,  \* the sets of intents one call may find
          MaxAge,    \* bound: calls counted since a state was entered
          Nothing    \* Python's None

Passive  == "passive"
Fixstand == "fixstand"
Walk     == "walk"
Prep     == "skill_preparation"
Baseline == {Passive, Fixstand, Walk}
States   == Baseline \cup {Prep} \cup Skills

\* A running blend (_active).
Blends == [target : Baseline, duration : 1..MaxAge]

ASSUME HotSwappingAssumption ==
  /\ IsFiniteSet(Skills) /\ Skills \cap (Baseline \cup {Prep}) = {}
  /\ Nothing \notin States /\ Nothing \notin Blends
  /\ Steps \in [Skills -> Nat \ {0}]
  /\ Ramp \in [Skills -> Nat] /\ Settle \in [Skills -> Nat]
  /\ Timeout \in [Skills -> Nat \ {0}]
  /\ MaxAge \in Nat /\ \A s \in Skills : MaxAge > Timeout[s]

\* The edges whose transition is Immediate, and those blended over time.
ImmediateEdges == ({Walk} \X {Prep}) \cup ({Prep} \X Skills) \cup (Skills \X {Walk})
SmoothEdges == {<<Passive, Fixstand>>, <<Fixstand, Walk>>, <<Walk, Fixstand>>}
                 \cup ((States \ {Passive}) \X {Passive})
Edges == ImmediateEdges \cup SmoothEdges

ASSUME BlendAssumption ==
  /\ DOMAIN Blend = SmoothEdges
  /\ \A e \in SmoothEdges : Blend[e] # {} /\ Blend[e] \subseteq 1..MaxAge

\* The durations of the transition created for an edge; an Immediate one is
\* complete at its first step.
Durations(e) == IF e \in SmoothEdges THEN Blend[e] ELSE {0}

(* _path_to: the shortest route.  The routes of this graph that a request  *)
(* can ask for have at most two hops, and no rival of the same length.     *)
PathTo(s, t) ==
  IF s = t THEN <<>>
  ELSE IF <<s, t>> \in Edges THEN <<t>>
  ELSE <<CHOOSE m \in States : <<s, m>> \in Edges /\ <<m, t>> \in Edges, t>>

VARIABLES
  current,   \* _current
  active,    \* _active: Nothing, or the target and duration of the running blend
  queue,     \* _queued_targets
  age,       \* calls since _state_origin_s, which is also the blend's origin_s
  pending,   \* _pending_skill
  spec,      \* preparation._spec: the skill whose contract is selected
  readySince,\* preparation._ready_since
  reached,   \* preparation._reached_ready
  played,    \* policy steps the running skill has completed
  stopping,  \* _stop_requested
  outcome,   \* what the last call of step() came to
  heard      \* history: the operator's intents at the last call

machine == <<current, active, queue>>
skill   == <<pending, spec>>
local   == <<readySince, reached, played>>
vars    == <<machine, age, skill, local, stopping, outcome, heard>>

\* The state the robot is in, or on its way to.
Heading == IF active = Nothing THEN current ELSE active.target

Init ==
  /\ current \in Baseline \* initial_state
  /\ active = Nothing /\ queue = <<>> /\ age = 0
  /\ pending = Nothing /\ spec = Nothing
  /\ readySince = Nothing /\ reached = FALSE /\ played = 0
  /\ stopping = FALSE /\ outcome = "command" /\ heard = {}

-----------------------------------------------------------------------------
(* _target_from_intents.  A skill's request intent is named by the skill.  *)

EmergencyIntents == {"request_passive", "request_emergency"}
TargetOf == [request_fixstand |-> Fixstand, request_walk |-> Walk]
Intents  == EmergencyIntents \cup DOMAIN TargetOf \cup Skills

ASSUME GesturesAssumption == Gestures \subseteq SUBSET Intents

Emergency(intents) == intents \cap EmergencyIntents # {}
Targets(intents)   == {TargetOf[i] : i \in intents \cap DOMAIN TargetOf}

\* Only emergencies are heard in, or on the way to, these.
Protected == {current, Heading} \cap ({Prep} \cup Skills)

\* More than one transition is asked for: a ValidationError.
Ambiguous(intents) ==
  /\ ~Emergency(intents)
  /\ \/ Cardinality(Targets(intents)) > 1
     \/ /\ Protected = {}
        /\ Cardinality(Targets(intents) \cup (intents \cap Skills)) > 1

\* The skill this call arms: only from stable locomotion.
Armed(intents) ==
  IF Emergency(intents) \/ Protected # {} \/ current # Walk \/ active # Nothing
  THEN {} ELSE intents \cap Skills

\* Mutant: the preparation and the skills may be left on request.
RequestedUnprotected(intents) ==
  IF Emergency(intents) THEN Passive
  ELSE IF Armed(intents) # {} THEN Prep
  ELSE IF intents \cap Skills # {} \/ Targets(intents) = {} THEN Nothing
  ELSE CHOOSE t \in Targets(intents) : TRUE

Requested(intents) ==
  IF Emergency(intents) THEN Passive
  ELSE IF Protected # {} THEN Nothing
  ELSE IF Armed(intents) # {} THEN Prep
  ELSE IF intents \cap Skills # {} \/ Targets(intents) = {} THEN Nothing
  ELSE CHOOSE t \in Targets(intents) : TRUE

\* _pending_skill and the selected contract once the intents have been read.
PendingAfter(intents) ==
  IF Emergency(intents) THEN Nothing
  ELSE IF Armed(intents) # {} THEN CHOOSE s \in Armed(intents) : TRUE ELSE pending
SpecAfter(intents) ==
  IF Armed(intents) # {} THEN CHOOSE s \in Armed(intents) : TRUE ELSE spec

-----------------------------------------------------------------------------
(* The states' own steps.                                                  *)

\* _ready_since after a step of sp's preparation, e after its reset.
ReadySince(since, sp, e, ready) ==
  IF ~ready \/ e < Ramp[sp] THEN Nothing ELSE IF since = Nothing THEN e ELSE since

\* Ready for the settling time, and not only after the timeout.
Prepared(since, was, sp, e) ==
  since # Nothing /\ e - since >= Settle[sp] /\ (was \/ e <= Timeout[sp])

\* The current state is done and gives no command.
Completes(ready) ==
  \/ current \in Skills /\ played >= Steps[current]
  \/ current = Prep /\ Prepared(ReadySince(readySince, spec, age, ready), reached, spec, age)

\* Mutant: a preparation waits as long as it takes.
NeverTimesOut(ready) == FALSE /\ ready

TimesOut(ready) ==
  current = Prep /\ ~Completes(ready) /\ ~reached /\ age >= Timeout[spec]

\* A call later.  Nothing depends on an age beyond every duration.
Later == IF age < MaxAge THEN age + 1 ELSE age

\* Passive and fixstand only copy arrays; the others check, infer or measure.
MayFail(s) == s \notin {Passive, Fixstand}

\* The current state gives a command.
Run(ready) ==
  /\ age' = Later
  /\ readySince' = IF current = Prep THEN ReadySince(readySince, spec, age, ready)
                   ELSE readySince
  /\ played' = IF current \in Skills THEN played + 1 ELSE played
  /\ UNCHANGED reached

\* step() raises or reports an error: the session ends with it.
Fail(why) == outcome' = why /\ UNCHANGED <<machine, age, local>>

-----------------------------------------------------------------------------
(* Transitions.                                                            *)

\* The blend over an edge is created and takes its first step.
Take(from, t) ==
  \E d \in Durations(<<from, t>>) :
    IF d = 0 THEN current' = t /\ active' = Nothing
    ELSE current' = from /\ active' = [target |-> t, duration |-> d]

\* _begin_transition: t is reset and steps once.  A preparation that is done
\* at that step hands over to the skill at once.  was is _reached_ready so far.
Enter(from, t, ready, was) ==
  /\ age' = 1 /\ outcome' = "command"
  /\ \/ t \in Baseline /\ Take(from, t) /\ reached' = was /\ UNCHANGED <<readySince, played>>
     \/ t \in Skills /\ Take(from, t) /\ reached' = was /\ played' = 1 /\ UNCHANGED readySince
     \/ /\ t = Prep
        /\ readySince' = ReadySince(Nothing, spec', 0, ready)
        /\ reached' = Prepared(readySince', FALSE, spec', 0)
        /\ IF reached' THEN Take(Prep, pending') /\ played' = 1
           ELSE Take(from, Prep) /\ UNCHANGED played

\* Mutant: the hop being taken stays queued.
BeginRoutedKeepingHop(from, t, ready) ==
  LET path == PathTo(from, t)
  IN  queue' = path /\ Enter(from, Head(path), ready, reached)

\* _begin_routed_transition.  (What a state that is left had counted does not
\* matter: its reset comes before its next step.)
BeginRouted(from, t, ready) ==
  LET path == PathTo(from, t) IN queue' = Tail(path) /\ Enter(from, Head(path), ready, reached)

-----------------------------------------------------------------------------
(* One call of step().                                                     *)

\* The intents are read and are legal.
Hear(intents) ==
  /\ outcome = "command" /\ ~stopping /\ ~Ambiguous(intents)
  /\ heard' = intents /\ spec' = SpecAfter(intents) /\ UNCHANGED stopping

Refuse(intents) ==
  /\ outcome = "command" /\ ~stopping /\ Ambiguous(intents)
  /\ heard' = intents /\ Fail("invalid") /\ UNCHANGED <<skill, stopping>>

\* Mutant: an emergency during a blend keeps the rest of the route.
PreemptKeepingRoute(intents, ready) ==
  /\ Hear(intents) /\ active # Nothing /\ active.target # Passive /\ Emergency(intents)
  /\ pending' = PendingAfter(intents)
  /\ Enter(active.target, Passive, ready, reached) /\ UNCHANGED queue

\* An emergency breaks off a blend to another state.
Preempt(intents, ready) ==
  /\ Hear(intents) /\ active # Nothing /\ active.target # Passive /\ Emergency(intents)
  /\ pending' = PendingAfter(intents)
  /\ BeginRouted(active.target, Passive, ready)

\* Mutant: a blend is played out whatever is asked.
BlendRegardless(intents) ==
  /\ Hear(intents) /\ active # Nothing /\ pending' = PendingAfter(intents)
  /\ outcome' = "command" /\ age' = Later /\ UNCHANGED <<queue, local>>
  /\ IF age >= active.duration THEN current' = active.target /\ active' = Nothing
     ELSE UNCHANGED <<current, active>>

\* The blend goes on towards the live target.
BlendOn(intents) ==
  /\ Hear(intents) /\ active # Nothing /\ (Emergency(intents) => active.target = Passive)
  /\ pending' = PendingAfter(intents)
  /\ \/ MayFail(active.target) /\ Fail("error")
     \/ /\ outcome' = "command" /\ age' = Later /\ UNCHANGED <<queue, local>>
        /\ IF age >= active.duration THEN current' = active.target /\ active' = Nothing
           ELSE UNCHANGED <<current, active>>

\* What a settled state is left for: the request, else the next queued hop.
Kept(intents) == IF Emergency(intents) THEN <<>> ELSE queue
Hop(intents)  == Requested(intents) = Nothing /\ Kept(intents) # <<>>
Target(intents) == IF Hop(intents) THEN Head(Kept(intents)) ELSE Requested(intents)
Rest(intents)   == IF Hop(intents) THEN Tail(Kept(intents)) ELSE Kept(intents)

\* The current state goes on: nothing is asked for, or what it already is.
Stay(intents, ready) ==
  /\ Hear(intents) /\ active = Nothing /\ ~Completes(ready) /\ ~TimesOut(ready)
  /\ Target(intents) \in {Nothing, current}
  /\ pending' = PendingAfter(intents)
  /\ queue' = Rest(intents) /\ Run(ready) /\ outcome' = "command"
  /\ UNCHANGED <<current, active>>

\* It is left for the first hop of the route to the target.
Leave(intents, ready) ==
  /\ Hear(intents) /\ active = Nothing /\ ~Completes(ready) /\ ~TimesOut(ready)
  /\ Target(intents) \notin {Nothing, current}
  /\ pending' = PendingAfter(intents)
  /\ BeginRouted(current, Target(intents), ready)

\* Where a state that is done leads: an emergency comes before the skill.
Successor(intents) ==
  IF Emergency(intents) THEN Passive
  ELSE IF current = Prep THEN PendingAfter(intents) ELSE Walk

\* _completion_target, and the transition to it.
Complete(intents, ready) ==
  /\ Hear(intents) /\ active = Nothing /\ Completes(ready)
  /\ pending' = IF current \in Skills THEN Nothing ELSE PendingAfter(intents)
  /\ Enter(current, Successor(intents), ready, reached \/ current = Prep)
  /\ UNCHANGED queue

\* The current state, or the one it is left for, raises or times out.
Break(intents, ready) ==
  /\ Hear(intents) /\ active = Nothing
  /\ \/ MayFail(current) \/ Target(intents) \notin {Nothing, Passive, Fixstand}
  /\ pending' = PendingAfter(intents)
  /\ Fail("error")

\* request_stop(), and the call that answers it.
RequestStop ==
  /\ outcome = "command" /\ ~stopping /\ stopping' = TRUE
  /\ UNCHANGED <<machine, age, skill, local, outcome, heard>>
StopCall ==
  /\ outcome = "command" /\ stopping /\ Fail("complete")
  /\ UNCHANGED <<skill, stopping, heard>>

Call(intents, ready) ==
  \/ Refuse(intents) \/ Preempt(intents, ready) \/ BlendOn(intents)
  \/ Stay(intents, ready) \/ Leave(intents, ready)
  \/ Complete(intents, ready) \/ Break(intents, ready)

Next ==
  \/ \E intents \in Gestures, ready \in BOOLEAN : Call(intents, ready)
  \/ RequestStop \/ StopCall

\* The session calls step() once per control period until it is done.
Fairness == WF_vars(StopCall \/ \E intents \in Gestures, ready \in BOOLEAN : Call(intents, ready))

Spec == Init /\ [][Next]_vars /\ Fairness

-----------------------------------------------------------------------------
(* Properties.                                                             *)

TypeOK ==
  /\ current \in States
  /\ active \in Blends \cup {Nothing}
  /\ queue \in {<<>>, <<Walk>>}
  /\ age \in 0..MaxAge
  /\ pending \in Skills \cup {Nothing} /\ spec \in Skills \cup {Nothing}
  /\ readySince \in 0..MaxAge \cup {Nothing} /\ reached \in BOOLEAN
  /\ played \in Nat
  /\ stopping \in BOOLEAN
  /\ outcome \in {"command", "error", "invalid", "complete"}
  /\ heard \subseteq Intents

Running == outcome = "command"

(* A skill runs only with itself pending, after the preparation selected   *)
(* for it has reported that the robot is ready: no chain of requests,      *)
(* emergencies and completions brings another skill in, or an unprepared   *)
(* one (hot_swapping.py:114-144).  While the preparation runs there is a   *)
(* skill to hand over to, so line 139 never raises.                        *)
SkillPrepared ==
  Running => /\ Heading \in Skills => reached /\ pending = Heading /\ spec = Heading
             /\ Heading = Prep => pending \in Skills /\ spec = pending

(* Once the robot is in the passive state, or on its way there, only the   *)
(* operator gets it out again, by a request made then and not together     *)
(* with an emergency: no hop left over from an earlier route and no skill  *)
(* still pending does (state_machine.py:340-346, 370-376).                 *)
PassiveUntilAsked ==
  [][Heading = Passive /\ Heading' # Passive
       => heard' \cap DOMAIN TargetOf # {} /\ ~Emergency(heard')]_vars

(* An emergency request, whatever it comes into - a blend, a preparation,  *)
(* a skill, the middle of a route -, ends in the settled passive state     *)
(* unless the session ends first.                                          *)
EmergencyLands ==
  Emergency(heard) ~> (current = Passive /\ active = Nothing) \/ ~Running

(* A preparation or a skill does not keep the robot: it ends in walking,   *)
(* in passive or with the session, however the measurements fluctuate.     *)
SkillReturns ==
  current \in Skills \cup {Prep} ~> Heading \in {Walk, Passive} \/ ~Running

=============================================================================
