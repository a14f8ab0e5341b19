--------------------------- MODULE MCHotSwapping ---------------------------
(***************************************************************************)
(* An instance of HotSwapping with two skills.  The first is prepared with *)
(* no ramp and no settling time, so that it can be ready at the step that  *)
(* enters the preparation; the second has to settle, and may time out.     *)
(***************************************************************************)
EXTENDS HotSwapping

CONSTANTS s1, s2

MCSkills  == {s1, s2}
MCSteps   == [s \in MCSkills |-> IF s = s1 THEN 1 ELSE 2]
MCRamp    == [s \in MCSkills |-> IF s = s1 THEN 0 ELSE 1]
MCSettle  == [s \in MCSkills |-> IF s = s1 THEN 0 ELSE 1]
MCTimeout == [s \in MCSkills |-> IF s = s1 THEN 1 ELSE 3]
MCMaxAge  == 4

\* The blend out of passive adapts its duration, the others are fixed.
MCBlend ==
  [e \in {<<"passive", "fixstand">>, <<"fixstand", "walk">>, <<"walk", "fixstand">>}
           \cup (({"fixstand", "walk", "skill_preparation"} \cup MCSkills) \X {"passive"})
     |-> IF e[1] = "passive" THEN {1, 3} ELSE {2}]

\* Nothing pressed, one button, or two at once; the two emergency intents
\* are told apart only alone.
MCGestures ==
  {{"request_emergency"}}
    \cup {g \in SUBSET ({"request_passive", "request_fixstand", "request_walk"} \cup MCSkills) :
            Cardinality(g) <= 2}

\* No two hops of the baseline graph lead where two others do.
ASSUME RoutesAreUnique ==
  Cardinality({m \in States : <<Passive, m>> \in Edges /\ <<m, Walk>> \in Edges}) = 1
=============================================================================
