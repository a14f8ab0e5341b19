-------------------------- MODULE MCTransitionRing --------------------------
(***************************************************************************)
(* TLC instance of TransitionRing: fewer rows than slots x environments,   *)
(* so that the final-row store fills before the slots do, and enough env   *)
(* steps for both to wrap.                                                 *)
(***************************************************************************)
EXTENDS TransitionRing

MCCapacity == 4
MCNumEnvs  == 2
MCMaxSteps == 6
=============================================================================
