----------------------------- MODULE MCIpcRing ------------------------------
(***************************************************************************)
(* TLC instance of IpcRing: one environment, so that three unreleased      *)
(* steps fill the row store before four slots are taken, and enough env    *)
(* steps for slots and rows to wrap.                                       *)
(***************************************************************************)
EXTENDS IpcRing

MCCapacity == 4
MCNumEnvs  == 1
MCMaxSteps == 6
=============================================================================
