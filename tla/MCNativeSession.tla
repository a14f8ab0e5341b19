--------------------------- MODULE MCNativeSession ---------------------------
(***************************************************************************)
(* The native session has no parameters: its state space is checked whole. *)
(***************************************************************************)
EXTENDS NativeSession
=============================================================================
