---------------------------- MODULE MCGo2Session ----------------------------
(***************************************************************************)
(* The Go2 session has no parameters: its state space is checked whole.    *)
(***************************************************************************)
EXTENDS Go2Session
=============================================================================
