--------------------------- MODULE MCWeightChannel --------------------------
(***************************************************************************)
(* TLC instance of WeightChannel: two words of parameters and one of       *)
(* statistics are enough for a copy to be torn across them, four publishes *)
(* for both slots to be overwritten during one read and once more during   *)
(* the retry.                                                              *)
(***************************************************************************)
EXTENDS WeightChannel

MCParamWords == {"p0", "p1"}
MCStatWords  == {"stats"}
MCTransports == {"host", "ipc"}
MCIpcOnly    == {"ipc"}
MCMaxVersion == 4
=============================================================================
