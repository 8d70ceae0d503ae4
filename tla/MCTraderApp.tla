---------------------------- MODULE MCTraderApp -----------------------------
(* The trader with two channels and queues of two frames, for TLC.         *)
EXTENDS TraderApp
=============================================================================
