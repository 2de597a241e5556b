------------------------------ MODULE MCGPSChat ------------------------------
(* The instance of GPSChat for TLC: it has no constants and is finite. *)
EXTENDS GPSChat
=============================================================================
