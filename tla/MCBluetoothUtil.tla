--------------------------- MODULE MCBluetoothUtil ---------------------------
(* Small instances of BluetoothUtil for TLC. *)
EXTENDS BluetoothUtil, TLC

CONSTANTS s1, s2, a1, a2, a3, d1, d2, c1, c2

(* two devices, one socket identity each *)
MCRemote == s1 :> d1 @@ s2 :> d2
Symmetric == Permutations(AcceptThreads) \cup Permutations(Chunk)
=============================================================================
