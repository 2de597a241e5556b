------------------------ MODULE MCBluetoothChatService ------------------------
(* Small instances of BluetoothChatService for TLC. *)
EXTENDS BluetoothChatService, TLC

CONSTANTS s1, s2, s3, a1, a2, a3, a4, d1, d2

MCRemote == [s \in Socket |-> d1]
Symmetric == Permutations(Socket) \cup Permutations(AcceptThreads)
=============================================================================
