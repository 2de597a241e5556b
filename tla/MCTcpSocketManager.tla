-------------------------- MODULE MCTcpSocketManager --------------------------
(* Small instances of TcpSocketManager for TLC. *)
EXTENDS TcpSocketManager, TLC

CONSTANTS t1, t2, t3

ThreadSymmetry == Permutations(Thread)
=============================================================================
