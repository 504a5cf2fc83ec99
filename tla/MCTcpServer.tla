---------------------------- MODULE MCTcpServer ----------------------------
(* TcpServer for TLC: connections are interchangeable in the safety runs.   *)
EXTENDS TcpServer, TLC

ConnSymmetry == Permutations(Conns)
=============================================================================
