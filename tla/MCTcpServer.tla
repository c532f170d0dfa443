---------------------------- MODULE MCTcpServer ----------------------------
(* TcpServer for TLC: a pool of up to two loops, two clients.               *)
EXTENDS TcpServer
=============================================================================
