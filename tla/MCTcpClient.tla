---------------------------- MODULE MCTcpClient ----------------------------
(* TcpClient and Connector for TLC; the configurations choose the usage.    *)
EXTENDS TcpClient
=============================================================================
