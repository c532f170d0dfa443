------------------------- MODULE MCEventLoopThread -------------------------
(* EventLoopThread, and the EventLoop in it, for TLC.                       *)
EXTENDS EventLoopThread
=============================================================================
