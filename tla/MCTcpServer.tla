---------------------------- MODULE MCTcpServer -----------------------------
(* TcpServer and EventLoopThread for TLC.                                  *)
EXTENDS TcpServer

Functors == {"est", "des"} \X Conn
=============================================================================
