---------------------------- MODULE MCTcpServer ----------------------------
(* TLC instance of TcpServer: a number of threads that gives no loop, the   *)
(* main loop alone, and two loops.                                          *)
EXTENDS TcpServer

Threads == {-1, 0, 2}
=============================================================================
