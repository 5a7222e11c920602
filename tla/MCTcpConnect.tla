---------------------------- MODULE MCTcpConnect ----------------------------
(* TLC instance of TcpConnect: its model values.                           *)
EXTENDS TcpConnect

CONSTANTS t1,  \* a thread that does not own the loop
          loop \* the loop's thread

Lengths == <<4, 2>>
FullLengths == <<2, 2>>
=============================================================================
