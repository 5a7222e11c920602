---------------------------- MODULE MCEventLoop -----------------------------
(* TLC instance of EventLoop: its model values.                            *)
EXTENDS EventLoop

CONSTANTS t1, t2, t3, \* threads
          c1, c2      \* channels
=============================================================================
