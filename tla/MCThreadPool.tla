---------------------------- MODULE MCThreadPool ----------------------------
(* TLC instance of ThreadPool: its model values.                           *)
EXTENDS ThreadPool

CONSTANTS d1, d2,    \* clients
          w1, w2, w3 \* workers
=============================================================================
