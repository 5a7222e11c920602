-------------------------- MODULE MCBlockQueueTest --------------------------
(* TLC instance of BlockQueueTest: its model values.                       *)
EXTENDS BlockQueueTest

CONSTANTS p1, p2, p3, \* producers
          c1, c2, c3  \* consumers
=============================================================================
