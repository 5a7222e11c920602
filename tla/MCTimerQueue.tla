---------------------------- MODULE MCTimerQueue ----------------------------
(* TLC instance of TimerQueue: its model values.                           *)
EXTENDS TimerQueue

CONSTANTS t1, t2, \* threads that do not own the loop
          loop    \* the loop's thread
=============================================================================
