--------------------------- MODULE CountDownLatch ---------------------------
(***************************************************************************)
(* CountDownLatch (base/countdownlatch.cc): threads wait until it has been *)
(* counted down to 0.  Testing count_ and waiting are one step, since wait *)
(* releases the mutex.                                                     *)
(***************************************************************************)
EXTENDS Integers

VARIABLES count_,    \* what is left to count down
          condition_ \* threads waiting on condition_

latchvars == <<count_, condition_>>

LatchInit(count) ==
    /\ count_ = count
    /\ condition_ = {}

\* Mutant: one thread is notified.
CountDownNotifyOne ==
    /\ count_' = count_ - 1
    /\ IF count_' = 0 /\ condition_ # {}
         THEN \E t \in condition_ : condition_' = condition_ \ {t}
         ELSE UNCHANGED condition_

\* countDown, with its notify_all.
CountDown ==
    /\ count_' = count_ - 1
    /\ condition_' = IF count_' = 0 THEN {} ELSE condition_

\* wait, by a thread that need not wait (any more), and by one that must.
WaitOver(t) ==
    /\ t \notin condition_
    /\ count_ <= 0
    /\ UNCHANGED latchvars

WaitForCount(t) ==
    /\ t \notin condition_
    /\ count_ > 0
    /\ condition_' = condition_ \cup {t}
    /\ UNCHANGED count_

LatchSpuriousWakeup(t) ==
    /\ t \in condition_
    /\ condition_' = condition_ \ {t}
    /\ UNCHANGED count_
=============================================================================
