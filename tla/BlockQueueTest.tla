--------------------------- MODULE BlockQueueTest ---------------------------
(***************************************************************************)
(* The program of test/blockqueue.cc, which is how the queue and the latch *)
(* are meant to be used together: consumers count the latch down and then  *)
(* pop until they get a "stop"; run() waits for the latch and pushes; and  *)
(* joinall() pushes a "stop" for each consumer and joins them.  Several    *)
(* threads may call run(), and Main calls joinall() when all have returned.*)
(* The test uses a BoundedBlockingQueue; the same program is checked over  *)
(* a BlockingQueue.                                                        *)
(***************************************************************************)
EXTENDS BlockQueue, CountDownLatch

CONSTANTS Main,  \* the producer that calls joinall
          Pushes \* how many elements each run() pushes

ASSUME TestAssumption == Main \in Producers /\ Pushes \in Nat

VARIABLES started, \* consumers that have counted down, and producers that
                   \* have returned from the latch's wait
          left,    \* how many elements each producer is yet to push
          stops,   \* elements after this one are "stop", when joining
          joining, \* whether Main is in joinall
          done     \* consumers that got their "stop"

testvars == <<started, left, stops, joining, done>>
vars == <<queuevars, latchvars, testvars>>

TypeOK ==
    /\ QueueOK
    /\ count_ \in 0..Cardinality(Consumers)
    /\ condition_ \subseteq Producers
    /\ started \subseteq Producers \cup Consumers
    /\ left \in [Producers -> Nat]
    /\ stops \in Nat
    /\ joining \in BOOLEAN
    /\ done \subseteq Consumers

Init ==
    /\ QueueInit
    /\ LatchInit(Cardinality(Consumers))
    /\ started = {}
    /\ left = [p \in Producers |-> Pushes]
    /\ stops = 0
    /\ joining = FALSE
    /\ done = {}

-----------------------------------------------------------------------------
\* The latch: func's countDown, and run's wait.
Start(c) ==
    /\ c \notin started
    /\ CountDown
    /\ started' = started \cup {c}
    /\ UNCHANGED <<queuevars, left, stops, joining, done>>

PassLatch(p) ==
    /\ p \notin started
    /\ WaitOver(p)
    /\ started' = started \cup {p}
    /\ UNCHANGED <<queuevars, left, stops, joining, done>>

BlockOnLatch(p) ==
    /\ p \notin started
    /\ WaitForCount(p)
    /\ UNCHANGED <<queuevars, testvars>>

\* The queue.
PushOne(p) ==
    /\ p \in started /\ left[p] > 0
    /\ Push(p)
    /\ left' = [left EXCEPT ![p] = @ - 1]
    /\ UNCHANGED <<latchvars, started, stops, joining, done>>

BlockOnFull(p) ==
    /\ p \in started /\ left[p] > 0
    /\ WaitNotFull(p)
    /\ UNCHANGED <<latchvars, testvars>>

FinishPush(p) == Notify(p) /\ UNCHANGED <<latchvars, testvars>>

\* joinall, which has as many elements to push as there are threads to join.
JoinAll ==
    /\ ~joining
    /\ \A p \in Producers : p \in started /\ left[p] = 0
    /\ notifying = {}
    /\ joining' = TRUE
    /\ stops' = pushed
    /\ left' = [left EXCEPT ![Main] = Cardinality(Consumers)]
    /\ UNCHANGED <<queuevars, latchvars, started, done>>

PopOne(c) ==
    /\ c \in started \ done
    /\ Pop(c)
    /\ done' = IF joining /\ Head(queue_) > stops THEN done \cup {c} ELSE done
    /\ UNCHANGED <<latchvars, started, left, stops, joining>>

BlockOnEmpty(c) ==
    /\ c \in started \ done
    /\ WaitNotEmpty(c)
    /\ UNCHANGED <<latchvars, testvars>>

WakeUp(t) ==
    \/ SpuriousWakeup(t) /\ UNCHANGED <<latchvars, testvars>>
    \/ LatchSpuriousWakeup(t) /\ UNCHANGED <<queuevars, testvars>>

Producer(p) ==
    \/ PassLatch(p) \/ BlockOnLatch(p)
    \/ PushOne(p) \/ BlockOnFull(p) \/ FinishPush(p)
    \/ p = Main /\ JoinAll

Consumer(c) == Start(c) \/ PopOne(c) \/ BlockOnEmpty(c)

\* join returns for every thread and the program ends.
Terminating == done = Consumers /\ UNCHANGED vars

Next ==
    \/ \E p \in Producers : Producer(p)
    \/ \E c \in Consumers : Consumer(c)
    \/ \E t \in Producers \cup Consumers : WakeUp(t)
    \/ Terminating

Spec == Init /\ [][Next]_vars

(***************************************************************************)
(* Fairness: every thread is scheduled, so one that is not waiting goes    *)
(* on.  Spurious wake-ups are not relied on.                               *)
(***************************************************************************)
FairSpec ==
    /\ Spec
    /\ \A p \in Producers : WF_vars(Producer(p))
    /\ \A c \in Consumers : WF_vars(Consumer(c))

\* The threads do not end up all waiting, on the latch or on either side of
\* the queue: each consumer gets its "stop", and so joinall returns.
JoinReturns == <>(done = Consumers)
=============================================================================
