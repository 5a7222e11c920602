----------------------------- MODULE BlockQueue -----------------------------
(***************************************************************************)
(* The two queues of base/blockqueue.h.  BoundedBlockingQueue holds at     *)
(* most maxSize_ elements, its threads wait on two condition variables,    *)
(* and it notifies with the mutex held.  BlockingQueue is unbounded, only  *)
(* its consumers wait, and push notifies after it has unlocked.            *)
(*                                                                         *)
(* A step is what a thread does between taking mutex_ and releasing it, by *)
(* returning or by waiting; the notification of BlockingQueue is a step of *)
(* its own.  A thread that is notified, or wakes up for no reason, tests   *)
(* its condition again when it gets the mutex.  Elements are numbered as   *)
(* they are pushed.  Which threads push and pop, how often and when, is up *)
(* to the module that uses the queue.                                      *)
(***************************************************************************)
EXTENDS Naturals, Sequences, FiniteSets

CONSTANTS Producers, Consumers, \* the threads that push, and those that pop
          maxSize_              \* the constructor's maxsize

ASSUME QueueAssumption ==
    /\ IsFiniteSet(Producers) /\ IsFiniteSet(Consumers)
    /\ Producers \cap Consumers = {}
    /\ maxSize_ \in Nat \ {0}

VARIABLES bounded,   \* whether it is a BoundedBlockingQueue
          queue_,    \* the elements, front first
          noEmpty_,  \* consumers waiting on noEmpty_
          noFull_,   \* producers waiting on noFull_
          woken,     \* consumers and producers that were waiting, and are
                     \* to test their condition again
          notifying, \* producers that have unlocked and not yet notified
          pushed,    \* number of elements pushed
          popped     \* history: the elements popped, in order

queuevars == <<bounded, queue_, noEmpty_, noFull_, woken, notifying, pushed,
               popped>>

\* The types, and the bound: BoundedBlockingQueue never holds more than
\* maxSize_ elements, however many producers were woken for the same room.
QueueOK ==
    /\ bounded \in BOOLEAN
    /\ queue_ \in Seq(Nat)
    /\ bounded => Len(queue_) <= maxSize_
    /\ noEmpty_ \subseteq Consumers
    /\ noFull_ \subseteq Producers
    /\ woken \subseteq (Producers \cup Consumers) \ (noEmpty_ \cup noFull_)
    /\ notifying \subseteq Producers \ noFull_
    /\ pushed \in Nat
    /\ popped \in Seq(Nat)

QueueInit ==
    /\ bounded \in BOOLEAN
    /\ queue_ = <<>>
    /\ noEmpty_ = {} /\ noFull_ = {} /\ woken = {} /\ notifying = {}
    /\ pushed = 0
    /\ popped = <<>>

full == bounded /\ Len(queue_) = maxSize_

\* notify_one on noEmpty_ and on noFull_; those in w are awake before it.
NotifyNoEmpty(w) ==
    \/ noEmpty_ = {} /\ woken' = w /\ UNCHANGED noEmpty_
    \/ \E c \in noEmpty_ : noEmpty_' = noEmpty_ \ {c} /\ woken' = w \cup {c}

NotifyNoFull(w) ==
    \/ noFull_ = {} /\ woken' = w /\ UNCHANGED noFull_
    \/ \E p \in noFull_ : noFull_' = noFull_ \ {p} /\ woken' = w \cup {p}

-----------------------------------------------------------------------------
\* Mutant: one more element than the bound.
PushPastBound(p) ==
    /\ p \notin noFull_ \cup notifying
    /\ bounded => Len(queue_) <= maxSize_
    /\ queue_' = Append(queue_, pushed + 1)
    /\ pushed' = pushed + 1
    /\ IF bounded
         THEN NotifyNoEmpty(woken \ {p}) /\ UNCHANGED notifying
         ELSE /\ notifying' = notifying \cup {p}
              /\ woken' = woken \ {p}
              /\ UNCHANGED noEmpty_
    /\ UNCHANGED <<bounded, noFull_, popped>>

\* Mutant: consumers are told of the first element only.
NotifyWhenFirst(p) ==
    /\ p \in notifying
    /\ notifying' = notifying \ {p}
    /\ IF Len(queue_) = 1 THEN NotifyNoEmpty(woken)
                          ELSE UNCHANGED <<noEmpty_, woken>>
    /\ UNCHANGED <<bounded, queue_, noFull_, pushed, popped>>

\* push, when there is room.
Push(p) ==
    /\ p \notin noFull_ \cup notifying
    /\ ~full
    /\ queue_' = Append(queue_, pushed + 1)
    /\ pushed' = pushed + 1
    /\ IF bounded
         THEN NotifyNoEmpty(woken \ {p}) /\ UNCHANGED notifying
         ELSE /\ notifying' = notifying \cup {p}
              /\ woken' = woken \ {p}
              /\ UNCHANGED noEmpty_
    /\ UNCHANGED <<bounded, noFull_, popped>>

\* The notify_one of BlockingQueue's push.
Notify(p) ==
    /\ p \in notifying
    /\ notifying' = notifying \ {p}
    /\ NotifyNoEmpty(woken)
    /\ UNCHANGED <<bounded, queue_, noFull_, pushed, popped>>

\* push, when there is no room: wait releases the mutex.
WaitNotFull(p) ==
    /\ p \notin noFull_
    /\ full
    /\ noFull_' = noFull_ \cup {p}
    /\ woken' = woken \ {p}
    /\ UNCHANGED <<bounded, queue_, noEmpty_, notifying, pushed, popped>>

\* Mutant: the last element is popped first.
PopLast(c) ==
    /\ c \notin noEmpty_
    /\ queue_ # <<>>
    /\ popped' = Append(popped, queue_[Len(queue_)])
    /\ queue_' = SubSeq(queue_, 1, Len(queue_) - 1)
    /\ NotifyNoFull(woken \ {c})
    /\ UNCHANGED <<bounded, noEmpty_, notifying, pushed>>

\* pop, when there is an element.  Nobody waits on noFull_ in BlockingQueue,
\* which has none.
Pop(c) ==
    /\ c \notin noEmpty_
    /\ queue_ # <<>>
    /\ popped' = Append(popped, Head(queue_))
    /\ queue_' = Tail(queue_)
    /\ NotifyNoFull(woken \ {c})
    /\ UNCHANGED <<bounded, noEmpty_, notifying, pushed>>

WaitNotEmpty(c) ==
    /\ c \notin noEmpty_
    /\ queue_ = <<>>
    /\ noEmpty_' = noEmpty_ \cup {c}
    /\ woken' = woken \ {c}
    /\ UNCHANGED <<bounded, queue_, noFull_, notifying, pushed, popped>>

SpuriousWakeup(t) ==
    /\ t \in noEmpty_ \cup noFull_
    /\ noEmpty_' = noEmpty_ \ {t}
    /\ noFull_' = noFull_ \ {t}
    /\ woken' = woken \cup {t}
    /\ UNCHANGED <<bounded, queue_, notifying, pushed, popped>>

-----------------------------------------------------------------------------
(* Properties.                                                             *)

\* No wake-up is lost: as long as a consumer waits, each queued element has a
\* consumer awake that was told of one, or a producer about to tell one; as
\* long as a producer waits, so has each free place a producer.
NoLostWakeup ==
    /\ noEmpty_ # {} =>
           Len(queue_) <= Cardinality((woken \cap Consumers) \cup notifying)
    /\ noFull_ # {} =>
           maxSize_ - Len(queue_) <= Cardinality(woken \cap Producers)

\* Either queue is the FIFO of module TaskQueue.
FIFO == INSTANCE TaskQueue WITH submitted <- pushed, queue <- queue_,
                                ran <- popped
RefinesFIFO == FIFO!Spec
=============================================================================
