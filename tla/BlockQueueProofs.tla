-------------------------- MODULE BlockQueueProofs --------------------------
(***************************************************************************)
(* Proofs about BlockQueue and the program of BlockQueueTest, for any      *)
(* producers, consumers, bound and number of elements: the bound holds, no *)
(* waiting thread is forgotten, and either queue is a FIFO.                *)
(***************************************************************************)
EXTENDS BlockQueueTest, FiniteSetTheorems, TLAPS

\* Whoever uses the queue takes these steps of it.
QueueStep ==
    \/ \E p \in Producers : Push(p) \/ Notify(p) \/ WaitNotFull(p)
    \/ \E c \in Consumers : Pop(c) \/ WaitNotEmpty(c)
    \/ \E t \in Producers \cup Consumers : SpuriousWakeup(t)
    \/ UNCHANGED queuevars

\* Each of the queues uses its own half: only BoundedBlockingQueue makes
\* producers wait, only BlockingQueue notifies after the unlock.
OwnHalf == IF bounded THEN notifying = {} ELSE noFull_ = {}

\* The latch counts the consumers that have not started.
LatchCounts == count_ = Cardinality(Consumers \ started)

ProgramInv == TypeOK /\ OwnHalf /\ LatchCounts

-----------------------------------------------------------------------------
LEMMA ProgramUsesQueue == [Next]_vars => QueueStep
  <1> SUFFICES ASSUME [Next]_vars PROVE QueueStep
    OBVIOUS
  <1>1. ASSUME NEW p \in Producers, Producer(p) PROVE QueueStep
    BY <1>1 DEF Producer, PassLatch, BlockOnLatch, PushOne, BlockOnFull,
                FinishPush, JoinAll, QueueStep
  <1>2. ASSUME NEW c \in Consumers, Consumer(c) PROVE QueueStep
    BY <1>2 DEF Consumer, Start, PopOne, BlockOnEmpty, QueueStep
  <1>3. ASSUME NEW t \in Producers \cup Consumers, WakeUp(t) PROVE QueueStep
    BY <1>3 DEF WakeUp, QueueStep
  <1>4. CASE Terminating \/ UNCHANGED vars
    BY <1>4 DEF Terminating, vars, QueueStep
  <1> QED
    BY <1>1, <1>2, <1>3, <1>4 DEF Next

\* Types, the bound, and which half is used.
LEMMA QueueOKStep == QueueOK /\ OwnHalf /\ QueueStep => QueueOK' /\ OwnHalf'
  <1> SUFFICES ASSUME QueueOK, OwnHalf, QueueStep PROVE QueueOK' /\ OwnHalf'
    OBVIOUS
  <1> USE QueueAssumption DEF QueueAssumption, QueueOK, OwnHalf
  <1>1. ASSUME NEW p \in Producers, Push(p) PROVE QueueOK' /\ OwnHalf'
    <2>1. /\ queue_' = Append(queue_, pushed + 1) /\ pushed' = pushed + 1
          /\ UNCHANGED <<bounded, noFull_, popped>>
      BY <1>1 DEF Push
    <2>2. queue_' \in Seq(Nat) /\ Len(queue_') = Len(queue_) + 1
      BY <2>1
    <2>3. bounded => Len(queue_') <= maxSize_
      BY <1>1, <2>2 DEF Push, full
    <2>4. CASE bounded
      BY <1>1, <2>1, <2>2, <2>3, <2>4 DEF Push, NotifyNoEmpty
    <2>5. CASE ~bounded
      BY <1>1, <2>1, <2>2, <2>3, <2>5 DEF Push
    <2> QED
      BY <2>4, <2>5
  <1>2. ASSUME NEW p \in Producers, Notify(p) PROVE QueueOK' /\ OwnHalf'
    BY <1>2 DEF Notify, NotifyNoEmpty
  <1>3. ASSUME NEW p \in Producers, WaitNotFull(p) PROVE QueueOK' /\ OwnHalf'
    BY <1>3 DEF WaitNotFull, full
  <1>4. ASSUME NEW c \in Consumers, Pop(c) PROVE QueueOK' /\ OwnHalf'
    <2>1. /\ queue_' \in Seq(Nat) /\ Len(queue_') = Len(queue_) - 1
          /\ popped' \in Seq(Nat)
      BY <1>4 DEF Pop
    <2> QED
      BY <1>4, <2>1 DEF Pop, NotifyNoFull
  <1>5. ASSUME NEW c \in Consumers, WaitNotEmpty(c)
        PROVE  QueueOK' /\ OwnHalf'
    BY <1>5 DEF WaitNotEmpty
  <1>6. ASSUME NEW t \in Producers \cup Consumers, SpuriousWakeup(t)
        PROVE  QueueOK' /\ OwnHalf'
    BY <1>6 DEF SpuriousWakeup
  <1>7. CASE UNCHANGED queuevars
    BY <1>7 DEF queuevars
  <1> QED
    BY <1>1, <1>2, <1>3, <1>4, <1>5, <1>6, <1>7 DEF QueueStep

LEMMA LatchStep ==
    TypeOK /\ LatchCounts /\ [Next]_vars
      => /\ LatchCounts'
         /\ count_' \in 0..Cardinality(Consumers)
         /\ condition_' \subseteq Producers
  <1> SUFFICES ASSUME TypeOK, LatchCounts, [Next]_vars
               PROVE  /\ LatchCounts'
                      /\ count_' \in 0..Cardinality(Consumers)
                      /\ condition_' \subseteq Producers
    OBVIOUS
  <1>a. /\ \A S \in SUBSET Consumers :
              /\ IsFiniteSet(S) /\ Cardinality(S) \in Nat
              /\ Cardinality(S) <= Cardinality(Consumers)
    BY QueueAssumption, FS_Subset, FS_CardinalityType DEF QueueAssumption
  <1>1. ASSUME NEW c \in Consumers, Start(c)
        PROVE  /\ LatchCounts'
               /\ condition_' \subseteq Producers
    <2>1. c \in Consumers \ started /\ started' = started \cup {c}
      BY <1>1 DEF Start
    <2>2. Consumers \ started' = (Consumers \ started) \ {c}
      BY <2>1
    <2>3. Cardinality(Consumers \ started')
            = Cardinality(Consumers \ started) - 1
      BY <1>a, <2>1, <2>2, FS_RemoveElement
    <2> QED
      BY <1>1, <2>3 DEF Start, CountDown, LatchCounts, TypeOK
  <1>2. ASSUME UNCHANGED count_, Consumers \ started' = Consumers \ started,
               condition_' \subseteq Producers
        PROVE  /\ LatchCounts'
               /\ condition_' \subseteq Producers
    BY <1>2 DEF LatchCounts
  <1>3. ASSUME NEW p \in Producers, Producer(p)
        PROVE  /\ LatchCounts'
               /\ condition_' \subseteq Producers
    <2>1. CASE PassLatch(p)
      BY <1>2, <2>1, QueueAssumption
         DEF PassLatch, WaitOver, latchvars, TypeOK, QueueAssumption
    <2>2. CASE BlockOnLatch(p)
      BY <1>2, <2>2 DEF BlockOnLatch, WaitForCount, testvars, TypeOK
    <2>3. CASE PushOne(p) \/ BlockOnFull(p) \/ FinishPush(p) \/ JoinAll
      BY <1>2, <2>3 DEF PushOne, BlockOnFull, FinishPush, JoinAll, latchvars,
                        testvars, TypeOK
    <2> QED
      BY <1>3, <2>1, <2>2, <2>3 DEF Producer
  <1>4. ASSUME NEW c \in Consumers, PopOne(c) \/ BlockOnEmpty(c)
        PROVE  /\ LatchCounts'
               /\ condition_' \subseteq Producers
    BY <1>2, <1>4 DEF PopOne, BlockOnEmpty, latchvars, testvars, TypeOK
  <1>5. ASSUME NEW t, WakeUp(t)
        PROVE  /\ LatchCounts'
               /\ condition_' \subseteq Producers
    BY <1>2, <1>5
       DEF WakeUp, LatchSpuriousWakeup, latchvars, testvars, TypeOK
  <1>6. CASE Terminating \/ UNCHANGED vars
    BY <1>2, <1>6 DEF Terminating, vars, latchvars, testvars, TypeOK
  <1>7. LatchCounts' /\ condition_' \subseteq Producers
    BY <1>1, <1>3, <1>4, <1>5, <1>6 DEF Next, Consumer
  <1>8. count_' \in 0..Cardinality(Consumers)
    BY <1>7, <1>a DEF LatchCounts
  <1> QED
    BY <1>7, <1>8

-----------------------------------------------------------------------------
LEMMA ProgramInvInit == Init => ProgramInv
  <1> SUFFICES ASSUME Init PROVE ProgramInv
    OBVIOUS
  <1>1. Cardinality(Consumers) \in Nat
    BY QueueAssumption, FS_CardinalityType DEF QueueAssumption
  <1>2. queue_ \in Seq(Nat) /\ popped \in Seq(Nat) /\ Len(queue_) = 0
    BY DEF Init, QueueInit
  <1>3. QueueOK
    BY <1>2, QueueAssumption DEF QueueAssumption, Init, QueueInit, QueueOK
  <1>4. LatchCounts
    <2>1. Consumers \ started = Consumers
      BY DEF Init
    <2> QED
      BY <2>1 DEF Init, LatchInit, LatchCounts
  <1>5. OwnHalf
    BY DEF Init, QueueInit, OwnHalf
  <1>6. count_ \in 0..Cardinality(Consumers) /\ condition_ \subseteq Producers
    BY <1>1 DEF Init, LatchInit
  <1>7. left \in [Producers -> Nat]
    BY TestAssumption DEF Init, TestAssumption
  <1> QED
    BY <1>3, <1>4, <1>5, <1>6, <1>7 DEF Init, ProgramInv, TypeOK

LEMMA ProgramInvStep == ProgramInv /\ [Next]_vars => ProgramInv'
  <1> SUFFICES ASSUME ProgramInv, [Next]_vars PROVE ProgramInv'
    OBVIOUS
  <1>1. /\ QueueOK' /\ OwnHalf' /\ LatchCounts'
        /\ count_' \in 0..Cardinality(Consumers)
        /\ condition_' \subseteq Producers
    BY ProgramUsesQueue, QueueOKStep, LatchStep DEF ProgramInv, TypeOK
  <1> DEFINE Rest == /\ started' \subseteq Producers \cup Consumers
                     /\ left' \in [Producers -> Nat]
                     /\ stops' \in Nat
                     /\ joining' \in BOOLEAN
                     /\ done' \subseteq Consumers
  <1> USE DEF ProgramInv, TypeOK
  <1>2. ASSUME UNCHANGED testvars PROVE Rest
    BY <1>2 DEF testvars
  <1>3. ASSUME NEW p \in Producers, Producer(p) PROVE Rest
    <2>1. CASE PassLatch(p)
      BY <2>1 DEF PassLatch
    <2>2. CASE BlockOnLatch(p) \/ BlockOnFull(p) \/ FinishPush(p)
      BY <1>2, <2>2 DEF BlockOnLatch, BlockOnFull, FinishPush
    <2>3. CASE PushOne(p)
      BY <2>3 DEF PushOne
    <2>4. CASE JoinAll
      <3>1. Cardinality(Consumers) \in Nat
        BY QueueAssumption, FS_CardinalityType DEF QueueAssumption
      <3> QED
        BY <2>4, <3>1 DEF JoinAll, QueueOK
    <2> QED
      BY <1>3, <2>1, <2>2, <2>3, <2>4 DEF Producer
  <1>4. ASSUME NEW c \in Consumers, Consumer(c) PROVE Rest
    BY <1>2, <1>4 DEF Consumer, Start, PopOne, BlockOnEmpty
  <1>5. ASSUME NEW t, WakeUp(t) PROVE Rest
    BY <1>2, <1>5 DEF WakeUp
  <1>6. ASSUME Terminating \/ UNCHANGED vars PROVE Rest
    <2>1. UNCHANGED testvars
      BY <1>6 DEF Terminating, vars
    <2> QED
      BY <1>2, <2>1
  <1>7. Rest
    BY <1>3, <1>4, <1>5, <1>6 DEF Next
  <1> QED
    BY <1>1, <1>7

THEOREM ProgramInvariant == Spec => []ProgramInv
  BY ProgramInvInit, ProgramInvStep, PTL DEF Spec

\* The types, with the bound: a BoundedBlockingQueue never holds more than its
\* maxsize, however many producers were woken for the same room, and the latch
\* never counts past 0 (blockqueue.h:99-131, countdownlatch.cc).
THEOREM TypeCorrect == Spec => []TypeOK
  <1>1. ProgramInv => TypeOK
    BY DEF ProgramInv
  <1> QED
    BY <1>1, ProgramInvariant, PTL

-----------------------------------------------------------------------------
\* Counting those who are awake.
LEMMA AddAwake ==
    ASSUME NEW S, IsFiniteSet(S), NEW x, x \notin S
    PROVE  Cardinality(S \cup {x}) = Cardinality(S) + 1
  BY FS_AddElement

LEMMA RemoveAwake ==
    ASSUME NEW S, IsFiniteSet(S), NEW x
    PROVE  /\ Cardinality(S \ {x}) \in Nat /\ Cardinality(S) \in Nat
           /\ Cardinality(S \ {x}) >= Cardinality(S) - 1
  <1>1. IsFiniteSet(S \ {x})
    BY FS_RemoveElement
  <1>2. Cardinality(S \ {x}) \in Nat /\ Cardinality(S) \in Nat
    BY <1>1, FS_CardinalityType
  <1>3. CASE x \in S
    <2>1. Cardinality(S \ {x}) = Cardinality(S) - 1
      BY <1>3, FS_RemoveElement
    <2> QED
      BY <1>2, <2>1
  <1>4. CASE x \notin S
    <2>1. S \ {x} = S
      BY <1>4
    <2> QED
      BY <1>2, <2>1
  <1> QED
    BY <1>3, <1>4

\* The counting argument: each element pushed wakes one more consumer that
\* waits, each one popped one more producer, and a thread that goes back to
\* waiting saw the queue empty or full.
LEMMA WakeupStep ==
    QueueOK /\ OwnHalf /\ NoLostWakeup /\ QueueStep => NoLostWakeup'
  <1> SUFFICES ASSUME QueueOK, OwnHalf, NoLostWakeup, QueueStep
               PROVE  NoLostWakeup'
    OBVIOUS
  <1> DEFINE C == (woken \cap Consumers) \cup notifying
             P == woken \cap Producers
  <1>a. /\ IsFiniteSet(C) /\ IsFiniteSet(P)
        /\ Cardinality(C) \in Nat /\ Cardinality(P) \in Nat
    <2>1. IsFiniteSet(Producers \cup Consumers)
      BY QueueAssumption, FS_Union DEF QueueAssumption
    <2>2. C \in SUBSET (Producers \cup Consumers)
          /\ P \in SUBSET (Producers \cup Consumers)
      BY DEF QueueOK
    <2>3. IsFiniteSet(C) /\ IsFiniteSet(P)
      BY <2>1, <2>2, FS_Subset
    <2> QED
      BY <2>3, FS_CardinalityType
  <1>b. /\ noEmpty_ # {} => Len(queue_) <= Cardinality(C)
        /\ noFull_ # {} => maxSize_ - Len(queue_) <= Cardinality(P)
        /\ Len(queue_) \in Nat /\ maxSize_ \in Nat
        /\ Producers \cap Consumers = {}
    BY QueueAssumption DEF NoLostWakeup, QueueOK, QueueAssumption
  <1>1. ASSUME NEW p \in Producers, Push(p) PROVE NoLostWakeup'
    <2>1. /\ Len(queue_') = Len(queue_) + 1
          /\ UNCHANGED <<bounded, noFull_>>
      BY <1>1 DEF Push, QueueOK
    <2>2. CASE bounded
      <3>1. NotifyNoEmpty(woken \ {p}) /\ UNCHANGED notifying
        BY <1>1, <2>2 DEF Push
      <3>2. noFull_' # {} => maxSize_ - Len(queue_') <= Cardinality(P')
        <4>1. P' = P \ {p}
          BY <1>b, <3>1 DEF NotifyNoEmpty, QueueOK
        <4> HIDE DEF P
        <4>2. Cardinality(P') \in Nat /\ Cardinality(P') >= Cardinality(P) - 1
          BY <1>a, <4>1, RemoveAwake
        <4> QED
          BY <1>a, <1>b, <2>1, <4>2
      <3>3. noEmpty_' # {} => Len(queue_') <= Cardinality(C')
        <4>1. SUFFICES ASSUME noEmpty_' # {}
                       PROVE  Len(queue_') <= Cardinality(C')
          OBVIOUS
        <4>2. PICK c \in noEmpty_ : /\ noEmpty_' = noEmpty_ \ {c}
                                    /\ woken' = (woken \ {p}) \cup {c}
          BY <3>1, <4>1 DEF NotifyNoEmpty
        <4>3. C' = C \cup {c} /\ c \notin C
          BY <1>b, <3>1, <4>2 DEF QueueOK
        <4> HIDE DEF C
        <4>4. Cardinality(C') = Cardinality(C) + 1
          BY <1>a, <4>3, AddAwake
        <4> QED
          BY <1>a, <1>b, <2>1, <4>2, <4>4
      <3> QED
        BY <3>2, <3>3 DEF NoLostWakeup
    <2>3. CASE ~bounded
      <3>1. /\ notifying' = notifying \cup {p} /\ woken' = woken \ {p}
            /\ UNCHANGED noEmpty_ /\ p \notin notifying
        BY <1>1, <2>3 DEF Push
      <3>2. C' = C \cup {p} /\ p \notin C
        BY <1>b, <3>1
      <3>3. noFull_' = {}
        BY <2>1, <2>3 DEF OwnHalf
      <3>4. Cardinality(C') = Cardinality(C) + 1
        <4> HIDE DEF C
        <4> QED
          BY <1>a, <3>2, AddAwake
      <3>5. noEmpty_' # {} => Len(queue_') <= Cardinality(C')
        <4> HIDE DEF C
        <4> QED
          BY <1>a, <1>b, <2>1, <3>1, <3>4
      <3> QED
        BY <3>3, <3>5 DEF NoLostWakeup
    <2> QED
      BY <2>2, <2>3
  <1>2. ASSUME NEW p \in Producers, Notify(p) PROVE NoLostWakeup'
    <2>1. /\ p \in notifying /\ notifying' = notifying \ {p}
          /\ NotifyNoEmpty(woken) /\ UNCHANGED <<bounded, queue_, noFull_>>
      BY <1>2 DEF Notify
    <2>2. noFull_' = {}
      BY <2>1 DEF OwnHalf
    <2>3. ASSUME noEmpty_' # {} PROVE Len(queue_') <= Cardinality(C')
      <3>1. PICK c \in noEmpty_ : /\ noEmpty_' = noEmpty_ \ {c}
                                  /\ woken' = woken \cup {c}
        BY <2>1, <2>3 DEF NotifyNoEmpty
      <3>2. C' = (C \ {p}) \cup {c} /\ c \notin C \ {p} /\ p \in C
        BY <1>b, <2>1, <3>1 DEF QueueOK
      <3> HIDE DEF C
      <3>3. /\ IsFiniteSet(C \ {p})
            /\ Cardinality(C \ {p}) = Cardinality(C) - 1
        BY <1>a, <3>2, FS_RemoveElement
      <3>4. Cardinality(C') = Cardinality(C \ {p}) + 1
        BY <3>2, <3>3, AddAwake
      <3> QED
        BY <1>a, <1>b, <2>1, <3>1, <3>3, <3>4
    <2> QED
      BY <2>2, <2>3 DEF NoLostWakeup
  <1>3. ASSUME NEW p \in Producers, WaitNotFull(p) PROVE NoLostWakeup'
    <2>1. /\ Len(queue_) = maxSize_ /\ woken' = woken \ {p}
          /\ UNCHANGED <<queue_, noEmpty_, notifying>>
      BY <1>3 DEF WaitNotFull, full
    <2>2. C' = C
      BY <1>b, <2>1
    <2>3. P' = P \ {p}
      BY <2>1
    <2>4. Cardinality(P') \in Nat
      <3> HIDE DEF P
      <3> QED
        BY <1>a, <2>3, RemoveAwake
    <2>5. noFull_' # {} => maxSize_ - Len(queue_') <= Cardinality(P')
      <3> HIDE DEF P
      <3> QED
        BY <1>b, <2>1, <2>4
    <2>6. noEmpty_' # {} => Len(queue_') <= Cardinality(C')
      BY <1>b, <2>1, <2>2
    <2> QED
      BY <2>5, <2>6 DEF NoLostWakeup
  <1>4. ASSUME NEW c \in Consumers, Pop(c) PROVE NoLostWakeup'
    <2>1. /\ Len(queue_') = Len(queue_) - 1
          /\ NotifyNoFull(woken \ {c})
          /\ UNCHANGED <<noEmpty_, notifying>>
      BY <1>4 DEF Pop, QueueOK
    <2>2. noEmpty_' # {} => Len(queue_') <= Cardinality(C')
      <3>1. C' = C \ {c} \/ C' = C
        BY <1>b, <2>1 DEF NotifyNoFull, QueueOK
      <3> HIDE DEF C
      <3>2. Cardinality(C') \in Nat /\ Cardinality(C') >= Cardinality(C) - 1
        BY <1>a, <3>1, RemoveAwake
      <3> QED
        BY <1>a, <1>b, <2>1, <3>2
    <2>3. ASSUME noFull_' # {}
          PROVE  maxSize_ - Len(queue_') <= Cardinality(P')
      <3>1. PICK p \in noFull_ : /\ noFull_' = noFull_ \ {p}
                                 /\ woken' = (woken \ {c}) \cup {p}
        BY <2>1, <2>3 DEF NotifyNoFull
      <3>2. P' = P \cup {p} /\ p \notin P
        BY <1>b, <3>1 DEF QueueOK
      <3> HIDE DEF P
      <3>3. Cardinality(P') = Cardinality(P) + 1
        BY <1>a, <3>2, AddAwake
      <3> QED
        BY <1>a, <1>b, <2>1, <3>1, <3>3
    <2> QED
      BY <2>2, <2>3 DEF NoLostWakeup
  <1>5. ASSUME NEW c \in Consumers, WaitNotEmpty(c) PROVE NoLostWakeup'
    <2>1. /\ Len(queue_') = 0 /\ woken' = woken \ {c}
          /\ UNCHANGED <<queue_, noFull_, notifying>>
      BY <1>5 DEF WaitNotEmpty
    <2>2. P' = P
      BY <1>b, <2>1
    <2>3. C' = C \ {c} \/ C' = C
      BY <2>1
    <2>4. Cardinality(C') \in Nat
      <3> HIDE DEF C
      <3> QED
        BY <1>a, <2>3, RemoveAwake
    <2>5. noEmpty_' # {} => Len(queue_') <= Cardinality(C')
      <3> HIDE DEF C
      <3> QED
        BY <2>1, <2>4
    <2>6. noFull_' # {} => maxSize_ - Len(queue_') <= Cardinality(P')
      BY <1>b, <2>1, <2>2
    <2> QED
      BY <2>5, <2>6 DEF NoLostWakeup
  <1>6. ASSUME NEW t \in Producers \cup Consumers, SpuriousWakeup(t)
        PROVE  NoLostWakeup'
    <2>1. /\ woken' = woken \cup {t} /\ t \notin woken
          /\ noEmpty_' = noEmpty_ \ {t} /\ noFull_' = noFull_ \ {t}
          /\ UNCHANGED <<queue_, notifying>>
      BY <1>6 DEF SpuriousWakeup, QueueOK
    <2>2. (C' = C \/ (C' = C \cup {t} /\ t \notin C))
          /\ (P' = P \/ (P' = P \cup {t} /\ t \notin P))
      BY <1>b, <2>1
    <2> HIDE DEF C, P
    <2>3. Cardinality(C') >= Cardinality(C) /\ Cardinality(C') \in Nat
          /\ Cardinality(P') >= Cardinality(P) /\ Cardinality(P') \in Nat
      BY <1>a, <2>2, AddAwake
    <2>4. /\ noEmpty_' # {} => Len(queue_') <= Cardinality(C')
          /\ noFull_' # {} => maxSize_ - Len(queue_') <= Cardinality(P')
      BY <1>a, <1>b, <2>1, <2>3
    <2> QED
      BY <2>4 DEF NoLostWakeup, C, P
  <1>7. CASE UNCHANGED queuevars
    BY <1>7 DEF queuevars, NoLostWakeup
  <1> QED
    BY <1>1, <1>2, <1>3, <1>4, <1>5, <1>6, <1>7 DEF QueueStep

\* As long as a thread waits, each element, or each free place, has a thread
\* awake that was told of it, whatever others do before it gets the mutex
\* (blockqueue.h:53-82, 99-131).
THEOREM NoWakeupIsLost == Spec => []NoLostWakeup
  <1>1. Init => NoLostWakeup
    BY DEF Init, QueueInit, NoLostWakeup
  <1>2. ProgramInv => QueueOK /\ OwnHalf
    BY DEF ProgramInv, TypeOK
  <1> QED
    BY <1>1, <1>2, ProgramInvariant, ProgramUsesQueue, WakeupStep, PTL
       DEF Spec

-----------------------------------------------------------------------------
LEMMA RefinementStep == QueueStep => [FIFO!Next]_(FIFO!vars)
  <1> SUFFICES ASSUME QueueStep PROVE [FIFO!Next]_(FIFO!vars)
    OBVIOUS
  <1>1. ASSUME NEW p \in Producers, Push(p) PROVE FIFO!Submit
    BY <1>1 DEF Push, FIFO!Submit
  <1>2. ASSUME NEW c \in Consumers, Pop(c) PROVE FIFO!Run
    BY <1>2 DEF Pop, FIFO!Run
  <1>3. ASSUME UNCHANGED <<queue_, pushed, popped>> PROVE UNCHANGED FIFO!vars
    BY <1>3 DEF FIFO!vars
  <1>4. ASSUME NEW p \in Producers, Notify(p) \/ WaitNotFull(p)
        PROVE  UNCHANGED FIFO!vars
    BY <1>3, <1>4 DEF Notify, WaitNotFull
  <1>5. ASSUME NEW c \in Consumers, WaitNotEmpty(c) PROVE UNCHANGED FIFO!vars
    BY <1>3, <1>5 DEF WaitNotEmpty
  <1>6. ASSUME NEW t, SpuriousWakeup(t) PROVE UNCHANGED FIFO!vars
    BY <1>3, <1>6 DEF SpuriousWakeup
  <1>7. CASE UNCHANGED queuevars
    BY <1>3, <1>7 DEF queuevars
  <1> QED
    BY <1>1, <1>2, <1>4, <1>5, <1>6, <1>7 DEF QueueStep, FIFO!Next

\* Both queues are the FIFO that EventLoop implements too: whichever thread
\* pops gets the oldest element, each once, and nothing else.
THEOREM QueueImplementsFIFO == Spec => RefinesFIFO
  <1>1. Init => FIFO!Init
    BY DEF Init, QueueInit, FIFO!Init
  <1> QED
    BY <1>1, ProgramUsesQueue, RefinementStep, PTL
       DEF Spec, RefinesFIFO, FIFO!Spec
=============================================================================
