-------------------------- MODULE TimerQueueProofs --------------------------
(***************************************************************************)
(* Proofs about TimerQueue for any threads, timers and bound on the clock: *)
(* the timerfd is always armed in time for the first timer, no timer is    *)
(* lost or has two owners, one that was cancelled stays out of the lists,  *)
(* and callbacks run when they are due.                                    *)
(***************************************************************************)
EXTENDS TimerQueue, TLAPS

\* What the two operations on the lists do to the state that is typed.
LEMMA AddTyped ==
    ASSUME TypeOK, NEW n \in Nodes, AddTimeNodeInLoop(n)
    PROVE  /\ list_' \subseteq Nat \X Nodes
           /\ indexlist_' \subseteq Nodes
           /\ armed' \in Nat \cup {NotArmed}
           /\ UNCHANGED <<waitdeltimelist, cancelled>>
  BY DEF TypeOK, AddTimeNodeInLoop, ResetFd, MinDelay

LEMMA DelTyped ==
    ASSUME TypeOK, NEW n \in Nodes, NEW k \in Nodes, DelTimeNodeInLoop(n, k)
    PROVE  /\ list_' \subseteq Nat \X Nodes
           /\ indexlist_' \subseteq Nodes
           /\ waitdeltimelist' \subseteq Nodes \X Nodes
           /\ cancelled' \in [Nodes -> {"no", "early", "late"}]
           /\ UNCHANGED armed
  BY SMTT(30) DEF TypeOK, DelTimeNodeInLoop

LEMMA TypeOKInit == Init => TypeOK
  <1> SUFFICES ASSUME Init PROVE TypeOK
    OBVIOUS
  <1>1. /\ now \in 0..MaxNow /\ size_ \in 0..MaxNodes /\ handlenow \in 0..MaxNow
        /\ 0 \in 0..MaxNodes
    BY TimerQueueAssumption DEF TimerQueueAssumption, Init
  <1>2. queue \in Seq(Functors)
    BY DEF Init
  <1> QED
    BY <1>1, <1>2 DEF Init, TypeOK

LEMMA TypeOKStep == TypeOK /\ [Next]_vars => TypeOK'
  <1> SUFFICES ASSUME TypeOK, [Next]_vars PROVE TypeOK'
    OBVIOUS
  <1> USE TimerQueueAssumption DEF TimerQueueAssumption, TypeOK
  <1>1. CASE Tick
    <2>1. now' \in 0..MaxNow
      BY <1>1 DEF Tick
    <2> QED
      BY <1>1, <2>1 DEF Tick, callvars, listvars, batchvars
  <1>2. ASSUME NEW t \in Callers, NewTimeNode(t) PROVE TypeOK'
    <2>1. size_' \in 1..MaxNodes /\ adding' \in [Callers -> 0..MaxNodes]
      BY <1>2 DEF NewTimeNode
    <2>a. size_ + 1 \in Nodes
      BY <1>2 DEF NewTimeNode, Nodes
    <2>2. PICK d \in Delays, i \in Intervals :
             /\ expiration' = [expiration EXCEPT ![size_ + 1] = now + d]
             /\ interval' = [interval EXCEPT ![size_ + 1] = i]
      BY <1>2 DEF NewTimeNode
    <2>b. now + d \in Nat /\ i \in Nat
      OBVIOUS
    <2>3. expiration' \in [Nodes -> Nat] /\ interval' \in [Nodes -> Nat]
      BY <2>a, <2>b, <2>2
    <2> QED
      BY <1>2, <2>1, <2>3 DEF NewTimeNode, listvars, batchvars, Nodes
  <1>3. ASSUME NEW t \in Callers, AddTimeNode(t) PROVE TypeOK'
    <2>1. adding[t] \in Nodes
      BY <1>3 DEF AddTimeNode, Nodes
    <2>2. /\ adding' \in [Callers -> 0..MaxNodes]
          /\ returning' \in [Callers -> 0..MaxNodes]
          /\ UNCHANGED <<now, size_, expiration, interval, ids, deltimelist,
                         torun, looppc, handlenow, fired>>
      BY <1>3, <2>1 DEF AddTimeNode, batchvars, Nodes
    <2>3. CASE t = Loop
      BY <1>3, <2>1, <2>2, <2>3, AddTyped DEF AddTimeNode
    <2>4. CASE t # Loop
      <3>1. [op |-> "add", node |-> adding[t]] \in Functors
        BY <2>1 DEF Functors
      <3>2. queue' = Append(queue, [op |-> "add", node |-> adding[t]])
        BY <1>3, <2>4 DEF AddTimeNode
      <3>3. queue' \in Seq(Functors)
        BY <3>1, <3>2
      <3> QED
        BY <1>3, <2>2, <2>4, <3>3 DEF AddTimeNode, listvars
    <2> QED
      BY <2>3, <2>4
  <1>4. ASSUME NEW t \in Callers, ReturnTimeId(t) PROVE TypeOK'
    <2>1. ids' \in [Nodes -> 0..MaxNodes]
      BY <1>4 DEF ReturnTimeId
    <2>2. returning' \in [Callers -> 0..MaxNodes]
      BY <1>4 DEF ReturnTimeId
    <2> QED
      BY <1>4, <2>1, <2>2 DEF ReturnTimeId, listvars, batchvars
  <1>5. ASSUME NEW t \in Callers, NEW n \in Nodes, Cancel(t, n) PROVE TypeOK'
    <2>1. ids[n] \in Nodes
      BY <1>5 DEF Cancel, Nodes
    <2>2. UNCHANGED <<now, size_, expiration, interval, adding, returning, ids,
                      deltimelist, torun, looppc, handlenow, fired>>
      BY <1>5 DEF Cancel, callvars, batchvars
    <2>3. CASE t = Loop
      BY <1>5, <2>1, <2>2, <2>3, DelTyped DEF Cancel
    <2>4. CASE t # Loop
      <3>1. [op |-> "cancel", node |-> n, index |-> ids[n]] \in Functors
        BY <2>1 DEF Functors
      <3>2. queue' = Append(queue, [op |-> "cancel", node |-> n,
                                    index |-> ids[n]])
        BY <1>5, <2>4 DEF Cancel
      <3>3. queue' \in Seq(Functors)
        BY <3>1, <3>2
      <3> QED
        BY <1>5, <2>2, <2>4, <3>3 DEF Cancel, listvars
    <2> QED
      BY <2>3, <2>4
  <1>6. CASE RunFunctor
    <2> DEFINE f == Head(queue)
    <2>1. f \in Functors /\ queue' \in Seq(Functors)
      BY <1>6 DEF RunFunctor
    <2>2. UNCHANGED <<now, size_, expiration, interval, adding, returning, ids,
                      deltimelist, torun, looppc, handlenow, fired>>
      BY <1>6 DEF RunFunctor, callvars, batchvars
    <2>3. CASE f.op = "add"
      <3>1. f.node \in Nodes /\ AddTimeNodeInLoop(f.node)
        BY <1>6, <2>1, <2>3 DEF RunFunctor, Functors
      <3> QED
        BY <2>1, <2>2, <3>1, AddTyped
    <2>4. CASE f.op # "add"
      <3>1. /\ f.node \in Nodes /\ f.index \in Nodes
            /\ DelTimeNodeInLoop(f.node, f.index)
        BY <1>6, <2>1, <2>4 DEF RunFunctor, Functors
      <3> QED
        BY <2>1, <2>2, <3>1, DelTyped
    <2> QED
      BY <2>3, <2>4
  <1>7. CASE Poll
    BY <1>7 DEF Poll, callvars, listvars
  <1>8. CASE HandleRead
    BY <1>8 DEF HandleRead, callvars, listvars
  <1>9. CASE GetExpired
    <2>1. deltimelist' \subseteq Nodes
      BY <1>9 DEF GetExpired, Expired
    <2> QED
      BY <1>9, <2>1 DEF GetExpired, callvars
  <1>10. ASSUME NEW n \in Nodes, RunTimer(n) PROVE TypeOK'
    BY <1>10 DEF RunTimer, callvars, listvars
  <1>11. CASE Fflash
    <2>1. PutBack \subseteq Nodes
      BY DEF PutBack
    <2>2. expiration' \in [Nodes -> Nat]
      BY <1>11 DEF Fflash, Restarted
    <2>3. list_' \subseteq Nat \X Nodes
      BY <1>11, <2>1, <2>2 DEF Fflash
    <2>4. armed' \in Nat \cup {NotArmed}
      <3>1. \A x \in list_' : ResetFd(x[1]) \in Nat
        BY <2>3 DEF ResetFd, MinDelay
      <3> QED
        BY <1>11, <3>1 DEF Fflash, ArmFirst
    <2> QED
      BY <1>11, <2>1, <2>2, <2>3, <2>4 DEF Fflash, callvars
  <1>12. CASE UNCHANGED vars
    BY <1>12 DEF vars
  <1> QED
    BY <1>1, <1>2, <1>3, <1>4, <1>5, <1>6, <1>7, <1>8, <1>9, <1>10, <1>11,
       <1>12 DEF Next, LoopStep, Caller

\* The lists, the timerfd and the operations under way keep their types.
THEOREM TypeCorrect == Spec => []TypeOK
  BY TypeOKInit, TypeOKStep, PTL DEF Spec

-----------------------------------------------------------------------------
\* Adding a timer keeps the timerfd in time: it is armed again exactly when
\* no timer comes before the new one.
LEMMA AddArms ==
    ASSUME TypeOK, ArmedInTime, NEW n \in Nodes, AddTimeNodeInLoop(n),
           UNCHANGED now
    PROVE  ArmedInTime'
  <1> USE DEF TypeOK, ArmedInTime, ResetFd, MinDelay, NotArmed
  <1>1. /\ list_' = list_ \cup {<<expiration[n], n>>}
        /\ armed' = IF IsFirst(n) THEN ResetFd(expiration[n]) ELSE armed
    BY DEF AddTimeNodeInLoop
  <1>2. CASE IsFirst(n)
    BY <1>1, <1>2, SMTT(30) DEF IsFirst
  <1>3. CASE ~IsFirst(n)
    <2>1. PICK x \in list_ : x[1] <= expiration[n]
      BY <1>3 DEF IsFirst
    <2>2. armed # NotArmed /\ armed <= ResetFd(expiration[n])
      BY <2>1
    <2> QED
      BY <1>1, <1>3, <2>2
  <1> QED
    BY <1>2, <1>3

LEMMA DelKeepsArmed ==
    ASSUME ArmedInTime, NEW n, NEW k, DelTimeNodeInLoop(n, k), UNCHANGED now
    PROVE  ArmedInTime'
  BY DEF ArmedInTime, ResetFd, DelTimeNodeInLoop

LEMMA ArmedStep == TypeOK /\ ArmedInTime /\ [Next]_vars => ArmedInTime'
  <1> SUFFICES ASSUME TypeOK, ArmedInTime, [Next]_vars PROVE ArmedInTime'
    OBVIOUS
  <1>1. CASE Tick
    BY <1>1 DEF Tick, listvars, TypeOK, ArmedInTime, ResetFd, MinDelay, NotArmed
  <1>2. ASSUME UNCHANGED <<now, list_, armed>> PROVE ArmedInTime'
    BY <1>2 DEF ArmedInTime, ResetFd
  <1>3. ASSUME NEW t \in Callers, NewTimeNode(t) \/ ReturnTimeId(t)
        PROVE  ArmedInTime'
    BY <1>2, <1>3 DEF NewTimeNode, ReturnTimeId, listvars
  <1>4. ASSUME NEW t \in Callers, AddTimeNode(t) PROVE ArmedInTime'
    <2>1. adding[t] \in Nodes /\ UNCHANGED now
      BY <1>4 DEF AddTimeNode, TypeOK, Nodes
    <2>2. CASE t = Loop
      BY <1>4, <2>1, <2>2, AddArms DEF AddTimeNode
    <2>3. CASE t # Loop
      BY <1>2, <1>4, <2>1, <2>3 DEF AddTimeNode, listvars
    <2> QED
      BY <2>2, <2>3
  <1>5. ASSUME NEW t \in Callers, NEW n \in Nodes, Cancel(t, n)
        PROVE  ArmedInTime'
    <2>1. CASE t = Loop
      BY <1>5, <2>1, DelKeepsArmed DEF Cancel
    <2>2. CASE t # Loop
      BY <1>2, <1>5, <2>2 DEF Cancel, listvars
    <2> QED
      BY <2>1, <2>2
  <1>6. CASE RunFunctor
    <2>1. Head(queue) \in Functors /\ UNCHANGED now
      BY <1>6 DEF RunFunctor, TypeOK
    <2>2. CASE Head(queue).op = "add"
      <3>1. Head(queue).node \in Nodes /\ AddTimeNodeInLoop(Head(queue).node)
        BY <1>6, <2>1, <2>2 DEF RunFunctor, Functors
      <3> QED
        BY <2>1, <3>1, AddArms
    <2>3. CASE Head(queue).op # "add"
      <3>1. DelTimeNodeInLoop(Head(queue).node, Head(queue).index)
        BY <1>6, <2>3 DEF RunFunctor
      <3> QED
        BY <2>1, <3>1, DelKeepsArmed
    <2> QED
      BY <2>2, <2>3
  <1>7. ASSUME NEW n \in Nodes, Poll \/ HandleRead \/ RunTimer(n)
        PROVE  ArmedInTime'
    BY <1>2, <1>7 DEF Poll, HandleRead, RunTimer, listvars
  <1>8. CASE Poll \/ HandleRead
    BY <1>2, <1>8 DEF Poll, HandleRead, listvars
  <1>9. CASE GetExpired
    BY <1>9 DEF GetExpired, ArmedInTime, ResetFd
  <1>10. CASE Fflash
    <2>1. list_' \subseteq Nat \X Nodes /\ now' = now /\ now \in Nat
      BY <1>10, TypeOKStep, TimerQueueAssumption, SMTT(30)
         DEF Fflash, Restarted, TypeOK, TimerQueueAssumption
    <2>2. CASE list_' = {}
      BY <2>2 DEF ArmedInTime
    <2>3. CASE list_' # {}
      <3>1. PICK first \in list_' :
               /\ \A x \in list_' : first[1] <= x[1]
               /\ armed' = ResetFd(first[1])
        BY <1>10, <2>3 DEF Fflash, ArmFirst
      <3> QED
        BY <2>1, <3>1 DEF ArmedInTime, ResetFd, MinDelay, NotArmed
    <2> QED
      BY <2>2, <2>3
  <1>11. CASE UNCHANGED vars
    BY <1>2, <1>11 DEF vars
  <1> QED
    BY <1>1, <1>3, <1>4, <1>5, <1>6, <1>7, <1>8, <1>9, <1>10, <1>11
       DEF Next, LoopStep, Caller

\* Whatever is added, cancelled or run, and in which order, the timerfd is
\* armed no later than the first timer, or than the least delay from now.
THEOREM TimerfdArmedInTime == Spec => []ArmedInTime
  <1>1. Init => ArmedInTime
    BY DEF Init, ArmedInTime
  <1> QED
    BY <1>1, TypeCorrect, ArmedStep, PTL DEF Spec

-----------------------------------------------------------------------------
(***************************************************************************)
(* The inductive invariant about the timers themselves: where each is, what*)
(* has happened to those that are nowhere, and who knows their timeIds.    *)
(***************************************************************************)

\* Nothing but its caller knows of a timer that is not constructed yet.
Known(n) ==
    \/ InAdding(n) \/ InQueue(n)
    \/ n \in indexlist_ \cup deltimelist \cup fired
    \/ cancelled[n] # "no" \/ ids[n] # 0

NewIsUnknown == \A n \in Nodes : n > size_ => ~Known(n)

\* A timer is in one place at most.
OnePlace ==
    /\ \A n \in Nodes : InAdding(n) => ~InQueue(n)
    /\ \A n \in indexlist_ \cup deltimelist : ~InAdding(n) /\ ~InQueue(n)
    /\ indexlist_ \cap deltimelist = {}

\* The batch: who has run and who has not.
BatchRuns ==
    /\ torun # {} => calling
    /\ deltimelist \ torun \subseteq fired
    /\ \A n \in torun : expiration[n] < now

\* A timer that is nowhere, or left over from the last batch, is finished.
LeftIsFinished ==
    /\ ~calling => \A n \in deltimelist : Finished(n)
    /\ \A n \in Nodes :
          n <= size_ => \/ InAdding(n) \/ InQueue(n)
                        \/ n \in indexlist_ \cup deltimelist
                        \/ Finished(n)

\* A one-shot timer that ran is not going to run again.
OneShotIsOut ==
    \A n \in fired :
        interval[n] = 0 =>
            /\ ~InAdding(n) /\ ~InQueue(n)
            /\ n \notin indexlist_ \cup torun

\* A timer cancelled after it was added is not put back.
CancelHolds ==
    /\ \A x \in waitdeltimelist : cancelled[x[2]] # "no"
    /\ \A n \in Nodes :
          cancelled[n] = "late" /\ ids[n] = n =>
              /\ ~InAdding(n) /\ ~InQueue(n) /\ n \notin indexlist_
              /\ calling /\ n \in deltimelist => <<n, n>> \in waitdeltimelist

PlaceInv ==
    /\ ListsAgree /\ NewIsUnknown /\ OnePlace /\ BatchRuns /\ LeftIsFinished
    /\ OneShotIsOut /\ CancelHolds

\* A timer is added once.
AddedOnce ==
    /\ \A t, u \in Callers : adding[t] # 0 /\ adding[t] = adding[u] => t = u
    /\ \A i, j \in 1..Len(queue) :
          queue[i].op = "add" /\ queue[i] = queue[j] => i = j

\* A timer's timeId is returned once, and a cancel carries the one returned.
ReturnedOnce ==
    /\ \A t, u \in Callers :
          /\ adding[t] # 0 => returning[u] # adding[t]
          /\ returning[t] # 0 /\ returning[t] = returning[u] => t = u
    /\ \A t \in Callers :
          /\ adding[t] # 0 => ids[adding[t]] = 0
          /\ returning[t] # 0 =>
                returning[t] <= size_ /\ ids[returning[t]] = 0
    /\ \A n \in Nodes : cancelled[n] # "no" => ids[n] # 0
    /\ \A i \in 1..Len(queue) :
          queue[i].op = "cancel" =>
              queue[i].index = ids[queue[i].node] /\ ids[queue[i].node] # 0

TimerInv == TypeOK /\ PlaceInv /\ AddedOnce /\ ReturnedOnce

LEMMA AddedIsNowhere ==
    ASSUME NEW n PROVE Added(n) <=> ~InAdding(n) /\ ~InQueue(n)
  BY DEF Added, InAdding, InQueue

\* Nothing happens to the timers: time passes, or the loop's thread is on its
\* way to the batch.
LEMMA NothingMoves ==
    ASSUME TypeOK, PlaceInv, now' \in Nat, now' >= now, now \in Nat,
           calling' <=> calling,
           UNCHANGED <<size_, expiration, interval, ids, list_, indexlist_,
                       deltimelist, torun, waitdeltimelist, fired, cancelled>>,
           \A n \in Nodes : InAdding(n)' <=> InAdding(n),
           \A n \in Nodes : InQueue(n)' <=> InQueue(n)
    PROVE  PlaceInv'
  <1> USE DEF PlaceInv, TypeOK
  <1>1. ListsAgree'
    BY DEF ListsAgree
  <1>2. NewIsUnknown'
    BY DEF NewIsUnknown, Known
  <1>3. OnePlace'
    BY DEF OnePlace
  <1>4. BatchRuns'
    BY DEF BatchRuns
  <1>5. LeftIsFinished'
    BY DEF LeftIsFinished, Finished
  <1>6. OneShotIsOut'
    BY DEF OneShotIsOut
  <1>7. CancelHolds'
    BY DEF CancelHolds
  <1> QED
    BY <1>1, <1>2, <1>3, <1>4, <1>5, <1>6, <1>7

\* A timer that was being added, or whose functor was in the queue, gets into
\* the lists.
LEMMA AddMoves ==
    ASSUME TypeOK, PlaceInv, NEW n \in Nodes, AddTimeNodeInLoop(n), n <= size_,
           InAdding(n) \/ InQueue(n),
           UNCHANGED <<now, size_, expiration, interval, ids, deltimelist,
                       torun, looppc, fired>>,
           \A m \in Nodes : InAdding(m)' <=> InAdding(m) /\ m # n,
           \A m \in Nodes : InQueue(m)' <=> InQueue(m) /\ m # n
    PROVE  PlaceInv'
  <1> USE DEF PlaceInv, TypeOK, AddTimeNodeInLoop
  <1>a. calling' <=> calling
    BY DEF calling
  <1>b. n \notin indexlist_ \cup deltimelist
    BY DEF OnePlace
  <1>1. ListsAgree'
    <2> DEFINE new == <<expiration[n], n>>
    <2>a. new[2] = n /\ list_' = list_ \cup {new}
      OBVIOUS
    <2> HIDE DEF new
    <2>1. {x[2] : x \in list_'} = {x[2] : x \in list_} \cup {n}
      BY Zenon, <2>a
    <2>2. \A x \in list_' : x[1] = expiration[x[2]]
      BY DEF ListsAgree
    <2> QED
      BY <2>1, <2>2 DEF ListsAgree
  <1>2. NewIsUnknown'
    BY DEF NewIsUnknown, Known
  <1>3. OnePlace'
    BY <1>b DEF OnePlace
  <1>4. BatchRuns'
    BY <1>a DEF BatchRuns
  <1>5. LeftIsFinished'
    BY <1>a DEF LeftIsFinished, Finished
  <1>6. OneShotIsOut'
    BY DEF OneShotIsOut
  <1>7. CancelHolds'
    BY <1>a DEF CancelHolds
  <1> QED
    BY <1>1, <1>2, <1>3, <1>4, <1>5, <1>6, <1>7

\* A cancel takes effect: on a timer in the lists, or on one of the batch.
LEMMA DelMoves ==
    ASSUME TypeOK, PlaceInv, NEW n \in Nodes, ids[n] # 0,
           DelTimeNodeInLoop(n, ids[n]),
           UNCHANGED <<now, size_, expiration, interval, ids, deltimelist,
                       torun, looppc, fired>>,
           \A m \in Nodes : InAdding(m)' <=> InAdding(m),
           \A m \in Nodes : InQueue(m)' <=> InQueue(m)
    PROVE  PlaceInv'
  <1> USE DEF PlaceInv, TypeOK
  <1>a. calling' <=> calling
    BY DEF calling
  <1>b. /\ cancelled'[n] \in {"early", "late"}
        /\ \A m \in Nodes \ {n} : cancelled'[m] = cancelled[m]
        /\ cancelled'[n] = "late" <=> ~InAdding(n) /\ ~InQueue(n)
        /\ \A m \in Nodes : cancelled[m] # "no" => cancelled'[m] # "no"
    BY AddedIsNowhere DEF DelTimeNodeInLoop
  <1>c. \/ /\ ids[n] = n /\ n \in indexlist_
           /\ list_' = list_ \ {<<expiration[n], n>>}
           /\ indexlist_' = indexlist_ \ {n}
           /\ UNCHANGED waitdeltimelist
        \/ /\ ids[n] # n \/ n \notin indexlist_
           /\ waitdeltimelist' = IF calling
                                   THEN waitdeltimelist \cup {<<ids[n], n>>}
                                   ELSE waitdeltimelist
           /\ UNCHANGED <<list_, indexlist_>>
    BY DEF DelTimeNodeInLoop
  <1>d. indexlist_' \subseteq indexlist_ /\ indexlist_ \ {n} \subseteq indexlist_'
    BY <1>c
  <1>1. ListsAgree'
    BY <1>c DEF ListsAgree
  <1>2. NewIsUnknown'
    BY <1>b, <1>d DEF NewIsUnknown, Known
  <1>3. OnePlace'
    BY <1>d DEF OnePlace
  <1>4. BatchRuns'
    BY <1>a DEF BatchRuns
  <1>5. LeftIsFinished'
    BY <1>a, <1>b, <1>d DEF LeftIsFinished, Finished
  <1>6. OneShotIsOut'
    BY <1>d DEF OneShotIsOut
  <1>7. CancelHolds'
    <2>1. \A x \in waitdeltimelist' : cancelled'[x[2]] # "no"
      <3> SUFFICES ASSUME NEW x \in waitdeltimelist'
                   PROVE  cancelled'[x[2]] # "no"
        OBVIOUS
      <3>1. CASE x \in waitdeltimelist
        BY <1>b, <3>1 DEF CancelHolds
      <3>2. CASE x = <<ids[n], n>>
        BY <1>b, <3>2
      <3> QED
        BY <1>c, <3>1, <3>2
    <2>2. waitdeltimelist \subseteq waitdeltimelist'
      BY <1>c
    <2>3. ASSUME NEW m \in Nodes, m # n, cancelled'[m] = "late", ids[m] = m
          PROVE  /\ ~InAdding(m) /\ ~InQueue(m) /\ m \notin indexlist_'
                 /\ calling /\ m \in deltimelist
                       => <<m, m>> \in waitdeltimelist'
      BY <1>b, <1>d, <2>2, <2>3 DEF CancelHolds
    <2>4. ASSUME cancelled'[n] = "late", ids[n] = n
          PROVE  /\ ~InAdding(n) /\ ~InQueue(n) /\ n \notin indexlist_'
                 /\ calling /\ n \in deltimelist
                       => <<n, n>> \in waitdeltimelist'
      BY <1>b, <1>c, <2>4 DEF OnePlace
    <2> QED
      BY <1>a, <2>1, <2>3, <2>4 DEF CancelHolds
  <1> QED
    BY <1>1, <1>2, <1>3, <1>4, <1>5, <1>6, <1>7

\* A timer is constructed: its caller is the one place that knows it.
LEMMA NewMoves ==
    ASSUME TypeOK, PlaceInv, NEW t \in Callers, NewTimeNode(t)
    PROVE  /\ PlaceInv'
           /\ size_ + 1 \in Nodes /\ ~Known(size_ + 1)
  <1> USE DEF PlaceInv, TypeOK
  <1> DEFINE n == size_ + 1
  <1>a. n \in Nodes /\ size_' = n /\ ~Known(n)
    BY TimerQueueAssumption
       DEF NewTimeNode, Nodes, NewIsUnknown, TimerQueueAssumption
  <1>b. /\ adding[t] = 0 /\ adding' = [adding EXCEPT ![t] = n]
        /\ \A m \in Nodes \ {n} : /\ expiration'[m] = expiration[m]
                                  /\ interval'[m] = interval[m]
        /\ UNCHANGED <<now, ids, queue, list_, indexlist_, deltimelist, torun,
                       looppc, fired, waitdeltimelist, cancelled>>
    BY DEF NewTimeNode, InUserCode, InAddTimeNode, listvars, batchvars
  <1>c. \A m \in Nodes : InAdding(m)' <=> InAdding(m) \/ m = n
    BY <1>a, <1>b DEF InAdding, Nodes
  <1>d. /\ \A m \in Nodes : InQueue(m)' <=> InQueue(m)
        /\ calling' <=> calling
    BY <1>b DEF InQueue, calling
  <1>e. /\ ~InQueue(n) /\ cancelled[n] = "no"
        /\ n \notin indexlist_ \cup deltimelist \cup fired
    BY <1>a DEF Known
  <1> HIDE DEF n
  <1>1. ListsAgree'
    <2>1. \A x \in list_ : x[2] \in indexlist_ /\ x[2] \in Nodes
      BY DEF ListsAgree
    <2> QED
      BY <1>b, <1>e, <2>1 DEF ListsAgree
  <1>2. NewIsUnknown'
    <2>1. \A m \in Nodes : m > size_' => m > size_ /\ m # n
      BY <1>a DEF n, Nodes
    <2> QED
      BY <1>b, <1>c, <1>d, <2>1 DEF NewIsUnknown, Known
  <1>3. OnePlace'
    BY <1>b, <1>c, <1>d, <1>e DEF OnePlace
  <1>4. BatchRuns'
    BY <1>b, <1>d, <1>e DEF BatchRuns
  <1>5. LeftIsFinished'
    <2>1. \A m \in Nodes : m <= size_' => m <= size_ \/ m = n
      BY <1>a DEF n, Nodes
    <2> QED
      BY <1>b, <1>c, <1>d, <1>e, <2>1 DEF LeftIsFinished, Finished
  <1>6. OneShotIsOut'
    BY <1>b, <1>c, <1>d, <1>e DEF OneShotIsOut
  <1>7. CancelHolds'
    BY <1>b, <1>c, <1>d, <1>e DEF CancelHolds
  <1> QED
    BY <1>1, <1>2, <1>3, <1>4, <1>5, <1>6, <1>7, <1>a DEF n

\* The call hands its timer to the loop's thread.
LEMMA QueuedMoves ==
    ASSUME TypeOK, PlaceInv, NEW n \in Nodes, InAdding(n),
           UNCHANGED <<now, size_, expiration, interval, ids, listvars,
                       batchvars, waitdeltimelist, cancelled>>,
           \A m \in Nodes : InAdding(m)' <=> InAdding(m) /\ m # n,
           \A m \in Nodes : InQueue(m)' <=> InQueue(m) \/ m = n
    PROVE  PlaceInv'
  <1> USE DEF PlaceInv, TypeOK, listvars, batchvars
  <1>a. calling' <=> calling
    BY DEF calling
  <1>b. n \notin indexlist_ \cup deltimelist
    BY DEF OnePlace
  <1>1. ListsAgree'
    BY DEF ListsAgree
  <1>2. NewIsUnknown'
    BY DEF NewIsUnknown, Known
  <1>3. OnePlace'
    BY <1>b DEF OnePlace
  <1>4. BatchRuns'
    BY <1>a DEF BatchRuns
  <1>5. LeftIsFinished'
    BY <1>a DEF LeftIsFinished, Finished
  <1>6. OneShotIsOut'
    BY DEF OneShotIsOut
  <1>7. CancelHolds'
    BY <1>a DEF CancelHolds
  <1> QED
    BY <1>1, <1>2, <1>3, <1>4, <1>5, <1>6, <1>7

\* A caller gets its timeId: nobody can have cancelled that timer before.
LEMMA ReturnMoves ==
    ASSUME TypeOK, PlaceInv, ReturnedOnce, NEW t \in Callers, ReturnTimeId(t)
    PROVE  PlaceInv'
  <1> USE DEF PlaceInv, TypeOK
  <1> DEFINE n == returning[t]
  <1>a. /\ n \in Nodes /\ n <= size_ /\ ids[n] = 0 /\ cancelled[n] = "no"
        /\ \A m \in Nodes \ {n} : ids'[m] = ids[m]
    BY DEF ReturnTimeId, ReturnedOnce, Nodes
  <1>b. UNCHANGED <<now, size_, expiration, interval, adding, queue, list_,
                    indexlist_, deltimelist, torun, looppc, fired,
                    waitdeltimelist, cancelled>>
    BY DEF ReturnTimeId, listvars, batchvars
  <1>c. /\ \A m \in Nodes : InAdding(m)' <=> InAdding(m)
        /\ \A m \in Nodes : InQueue(m)' <=> InQueue(m)
        /\ calling' <=> calling
    BY <1>b DEF InAdding, InQueue, calling
  <1> HIDE DEF n
  <1>1. ListsAgree'
    BY <1>b DEF ListsAgree
  <1>2. NewIsUnknown'
    BY <1>a, <1>b, <1>c DEF NewIsUnknown, Known, Nodes
  <1>3. OnePlace'
    BY <1>b, <1>c DEF OnePlace
  <1>4. BatchRuns'
    BY <1>b, <1>c DEF BatchRuns
  <1>5. LeftIsFinished'
    BY <1>b, <1>c DEF LeftIsFinished, Finished
  <1>6. OneShotIsOut'
    BY <1>b, <1>c DEF OneShotIsOut
  <1>7. CancelHolds'
    BY <1>a, <1>b, <1>c DEF CancelHolds
  <1> QED
    BY <1>1, <1>2, <1>3, <1>4, <1>5, <1>6, <1>7

\* getExpired: what was left of the last batch is destroyed, and the expired
\* timers are the next one.
LEMMA ExpiredMove ==
    ASSUME TypeOK, PlaceInv, GetExpired
    PROVE  PlaceInv'
  <1> USE DEF PlaceInv, TypeOK
  <1>a. /\ torun = {} /\ ~calling /\ calling'
        /\ torun' = deltimelist'
        /\ list_' = list_ \ Expired /\ indexlist_' = indexlist_ \ deltimelist'
        /\ UNCHANGED <<now, size_, expiration, interval, adding, ids, queue,
                       fired, waitdeltimelist, cancelled>>
    BY DEF GetExpired, calling, callvars, BatchRuns
  <1>b. /\ \A m \in Nodes : InAdding(m)' <=> InAdding(m)
        /\ \A m \in Nodes : InQueue(m)' <=> InQueue(m)
    BY <1>a DEF InAdding, InQueue
  <1>c. /\ \A m : m \in deltimelist' <=> \E x \in list_ : x[1] < now /\ x[2] = m
        /\ \A m : m \in indexlist_ <=> \E x \in list_ : x[2] = m
        /\ \A x \in list_ : x[1] = expiration[x[2]]
    BY DEF GetExpired, Expired, ListsAgree
  <1>d. /\ deltimelist' \subseteq indexlist_ /\ indexlist_ \subseteq Nodes
        /\ deltimelist \subseteq Nodes
        /\ \A m \in deltimelist' : expiration[m] < now
    BY <1>c
  <1>1. ListsAgree'
    <2>1. \A x \in list_ : x \in Expired <=> x[2] \in deltimelist'
      BY <1>c DEF Expired
    <2>2. \A m : m \in indexlist_' <=> \E x \in list_' : x[2] = m
      BY <1>a, <1>c, <2>1
    <2> QED
      BY <1>a, <1>c, <2>2 DEF ListsAgree
  <1>2. NewIsUnknown'
    BY <1>a, <1>b, <1>d DEF NewIsUnknown, Known
  <1>3. OnePlace'
    BY <1>a, <1>b, <1>d DEF OnePlace
  <1>4. BatchRuns'
    BY <1>a, <1>d DEF BatchRuns
  <1>5. LeftIsFinished'
    BY <1>a, <1>b, <1>d DEF LeftIsFinished, Finished
  <1>6. OneShotIsOut'
    BY <1>a, <1>b, <1>d DEF OneShotIsOut
  <1>7. CancelHolds'
    BY <1>a, <1>b, <1>d DEF CancelHolds
  <1> QED
    BY <1>1, <1>2, <1>3, <1>4, <1>5, <1>6, <1>7

LEMMA TimerRuns ==
    ASSUME TypeOK, PlaceInv, NEW n \in Nodes, RunTimer(n)
    PROVE  PlaceInv'
  <1> USE DEF PlaceInv, TypeOK
  <1>a. /\ n \in torun /\ n \in deltimelist
        /\ torun' = torun \ {n} /\ fired' = fired \cup {n} /\ calling
        /\ UNCHANGED <<now, size_, expiration, interval, adding, ids, queue,
                       list_, indexlist_, deltimelist, looppc, waitdeltimelist,
                       cancelled>>
    BY DEF RunTimer, callvars, listvars
  <1>b. /\ \A m \in Nodes : InAdding(m)' <=> InAdding(m)
        /\ \A m \in Nodes : InQueue(m)' <=> InQueue(m)
        /\ calling'
    BY <1>a DEF InAdding, InQueue, calling
  <1>1. ListsAgree'
    BY <1>a DEF ListsAgree
  <1>2. NewIsUnknown'
    BY <1>a, <1>b DEF NewIsUnknown, Known
  <1>3. OnePlace'
    BY <1>a, <1>b DEF OnePlace
  <1>4. BatchRuns'
    BY <1>a, <1>b DEF BatchRuns
  <1>5. LeftIsFinished'
    BY <1>a, <1>b DEF LeftIsFinished, Finished
  <1>6. OneShotIsOut'
    BY <1>a, <1>b DEF OneShotIsOut, OnePlace
  <1>7. CancelHolds'
    BY <1>a, <1>b DEF CancelHolds
  <1> QED
    BY <1>1, <1>2, <1>3, <1>4, <1>5, <1>6, <1>7

\* fflash: the repeating timers that were not cancelled go back; the others
\* ran, being one-shot, or were cancelled.
LEMMA BatchEnds ==
    ASSUME TypeOK, PlaceInv, Fflash
    PROVE  PlaceInv'
  <1> USE DEF PlaceInv, TypeOK
  <1>a. /\ calling /\ ~calling' /\ torun = {}
        /\ indexlist_' = indexlist_ \cup PutBack
        /\ deltimelist' = deltimelist \ PutBack
        /\ list_' = list_ \cup {<<expiration'[n], n>> : n \in PutBack}
        /\ \A n \in Nodes \ PutBack : expiration'[n] = expiration[n]
        /\ UNCHANGED <<now, size_, interval, adding, ids, queue, torun, fired,
                       waitdeltimelist, cancelled>>
    BY DEF Fflash, callvars, calling
  <1>b. /\ \A m \in Nodes : InAdding(m)' <=> InAdding(m)
        /\ \A m \in Nodes : InQueue(m)' <=> InQueue(m)
    BY <1>a DEF InAdding, InQueue
  <1>c. /\ PutBack \subseteq deltimelist
        /\ \A n \in deltimelist :
              n \in PutBack <=> /\ interval[n] > 0
                                /\ <<n, n>> \notin waitdeltimelist
    BY DEF PutBack
  <1>1. ListsAgree'
    <2>1. \A x \in list_ : x[2] \in Nodes \ PutBack /\ x[2] \in indexlist_
      BY <1>c DEF ListsAgree, OnePlace
    <2>2. \A x \in list_' : x[1] = expiration'[x[2]]
      BY <1>a, <2>1 DEF ListsAgree
    <2>3. \A m : m \in indexlist_' <=> \E x \in list_' : x[2] = m
      <3>1. \A m \in PutBack : <<expiration'[m], m>> \in list_'
                               /\ <<expiration'[m], m>>[2] = m
        BY <1>a
      <3>2. \A x \in list_' : x \in list_ \/ x[2] \in PutBack
        BY <1>a
      <3>3. \A m : m \in indexlist_ <=> \E x \in list_ : x[2] = m
        BY DEF ListsAgree
      <3>4. list_ \subseteq list_'
        BY <1>a
      <3> SUFFICES ASSUME NEW m
                   PROVE  m \in indexlist_' <=> \E x \in list_' : x[2] = m
        OBVIOUS
      <3>5. CASE m \in PutBack
        BY <1>a, <3>1, <3>5
      <3>6. CASE m \notin PutBack
        <4>1. m \in indexlist_' <=> m \in indexlist_
          BY <1>a, <3>6
        <4> QED
          BY <3>2, <3>3, <3>4, <3>6, <4>1
      <3> QED
        BY <3>5, <3>6
    <2> QED
      BY <2>2, <2>3 DEF ListsAgree
  <1>2. NewIsUnknown'
    BY <1>a, <1>b, <1>c DEF NewIsUnknown, Known
  <1>3. OnePlace'
    BY <1>a, <1>b, <1>c DEF OnePlace
  <1>4. BatchRuns'
    BY <1>a DEF BatchRuns
  <1>5. LeftIsFinished'
    <2>1. \A n \in deltimelist' : Finished(n)'
      <3> SUFFICES ASSUME NEW n \in deltimelist'
                   PROVE  (interval[n] = 0 /\ n \in fired) \/ cancelled[n] # "no"
        BY <1>a DEF Finished
      <3>1. n \in deltimelist /\ n \in fired /\ interval[n] \in Nat
        BY <1>a DEF BatchRuns
      <3>2. CASE <<n, n>> \in waitdeltimelist
        BY <3>2 DEF CancelHolds
      <3>3. CASE <<n, n>> \notin waitdeltimelist
        BY <1>a, <1>c, <3>1, <3>3
      <3> QED
        BY <3>2, <3>3
    <2> QED
      BY <1>a, <1>b, <2>1 DEF LeftIsFinished, Finished
  <1>6. OneShotIsOut'
    <2>1. \A n \in PutBack : interval[n] # 0
      BY DEF PutBack
    <2> QED
      BY <1>a, <1>b, <2>1 DEF OneShotIsOut
  <1>7. CancelHolds'
    BY <1>a, <1>b, <1>c DEF CancelHolds
  <1> QED
    BY <1>1, <1>2, <1>3, <1>4, <1>5, <1>6, <1>7

-----------------------------------------------------------------------------
(* The queue of functors.                                                  *)
LEMMA QueueGrows ==
    ASSUME TypeOK, AddedOnce, NEW f \in Functors, queue' = Append(queue, f),
           \A n \in Nodes : f = [op |-> "add", node |-> n] => ~InQueue(n)
    PROVE  /\ \A n \in Nodes :
                 InQueue(n)' <=> InQueue(n) \/ f = [op |-> "add", node |-> n]
           /\ \A i, j \in 1..Len(queue') :
                 queue'[i].op = "add" /\ queue'[i] = queue'[j] => i = j
           /\ \A i \in 1..Len(queue') :
                 \/ i \in 1..Len(queue) /\ queue'[i] = queue[i]
                 \/ queue'[i] = f
  <1>1. /\ queue \in Seq(Functors) /\ Len(queue) \in Nat
        /\ Len(queue') = Len(queue) + 1
        /\ \A i \in 1..Len(queue) : queue'[i] = queue[i]
        /\ queue'[Len(queue) + 1] = f
    BY DEF TypeOK
  <1>2. \A i : i \in 1..Len(queue') <=> i \in 1..Len(queue) \/ i = Len(queue) + 1
    BY <1>1
  <1>3. \A i \in 1..Len(queue) : queue[i].op = "add" => queue[i] # f
    <2> SUFFICES ASSUME NEW i \in 1..Len(queue), queue[i].op = "add",
                        queue[i] = f
                 PROVE  FALSE
      OBVIOUS
    <2>1. PICK n \in Nodes : f = [op |-> "add", node |-> n]
      BY DEF Functors
    <2> QED
      BY <2>1 DEF InQueue
  <1>4. \A n \in Nodes :
           InQueue(n)' <=> InQueue(n) \/ f = [op |-> "add", node |-> n]
    BY <1>1, <1>2 DEF InQueue
  <1>5. \A i, j \in 1..Len(queue') :
           queue'[i].op = "add" /\ queue'[i] = queue'[j] => i = j
    BY <1>1, <1>2, <1>3 DEF AddedOnce
  <1> QED
    BY <1>1, <1>2, <1>4, <1>5

LEMMA QueueShrinks ==
    ASSUME TypeOK, AddedOnce, queue # <<>>, queue' = Tail(queue)
    PROVE  /\ Head(queue) \in Functors
           /\ \A n \in Nodes :
                 /\ InQueue(n)' <=>
                       InQueue(n) /\ Head(queue) # [op |-> "add", node |-> n]
                 /\ Head(queue) = [op |-> "add", node |-> n] => InQueue(n)
           /\ \A i, j \in 1..Len(queue') :
                 queue'[i].op = "add" /\ queue'[i] = queue'[j] => i = j
           /\ \A i \in 1..Len(queue') :
                 \E j \in 1..Len(queue) : queue'[i] = queue[j]
           /\ \E i \in 1..Len(queue) : queue[i] = Head(queue)
  <1>1. /\ queue \in Seq(Functors) /\ Len(queue) \in Nat /\ Len(queue) >= 1
        /\ Len(queue') = Len(queue) - 1
        /\ \A i \in 1..Len(queue') : queue'[i] = queue[i + 1]
        /\ Head(queue) = queue[1]
    BY DEF TypeOK
  <1>2. \A i \in 1..Len(queue') : i + 1 \in 1..Len(queue) /\ i + 1 # 1
    BY <1>1
  <1>3. \A i \in 1..Len(queue) : i = 1 \/ i - 1 \in 1..Len(queue')
    BY <1>1
  <1>4. 1 \in 1..Len(queue)
    BY <1>1
  <1>5. \A n \in Nodes :
           /\ InQueue(n)' <=>
                 InQueue(n) /\ Head(queue) # [op |-> "add", node |-> n]
           /\ Head(queue) = [op |-> "add", node |-> n] => InQueue(n)
    <2> SUFFICES ASSUME NEW n \in Nodes
                 PROVE  /\ InQueue(n)' <=>
                              /\ InQueue(n)
                              /\ Head(queue) # [op |-> "add", node |-> n]
                        /\ Head(queue) = [op |-> "add", node |-> n]
                              => InQueue(n)
      OBVIOUS
    <2>1. ASSUME InQueue(n)'
          PROVE  InQueue(n) /\ Head(queue) # [op |-> "add", node |-> n]
      <3>1. PICK i \in 1..Len(queue') : queue'[i] = [op |-> "add", node |-> n]
        BY <2>1 DEF InQueue
      <3>2. queue[i + 1] = [op |-> "add", node |-> n] /\ i + 1 \in 1..Len(queue)
        BY <1>1, <1>2, <3>1
      <3>3. queue[1] # [op |-> "add", node |-> n]
        BY <1>2, <1>4, <3>1, <3>2 DEF AddedOnce
      <3> QED
        BY <1>1, <3>2, <3>3 DEF InQueue
    <2>2. ASSUME InQueue(n), Head(queue) # [op |-> "add", node |-> n]
          PROVE  InQueue(n)'
      <3>1. PICK i \in 1..Len(queue) : queue[i] = [op |-> "add", node |-> n]
        BY <2>2 DEF InQueue
      <3>2. i - 1 \in 1..Len(queue') /\ queue'[i - 1] = queue[i]
        BY <1>1, <1>3, <2>2, <3>1
      <3> QED
        BY <3>1, <3>2 DEF InQueue
    <2>3. Head(queue) = [op |-> "add", node |-> n] => InQueue(n)
      BY <1>1, <1>4 DEF InQueue
    <2> QED
      BY <2>1, <2>2, <2>3
  <1>6. \A i, j \in 1..Len(queue') :
           queue'[i].op = "add" /\ queue'[i] = queue'[j] => i = j
    <2> SUFFICES ASSUME NEW i \in 1..Len(queue'), NEW j \in 1..Len(queue'),
                        queue'[i].op = "add", queue'[i] = queue'[j]
                 PROVE  i = j
      OBVIOUS
    <2>1. i + 1 = j + 1
      BY <1>1, <1>2 DEF AddedOnce
    <2> QED
      BY <2>1
  <1> QED
    BY <1>1, <1>2, <1>4, <1>5, <1>6

-----------------------------------------------------------------------------
LEMMA TimerInvInit == Init => TimerInv
  <1> SUFFICES ASSUME Init PROVE TimerInv
    OBVIOUS
  <1>1. /\ \A n \in Nodes : n # 0
        /\ Len(queue) = 0 /\ 1..0 = {}
    BY DEF Init, Nodes
  <1>2. \A n \in Nodes : ~InAdding(n) /\ ~InQueue(n)
    BY <1>1 DEF Init, InAdding, InQueue
  <1>3. PlaceInv
    BY <1>1, <1>2
       DEF Init, PlaceInv, ListsAgree, NewIsUnknown, Known, OnePlace,
           BatchRuns, LeftIsFinished, OneShotIsOut, CancelHolds, Nodes
  <1>4. AddedOnce /\ ReturnedOnce
    BY <1>1 DEF Init, AddedOnce, ReturnedOnce
  <1> QED
    BY <1>3, <1>4, TypeOKInit DEF TimerInv

\* The callers' part of the invariant, for what leaves the callers alone.
LEMMA CallersStay ==
    ASSUME TimerInv,
           UNCHANGED <<size_, adding, returning, ids, queue, cancelled>>
    PROVE  AddedOnce' /\ ReturnedOnce'
  BY DEF TimerInv, AddedOnce, ReturnedOnce

LEMMA NewStep ==
    ASSUME TimerInv, NEW t \in Callers, NewTimeNode(t)
    PROVE  PlaceInv' /\ AddedOnce' /\ ReturnedOnce'
  <1> USE DEF TimerInv, TypeOK
  <1> DEFINE n == size_ + 1
  <1>1. PlaceInv' /\ n \in Nodes /\ ~Known(n)
    BY NewMoves
  <1>2. /\ adding[t] = 0 /\ adding' = [adding EXCEPT ![t] = n] /\ size_' = n
        /\ UNCHANGED <<returning, ids, queue, cancelled>>
    BY DEF NewTimeNode, InUserCode, InAddTimeNode
  <1>3. /\ \A u \in Callers : adding[u] # n /\ returning[u] # n
        /\ ids[n] = 0 /\ n # 0 /\ size_ <= n
    BY <1>1 DEF Known, InAdding, ReturnedOnce, Nodes
  <1>4. \A u \in Callers : adding'[u] = IF u = t THEN n ELSE adding[u]
    BY <1>2
  <1> HIDE DEF n
  <1>5. AddedOnce'
    BY <1>2, <1>3, <1>4 DEF AddedOnce
  <1>6. \A u \in Callers : returning[u] <= size_ => returning[u] <= size_'
    BY <1>2 DEF n
  <1>7. ReturnedOnce'
    BY <1>2, <1>3, <1>4, <1>6 DEF ReturnedOnce
  <1> QED
    BY <1>1, <1>5, <1>7

LEMMA AddStep ==
    ASSUME TimerInv, NEW t \in Callers, AddTimeNode(t)
    PROVE  PlaceInv' /\ AddedOnce' /\ ReturnedOnce'
  <1> USE DEF TimerInv, TypeOK
  <1> DEFINE n == adding[t]
             f == [op |-> "add", node |-> n]
  <1>1. /\ n \in Nodes /\ InAdding(n) /\ ~InQueue(n) /\ n # 0 /\ ids[n] = 0
        /\ n <= size_
    <2>1. n \in Nodes /\ InAdding(n)
      BY DEF AddTimeNode, InAdding, Nodes
    <2>2. ~(n > size_)
      BY <2>1 DEF PlaceInv, NewIsUnknown, Known
    <2> QED
      BY <2>1, <2>2 DEF PlaceInv, OnePlace, ReturnedOnce, Nodes
  <1>2. /\ \A u \in Callers : adding'[u] = IF u = t THEN 0 ELSE adding[u]
        /\ \A u \in Callers : returning'[u] = IF u = t THEN n ELSE returning[u]
        /\ UNCHANGED <<now, size_, expiration, interval, ids, batchvars>>
    BY DEF AddTimeNode
  <1>3. \A m \in Nodes : InAdding(m)' <=> InAdding(m) /\ m # n
    <2> SUFFICES ASSUME NEW m \in Nodes
                 PROVE  InAdding(m)' <=> InAdding(m) /\ m # n
      OBVIOUS
    <2>1. m # 0
      BY DEF Nodes
    <2> QED
      BY <1>2, <2>1 DEF InAdding, AddedOnce, AddTimeNode
  <1>4. f \in Functors
    BY <1>1 DEF Functors
  <1>5. CASE t = Loop
    <2>1. AddTimeNodeInLoop(n) /\ UNCHANGED queue
      BY <1>5 DEF AddTimeNode
    <2>2. \A m \in Nodes : InQueue(m)' <=> InQueue(m) /\ m # n
      BY <1>1, <2>1 DEF InQueue
    <2>3. PlaceInv'
      BY <1>1, <1>2, <1>3, <2>1, <2>2, AddMoves DEF batchvars
    <2>4. AddedOnce'
      BY <1>2, <2>1 DEF AddedOnce
    <2>5. ReturnedOnce'
      <3>1. UNCHANGED cancelled
        BY <2>1 DEF AddTimeNodeInLoop
      <3> QED
        BY <1>1, <1>2, <2>1, <3>1 DEF ReturnedOnce, AddedOnce
    <2> QED
      BY <2>3, <2>4, <2>5
  <1>6. CASE t # Loop
    <2>1. /\ queue' = Append(queue, f)
          /\ UNCHANGED <<listvars, waitdeltimelist, cancelled>>
      BY <1>6 DEF AddTimeNode
    <2>2. \A m \in Nodes : f = [op |-> "add", node |-> m] <=> m = n
      OBVIOUS
    <2>3. /\ \A m \in Nodes : InQueue(m)' <=> InQueue(m) \/ m = n
          /\ \A i, j \in 1..Len(queue') :
                queue'[i].op = "add" /\ queue'[i] = queue'[j] => i = j
          /\ \A i \in 1..Len(queue') :
                \/ i \in 1..Len(queue) /\ queue'[i] = queue[i]
                \/ queue'[i] = f
      <3> HIDE DEF f
      <3>1. \A m \in Nodes : f = [op |-> "add", node |-> m] => ~InQueue(m)
        BY <1>1, <2>2
      <3>2. TypeOK /\ AddedOnce
        OBVIOUS
      <3> HIDE DEF TimerInv, TypeOK
      <3>3. /\ \A m \in Nodes :
                  InQueue(m)' <=> InQueue(m) \/ f = [op |-> "add", node |-> m]
            /\ \A i, j \in 1..Len(queue') :
                  queue'[i].op = "add" /\ queue'[i] = queue'[j] => i = j
            /\ \A i \in 1..Len(queue') :
                  \/ i \in 1..Len(queue) /\ queue'[i] = queue[i]
                  \/ queue'[i] = f
        BY <1>4, <2>1, <3>1, <3>2, QueueGrows
      <3> QED
        BY <2>2, <3>3
    <2>4. PlaceInv'
      BY <1>1, <1>2, <1>3, <2>1, <2>3, QueuedMoves
    <2> HIDE DEF f, n
    <2>5. AddedOnce'
      <3>1. \A u, v \in Callers :
               adding'[u] # 0 /\ adding'[u] = adding'[v] => u = v
        BY <1>2 DEF AddedOnce
      <3> QED
        BY <2>3, <3>1 DEF AddedOnce
    <2>6. ReturnedOnce'
      <3>1. \A i \in 1..Len(queue') :
               queue'[i].op = "cancel" =>
                   /\ queue'[i].index = ids[queue'[i].node]
                   /\ ids[queue'[i].node] # 0
        <4>1. f.op # "cancel"
          BY DEF f
        <4> QED
          BY <2>3, <4>1 DEF ReturnedOnce
      <3>2. \A u \in Callers : adding[u] = n => u = t
        BY <1>1 DEF AddedOnce, n
      <3>3. \A u \in Callers : returning[u] # n
        BY <1>1 DEF ReturnedOnce, n
      <3> QED
        BY <1>1, <1>2, <2>1, <3>1, <3>2, <3>3, SMTT(30) DEF ReturnedOnce
    <2> QED
      BY <2>4, <2>5, <2>6
  <1> QED
    BY <1>5, <1>6

LEMMA ReturnStep ==
    ASSUME TimerInv, NEW t \in Callers, ReturnTimeId(t)
    PROVE  PlaceInv' /\ AddedOnce' /\ ReturnedOnce'
  <1> USE DEF TimerInv, TypeOK
  <1> DEFINE n == returning[t]
  <1>1. /\ n \in Nodes /\ n <= size_ /\ ids[n] = 0 /\ size_ # 0 /\ n # 0
        /\ \A m \in Nodes : ids'[m] = IF m = n THEN size_ ELSE ids[m]
        /\ \A u \in Callers : returning'[u] = IF u = t THEN 0 ELSE returning[u]
        /\ UNCHANGED <<size_, adding, queue, cancelled>>
    BY DEF ReturnTimeId, ReturnedOnce, Nodes
  <1>2. PlaceInv'
    BY ReturnMoves
  <1>3. AddedOnce'
    BY <1>1 DEF AddedOnce
  <1>4. ReturnedOnce'
    <2>1. \A u \in Callers :
             /\ adding[u] # 0 => adding[u] \in Nodes /\ adding[u] # n
             /\ returning[u] # 0 => returning[u] \in Nodes
             /\ u # t => returning[u] # n
      BY <1>1 DEF ReturnedOnce, Nodes
    <2>2. \A i \in 1..Len(queue) :
             queue[i].op = "cancel" => queue[i].node \in Nodes
                                       /\ queue[i].node # n
      <3>1. \A i \in 1..Len(queue) : queue[i] \in Functors
        OBVIOUS
      <3>2. \A i \in 1..Len(queue) :
               queue[i].op = "cancel" => queue[i].node \in Nodes
        BY <3>1 DEF Functors
      <3> QED
        BY <1>1, <3>2 DEF ReturnedOnce
    <2> HIDE DEF n
    <2> QED
      BY <1>1, <2>1, <2>2, SMTT(30) DEF ReturnedOnce
  <1> QED
    BY <1>2, <1>3, <1>4

\* A cancel that takes effect, called or run from the queue.
LEMMA CancelledOnce ==
    ASSUME TimerInv, NEW n \in Nodes, ids[n] # 0, NEW k,
           DelTimeNodeInLoop(n, k)
    PROVE  \A m \in Nodes : cancelled'[m] # "no" => ids[m] # 0
  BY DEF TimerInv, TypeOK, ReturnedOnce, DelTimeNodeInLoop

LEMMA CancelStep ==
    ASSUME TimerInv, NEW t \in Callers, NEW n \in Nodes, Cancel(t, n)
    PROVE  PlaceInv' /\ AddedOnce' /\ ReturnedOnce'
  <1> USE DEF TimerInv, TypeOK
  <1>1. /\ ids[n] # 0 /\ ids[n] \in Nodes
        /\ UNCHANGED <<now, size_, expiration, interval, adding, returning, ids,
                       batchvars>>
    <2>1. ids[n] \in Nodes
      BY DEF Cancel, Nodes
    <2> QED
      BY <2>1 DEF Cancel, callvars, Nodes
  <1>2. \A m \in Nodes : InAdding(m)' <=> InAdding(m)
    BY <1>1 DEF InAdding
  <1>3. CASE t = Loop
    <2>1. DelTimeNodeInLoop(n, ids[n]) /\ UNCHANGED queue
      BY <1>3 DEF Cancel
    <2>2. \A m \in Nodes : InQueue(m)' <=> InQueue(m)
      BY <2>1 DEF InQueue
    <2>3. PlaceInv'
      BY <1>1, <1>2, <2>1, <2>2, DelMoves DEF batchvars
    <2>4. AddedOnce'
      BY <1>1, <2>1 DEF AddedOnce
    <2>5. ReturnedOnce'
      <3>1. \A m \in Nodes : cancelled'[m] # "no" => ids'[m] # 0
        BY <1>1, <2>1, CancelledOnce
      <3> QED
        BY <1>1, <2>1, <3>1 DEF ReturnedOnce
    <2> QED
      BY <2>3, <2>4, <2>5
  <1>4. CASE t # Loop
    <2> DEFINE f == [op |-> "cancel", node |-> n, index |-> ids[n]]
    <2>1. /\ queue' = Append(queue, f)
          /\ UNCHANGED <<listvars, waitdeltimelist, cancelled>>
      BY <1>4 DEF Cancel
    <2>2. /\ f \in Functors /\ f.op = "cancel" /\ f.node = n /\ f.index = ids[n]
          /\ \A m \in Nodes : f # [op |-> "add", node |-> m]
      BY <1>1 DEF Functors
    <2> HIDE DEF f
    <2>3. /\ \A m \in Nodes : InQueue(m)' <=> InQueue(m)
          /\ \A i, j \in 1..Len(queue') :
                queue'[i].op = "add" /\ queue'[i] = queue'[j] => i = j
          /\ \A i \in 1..Len(queue') :
                \/ i \in 1..Len(queue) /\ queue'[i] = queue[i]
                \/ queue'[i] = f
      <3>1. TypeOK /\ AddedOnce
        OBVIOUS
      <3> HIDE DEF TimerInv, TypeOK
      <3>2. /\ \A m \in Nodes :
                  InQueue(m)' <=> InQueue(m) \/ f = [op |-> "add", node |-> m]
            /\ \A i, j \in 1..Len(queue') :
                  queue'[i].op = "add" /\ queue'[i] = queue'[j] => i = j
            /\ \A i \in 1..Len(queue') :
                  \/ i \in 1..Len(queue) /\ queue'[i] = queue[i]
                  \/ queue'[i] = f
        BY <2>1, <2>2, <3>1, QueueGrows
      <3> QED
        BY <2>2, <3>2
    <2>4. PlaceInv'
      <3>1. (calling' <=> calling) /\ now \in Nat /\ now' >= now /\ now' \in Nat
        BY <1>1, TimerQueueAssumption
           DEF calling, batchvars, TimerQueueAssumption
      <3> QED
        BY <1>1, <1>2, <2>1, <2>3, <3>1, NothingMoves DEF listvars, batchvars
    <2>5. AddedOnce'
      BY <1>1, <2>3 DEF AddedOnce
    <2>6. ReturnedOnce'
      BY <1>1, <2>1, <2>2, <2>3, SMTT(30) DEF ReturnedOnce
    <2> QED
      BY <2>4, <2>5, <2>6
  <1> QED
    BY <1>3, <1>4

LEMMA FunctorStep ==
    ASSUME TimerInv, RunFunctor
    PROVE  PlaceInv' /\ AddedOnce' /\ ReturnedOnce'
  <1> USE DEF TimerInv, TypeOK
  <1> DEFINE f == Head(queue)
  <1>1. /\ queue # <<>> /\ queue' = Tail(queue)
        /\ UNCHANGED <<now, size_, expiration, interval, adding, returning, ids,
                       batchvars>>
        /\ IF f.op = "add" THEN AddTimeNodeInLoop(f.node)
                           ELSE DelTimeNodeInLoop(f.node, f.index)
    BY DEF RunFunctor, callvars
  <1>2. /\ f \in Functors
        /\ \A n \in Nodes :
              /\ InQueue(n)' <=>
                    InQueue(n) /\ f # [op |-> "add", node |-> n]
              /\ f = [op |-> "add", node |-> n] => InQueue(n)
        /\ \A i, j \in 1..Len(queue') :
              queue'[i].op = "add" /\ queue'[i] = queue'[j] => i = j
        /\ \A i \in 1..Len(queue') :
              \E j \in 1..Len(queue) : queue'[i] = queue[j]
        /\ \E i \in 1..Len(queue) : queue[i] = f
    BY <1>1, QueueShrinks
  <1>3. \A m \in Nodes : InAdding(m)' <=> InAdding(m)
    BY <1>1 DEF InAdding
  <1>4. AddedOnce'
    BY <1>1, <1>2 DEF AddedOnce
  <1>5. CASE f.op = "add"
    <2>1. PICK n \in Nodes : f = [op |-> "add", node |-> n]
      BY <1>2, <1>5 DEF Functors
    <2>2. f.node = n /\ \A m \in Nodes : f = [op |-> "add", node |-> m] <=> m = n
      BY <2>1
    <2>3. InQueue(n) /\ ~InAdding(n) /\ n <= size_
      <3>1. InQueue(n)
        BY <1>2, <2>1
      <3>2. ~(n > size_)
        BY <3>1 DEF PlaceInv, NewIsUnknown, Known
      <3> QED
        BY <3>1, <3>2 DEF PlaceInv, OnePlace, Nodes
    <2>4. AddTimeNodeInLoop(n)
      BY <1>1, <1>5, <2>2
    <2> HIDE DEF f
    <2>5. PlaceInv'
      <3>1. /\ \A m \in Nodes : InAdding(m)' <=> InAdding(m) /\ m # n
            /\ \A m \in Nodes : InQueue(m)' <=> InQueue(m) /\ m # n
        BY <1>2, <1>3, <2>2, <2>3
      <3> QED
        BY <1>1, <2>3, <2>4, <3>1, AddMoves DEF batchvars
    <2>6. ReturnedOnce'
      <3>1. UNCHANGED cancelled
        BY <2>4 DEF AddTimeNodeInLoop
      <3> QED
        BY <1>1, <1>2, <3>1 DEF ReturnedOnce
    <2> QED
      BY <1>4, <2>5, <2>6
  <1>6. CASE f.op # "add"
    <2>1. f.op = "cancel" /\ f.node \in Nodes
      BY <1>2, <1>6 DEF Functors
    <2>2. f.index = ids[f.node] /\ ids[f.node] # 0
      BY <1>2, <2>1 DEF ReturnedOnce
    <2>3. DelTimeNodeInLoop(f.node, ids[f.node])
      BY <1>1, <1>6, <2>2
    <2>4. \A m \in Nodes : f # [op |-> "add", node |-> m]
      BY <1>6
    <2> HIDE DEF f
    <2>5. PlaceInv'
      <3>1. \A m \in Nodes : InQueue(m)' <=> InQueue(m)
        BY <1>2, <2>4
      <3> QED
        BY <1>1, <1>3, <2>1, <2>2, <2>3, <3>1, DelMoves DEF batchvars
    <2>6. ReturnedOnce'
      <3>1. \A m \in Nodes : cancelled'[m] # "no" => ids[m] # 0
        BY <2>1, <2>2, <2>3, CancelledOnce
      <3>2. \A i \in 1..Len(queue') :
               queue'[i].op = "cancel" =>
                   /\ queue'[i].index = ids[queue'[i].node]
                   /\ ids[queue'[i].node] # 0
        BY <1>2, SMTT(30) DEF ReturnedOnce
      <3> QED
        BY <1>1, <3>1, <3>2 DEF ReturnedOnce
    <2> QED
      BY <1>4, <2>5, <2>6
  <1> QED
    BY <1>5, <1>6

LEMMA TimerInvStep == TimerInv /\ [Next]_vars => TimerInv'
  <1> SUFFICES ASSUME TimerInv, [Next]_vars
               PROVE  PlaceInv' /\ AddedOnce' /\ ReturnedOnce'
    BY TypeOKStep DEF TimerInv
  <1>a. now \in Nat /\ TypeOK /\ PlaceInv
    BY TimerQueueAssumption DEF TimerInv, TypeOK, TimerQueueAssumption
  \* What leaves the timers and their callers alone.
  <1>b. ASSUME now' \in Nat, now' >= now, calling' <=> calling,
               UNCHANGED <<expiration, callvars, queue, list_, indexlist_,
                           deltimelist, torun, waitdeltimelist, fired,
                           cancelled>>
        PROVE  PlaceInv' /\ AddedOnce' /\ ReturnedOnce'
    <2>1. /\ \A n \in Nodes : InAdding(n)' <=> InAdding(n)
          /\ \A n \in Nodes : InQueue(n)' <=> InQueue(n)
      BY <1>b DEF InAdding, InQueue, callvars
    <2> QED
      BY <1>a, <1>b, <2>1, NothingMoves, CallersStay DEF callvars
  <1>1. CASE Tick
    BY <1>a, <1>b, <1>1 DEF Tick, listvars, batchvars, calling
  <1>2. ASSUME NEW t \in Callers, Caller(t)
        PROVE  PlaceInv' /\ AddedOnce' /\ ReturnedOnce'
    BY <1>2, NewStep, AddStep, ReturnStep, CancelStep DEF Caller
  <1>3. CASE RunFunctor
    BY <1>3, FunctorStep
  <1>4. CASE Poll \/ HandleRead
    BY <1>a, <1>b, <1>4 DEF Poll, HandleRead, listvars, calling
  <1>5. CASE GetExpired
    BY <1>a, <1>5, ExpiredMove, CallersStay DEF GetExpired, callvars
  <1>6. ASSUME NEW n \in Nodes, RunTimer(n)
        PROVE  PlaceInv' /\ AddedOnce' /\ ReturnedOnce'
    BY <1>a, <1>6, TimerRuns, CallersStay DEF RunTimer, callvars
  <1>7. CASE Fflash
    BY <1>a, <1>7, BatchEnds, CallersStay DEF Fflash, callvars
  <1>8. CASE UNCHANGED vars
    BY <1>a, <1>b, <1>8 DEF vars, callvars, calling
  <1> QED
    BY <1>1, <1>2, <1>3, <1>4, <1>5, <1>6, <1>7, <1>8 DEF Next, LoopStep

THEOREM TimerInvariant == Spec => []TimerInv
  BY TimerInvInit, TimerInvStep, PTL DEF Spec

\* indexlist_ and list_ hold the same timers, each at its expiration: what
\* delTimeNodeInLoop finds in one it finds in the other.
THEOREM TheListsAgree == Spec => []ListsAgree
  <1>1. TimerInv => ListsAgree
    BY DEF TimerInv, PlaceInv
  <1> QED
    BY <1>1, TimerInvariant, PTL

\* No timer is lost and none has two owners, whichever threads add and cancel
\* and whatever the callbacks of a batch do to it.
THEOREM TimersAreConserved == Spec => []TimersConserved
  <1>1. TimerInv => TimersConserved
    <2> SUFFICES ASSUME TimerInv, NEW n \in 1..size_
                 PROVE  \/ InAdding(n) /\ ~InQueue(n)
                           /\ n \notin indexlist_ \cup deltimelist
                        \/ InQueue(n) /\ ~InAdding(n)
                           /\ n \notin indexlist_ \cup deltimelist
                        \/ Added(n) /\ n \in indexlist_ /\ n \notin deltimelist
                        \/ Added(n) /\ n \in deltimelist /\ n \notin indexlist_
                        \/ Added(n) /\ n \notin indexlist_ \cup deltimelist
                           /\ Finished(n)
      BY DEF TimersConserved
    <2>1. n \in Nodes /\ n <= size_
      BY TimerQueueAssumption
         DEF TimerInv, TypeOK, Nodes, TimerQueueAssumption
    <2> QED
      BY <2>1, AddedIsNowhere DEF TimerInv, PlaceInv, OnePlace, LeftIsFinished
  <1> QED
    BY <1>1, TimerInvariant, PTL

\* A timer that was cancelled with its own index after it was added is out of
\* the lists for good, also when the cancel came from a callback of the batch
\* the timer was in.
THEOREM CancelledStaysOut == Spec => []CancelledIsOut
  <1>1. TimerInv => CancelledIsOut
    <2> SUFFICES ASSUME TimerInv, NEW n \in 1..size_, cancelled[n] = "late",
                        ids[n] = n
                 PROVE  n \notin indexlist_
      BY DEF CancelledIsOut
    <2>1. n \in Nodes
      BY TimerQueueAssumption
         DEF TimerInv, TypeOK, Nodes, TimerQueueAssumption
    <2> QED
      BY <2>1 DEF TimerInv, PlaceInv, CancelHolds
  <1> QED
    BY <1>1, TimerInvariant, PTL

\* A callback runs after its timer's expiration, once if it is one-shot, in
\* whichever batch and whatever was added or cancelled meanwhile.
THEOREM TimersRunWhenDue == Spec => RunsWhenDue
  <1>1. TimerInv /\ [Next]_vars
          => [\A n \in Nodes :
                n \in torun /\ n \notin torun' =>
                    expiration[n] < now /\ (interval[n] = 0 => n \notin fired)]_vars
    <2> SUFFICES ASSUME TimerInv, [Next]_vars, NEW n \in Nodes,
                        n \in torun, n \notin torun'
                 PROVE  /\ expiration[n] < now
                        /\ interval[n] = 0 => n \notin fired
      OBVIOUS
    <2> QED
      BY DEF TimerInv, PlaceInv, BatchRuns, OneShotIsOut
  <1> QED
    BY <1>1, TimerInvariant, PTL DEF Spec, RunsWhenDue

-----------------------------------------------------------------------------
(* Where timeIds are right: TimeIdCancels, which two threads violate.      *)

\* The thread of the loop is at the timer of the last index until it has
\* returned the timeId, and hands nothing over.
OwnIndex ==
    /\ queue = <<>>
    /\ adding[Loop] \in {0, size_}
    /\ returning[Loop] \in {0, size_}
    /\ \A n \in Nodes : ids[n] \in {0, n} /\ (cancelled[n] # "no" => ids[n] = n)

LEMMA OwnIndexStep ==
    ASSUME Threads = {}, TypeOK, OwnIndex, [Next]_vars
    PROVE  OwnIndex'
  <1>1. Callers = {Loop}
    BY DEF Callers
  <1>2. /\ size_ \in Nat /\ ids \in [Nodes -> 0..MaxNodes]
        /\ adding \in [Callers -> 0..MaxNodes]
        /\ returning \in [Callers -> 0..MaxNodes]
        /\ cancelled \in [Nodes -> {"no", "early", "late"}]
    BY TimerQueueAssumption DEF TypeOK, TimerQueueAssumption
  <1>3. CASE Tick \/ UNCHANGED vars
    BY <1>3 DEF Tick, OwnIndex, callvars, vars
  <1>4. CASE LoopStep
    <2>1. ~RunFunctor
      BY DEF OwnIndex, RunFunctor
    <2>2. UNCHANGED <<queue, adding, returning, ids, size_, cancelled>>
      BY <1>4, <2>1 DEF LoopStep, Poll, HandleRead, GetExpired, RunTimer, Fflash,
                        callvars
    <2> QED
      BY <2>2 DEF OwnIndex
  <1>5. CASE NewTimeNode(Loop)
    <2>1. /\ size_' = size_ + 1 /\ adding[Loop] = 0 /\ returning[Loop] = 0
          /\ adding' = [adding EXCEPT ![Loop] = size_ + 1]
          /\ UNCHANGED <<returning, ids, queue, cancelled>>
      BY <1>5 DEF NewTimeNode, InUserCode, InAddTimeNode
    <2> QED
      BY <1>1, <1>2, <2>1 DEF OwnIndex
  <1>6. CASE AddTimeNode(Loop)
    <2>1. /\ adding[Loop] # 0
          /\ adding' = [adding EXCEPT ![Loop] = 0]
          /\ returning' = [returning EXCEPT ![Loop] = adding[Loop]]
          /\ UNCHANGED <<size_, ids, queue, cancelled>>
      BY <1>6 DEF AddTimeNode, AddTimeNodeInLoop
    <2> QED
      BY <1>1, <1>2, <2>1 DEF OwnIndex
  <1>7. CASE ReturnTimeId(Loop)
    <2>1. /\ returning[Loop] # 0
          /\ ids' = [ids EXCEPT ![returning[Loop]] = size_]
          /\ returning' = [returning EXCEPT ![Loop] = 0]
          /\ UNCHANGED <<size_, adding, queue, cancelled>>
      BY <1>7 DEF ReturnTimeId
    <2>2. ids' = [ids EXCEPT ![size_] = size_]
      BY <2>1 DEF OwnIndex
    <2>3. \A n \in Nodes : ids'[n] = IF n = size_ THEN n ELSE ids[n]
      BY <1>2, <2>2
    <2> QED
      BY <1>1, <1>2, <2>1, <2>3 DEF OwnIndex
  <1>8. ASSUME NEW m \in Nodes, Cancel(Loop, m) PROVE OwnIndex'
    <2>1. /\ ids[m] # 0 /\ DelTimeNodeInLoop(m, ids[m])
          /\ UNCHANGED <<queue, size_, adding, returning, ids>>
      BY <1>8 DEF Cancel, callvars
    <2>2. \A n \in Nodes : n # m => cancelled'[n] = cancelled[n]
      BY <1>2, <2>1 DEF DelTimeNodeInLoop
    <2> QED
      BY <2>1, <2>2 DEF OwnIndex
  <1> QED
    BY <1>1, <1>3, <1>4, <1>5, <1>6, <1>7, <1>8 DEF Next, Caller

\* A program that uses its timers in the loop's thread alone gets the timeIds
\* of the timers it added, so that cancel, once the timer was added, keeps it
\* out of the lists (TimerQueue.cc:54-59): only a second thread can come
\* between the construction of a timenode and the return of its timeId.
THEOREM LoopAloneCancels ==
    ASSUME Threads = {}
    PROVE  Spec => []TimeIdCancels
  <1>1. Init => OwnIndex
    BY DEF Init, OwnIndex, Callers
  <1>2. TimerInv /\ OwnIndex /\ [Next]_vars => OwnIndex'
    BY OwnIndexStep DEF TimerInv
  <1>3. TimerInv /\ CancelledIsOut /\ OwnIndex => TimeIdCancels
    <2> SUFFICES ASSUME TimerInv, CancelledIsOut, OwnIndex,
                        NEW n \in 1..size_, cancelled[n] = "late"
                 PROVE  n \notin indexlist_
      BY DEF TimeIdCancels
    <2>1. n \in Nodes
      BY TimerQueueAssumption
         DEF TimerInv, TypeOK, Nodes, TimerQueueAssumption
    <2> QED
      BY <2>1 DEF OwnIndex, CancelledIsOut
  <1> QED
    BY <1>1, <1>2, <1>3, TimerInvariant, CancelledStaysOut, PTL DEF Spec
=============================================================================
