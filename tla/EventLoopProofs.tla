-------------------------- MODULE EventLoopProofs --------------------------
(***************************************************************************)
(* Proofs about EventLoop for any set of threads and channels and any      *)
(* number of functors: the loop is never asleep on work it was not told    *)
(* of, functors run once each and in order, and the loop implements the    *)
(* task queue.  EventLoopThread, which runs the loop in a thread of its    *)
(* own, keeps all that, and hands out loops that are alive.                *)
(***************************************************************************)
EXTENDS EventLoopThread, SequenceTheorems, TLAPS

\* Handing over a functor numbers it next: what Append does to the numbering.
LEMMA NumberedNext ==
    ASSUME NEW n \in Nat
    PROVE  Numbered(n + 1) = Append(Numbered(n), n + 1)
  BY DEF Numbered

\* TypeOK is inductive: the state of the loop keeps its types, whatever the
\* threads, callbacks and functors do.
LEMMA TypeOKInit == Init => TypeOK
  <1> SUFFICES ASSUME Init PROVE TypeOK
    OBVIOUS
  <1> USE EventLoopAssumption DEF EventLoopAssumption, Init
  <1>1. <<>> \in Seq(1..MaxTasks)
    OBVIOUS
  <1>2. eventfd_ \in 0..EventfdMax /\ submitted \in 0..MaxTasks
    OBVIOUS
  <1> QED
    BY <1>1, <1>2 DEF TypeOK, LoopPCs

LEMMA TypeOKStep == TypeOK /\ [Next]_vars => TypeOK'
  <1> SUFFICES ASSUME TypeOK, [Next]_vars PROVE TypeOK'
    OBVIOUS
  <1> USE EventLoopAssumption DEF EventLoopAssumption, TypeOK, LoopPCs
  <1>1. ASSUME NEW t \in Threads, RunInLoop(t) PROVE TypeOK'
    BY <1>1 DEF RunInLoop
  <1>2. ASSUME NEW t \in Threads, Quit(t) PROVE TypeOK'
    BY <1>2 DEF Quit
  <1>3. ASSUME NEW t \in Threads, Wake(t) PROVE TypeOK'
    BY <1>3 DEF Wake
  <1>4. CASE StartLoop
    BY <1>4 DEF StartLoop, callervars
  <1>5. CASE CheckQuit
    BY <1>5 DEF CheckQuit, callervars
  <1>6. CASE PollReturn
    BY <1>6 DEF PollReturn, callervars
  <1>7. CASE PollTimeout
    BY <1>7 DEF PollTimeout, callervars
  <1>8. ASSUME NEW c \in Channels \cup {wakechannel_}, HandleEvent(c)
        PROVE  TypeOK'
    <2>1. eventfd_' \in 0..EventfdMax
      BY <1>8 DEF HandleEvent
    <2>2. quit_' \in BOOLEAN
      BY <1>8, ZenonT(30) DEF HandleEvent, CallbackMayQuit
    <2> QED
      BY <1>8, <2>1, <2>2 DEF HandleEvent, callervars
  <1>9. CASE TakePending
    BY <1>9 DEF TakePending, callervars
  <1>10. CASE RunPending
    <2>1. Head(temp) \in 1..MaxTasks /\ Tail(temp) \in Seq(1..MaxTasks)
      BY <1>10 DEF RunPending
    <2>2. temp' \in Seq(1..MaxTasks) /\ ran' \in Seq(1..MaxTasks)
      BY <1>10, <2>1 DEF RunPending
    <2> QED
      BY <1>10, <2>2 DEF RunPending, CallbackMayQuit, callervars
  <1>11. CASE EndIteration
    BY <1>11 DEF EndIteration, callervars
  <1>12. CASE UNCHANGED vars
    BY <1>12 DEF vars
  <1> QED
    BY <1>1, <1>2, <1>3, <1>4, <1>5, <1>6, <1>7, <1>8, <1>9, <1>10, <1>11,
       <1>12 DEF Next, Loop, Caller

\* The state of the loop keeps its types (EventLoop.h:41-56).
THEOREM TypeCorrect == Spec => []TypeOK
  BY TypeOKInit, TypeOKStep, PTL DEF Spec

-----------------------------------------------------------------------------
LEMMA WakeupStep ==
    TypeOK /\ WakeupInvariant /\ [Next]_vars => WakeupInvariant'
  <1> SUFFICES ASSUME TypeOK, WakeupInvariant, [Next]_vars
               PROVE  WakeupInvariant'
    OBVIOUS
  <1> USE EventLoopAssumption DEF EventLoopAssumption, TypeOK, LoopPCs, WakeupInvariant, Waking
  <1>1. ASSUME NEW t \in Threads, RunInLoop(t) PROVE WakeupInvariant'
    <2>1. threadpc'[t] = "wake"
      BY <1>1 DEF RunInLoop
    <2> QED
      BY <2>1
  <1>2. ASSUME NEW t \in Threads, Quit(t) PROVE WakeupInvariant'
    <2>1. threadpc'[t] = "wake"
      BY <1>2 DEF Quit
    <2> QED
      BY <2>1
  <1>3. ASSUME NEW t \in Threads, Wake(t) PROVE WakeupInvariant'
    <2>1. eventfd_' > 0
      BY <1>3 DEF Wake
    <2> QED
      BY <2>1
  <1>4. CASE StartLoop
    BY <1>4 DEF StartLoop, callervars
  <1>5. CASE CheckQuit
    BY <1>5 DEF CheckQuit, callervars
  <1>6. CASE PollReturn
    BY <1>6 DEF PollReturn, callervars
  <1>7. CASE PollTimeout
    BY <1>7 DEF PollTimeout, callervars
  <1>8. ASSUME NEW c \in Channels \cup {wakechannel_}, HandleEvent(c)
        PROVE  WakeupInvariant'
    BY <1>8 DEF HandleEvent, callervars
  <1>9. CASE TakePending
    BY <1>9 DEF TakePending, callervars
  <1>10. CASE RunPending
    BY <1>10 DEF RunPending, callervars
  <1>11. CASE EndIteration
    BY <1>11 DEF EndIteration, callervars
  <1>12. CASE UNCHANGED vars
    BY <1>12 DEF vars
  <1> QED
    BY <1>1, <1>2, <1>3, <1>4, <1>5, <1>6, <1>7, <1>8, <1>9, <1>10, <1>11,
       <1>12 DEF Next, Loop, Caller

\* Every functor queued outside of the callbacks, and every quit() before the
\* poll, has its write to the eventfd made or about to be made.
THEOREM WakeupInvariantHolds == Spec => []WakeupInvariant
  <1>1. Init => WakeupInvariant
    BY DEF Init, WakeupInvariant
  <1> QED
    BY <1>1, TypeCorrect, WakeupStep, PTL DEF Spec

\* The loop is never asleep in epoll_wait on a functor or a quit() that no
\* wake-up announces.
THEOREM NoWakeupIsLost == Spec => []NoLostWakeup
  <1>1. WakeupInvariant => NoLostWakeup
    BY DEF WakeupInvariant, NoLostWakeup
  <1> QED
    BY <1>1, WakeupInvariantHolds, PTL

-----------------------------------------------------------------------------
(* Order.  The three sequences are concatenated; the lemmas say what        *)
(* queueing, taking the batch and running a functor do to the whole.        *)

LEMMA ConcatAppend ==
    ASSUME NEW S, NEW a \in Seq(S), NEW b \in Seq(S), NEW e \in S
    PROVE  Append(a \o b, e) = a \o Append(b, e)
  OBVIOUS

LEMMA ConcatEmpty ==
    ASSUME NEW S, NEW a \in Seq(S)
    PROVE  a \o <<>> = a /\ <<>> \o a = a
  OBVIOUS

LEMMA ConcatAssoc ==
    ASSUME NEW S, NEW a \in Seq(S), NEW b \in Seq(S), NEW c \in Seq(S)
    PROVE  (a \o b) \o c = a \o (b \o c)
  OBVIOUS

LEMMA ConcatShift ==
    ASSUME NEW S, NEW a \in Seq(S), NEW b \in Seq(S), b # <<>>
    PROVE  Append(a, Head(b)) \o Tail(b) = a \o b
  OBVIOUS

\* Taking the first functor of the batch takes it from the whole queue.
LEMMA HeadOfConcat ==
    ASSUME NEW S, NEW a \in Seq(S), NEW b \in Seq(S), a # <<>>
    PROVE  /\ a \o b # <<>>
           /\ Head(a \o b) = Head(a)
           /\ Tail(a \o b) = Tail(a) \o b
  <1>1. Len(a \o b) > 0 /\ Len(a) > 0
    OBVIOUS
  <1>2. Head(a \o b) = Head(a)
    BY <1>1
  <1>3. Tail(a \o b) = Tail(a) \o b
    BY <1>1
  <1> QED
    BY <1>1, <1>2, <1>3

LEMMA OrderStep ==
    TypeOK /\ ExactlyOnceInOrder /\ [Next]_vars => ExactlyOnceInOrder'
  <1> SUFFICES ASSUME TypeOK, ExactlyOnceInOrder, [Next]_vars
               PROVE  ExactlyOnceInOrder'
    OBVIOUS
  <1> DEFINE T == 1..MaxTasks
  <1>a. /\ ran \in Seq(T) /\ temp \in Seq(T) /\ pendfunclists_ \in Seq(T)
        /\ submitted \in Nat
    BY EventLoopAssumption DEF EventLoopAssumption, TypeOK
  <1>b. /\ ran \o temp \o pendfunclists_ = Numbered(submitted)
        /\ looppc # "run" => temp = <<>>
    BY DEF ExactlyOnceInOrder
  <1>1. ASSUME NEW t \in Threads, RunInLoop(t) PROVE ExactlyOnceInOrder'
    <2>1. /\ pendfunclists_' = Append(pendfunclists_, submitted + 1)
          /\ submitted' = submitted + 1 /\ submitted + 1 \in T
          /\ UNCHANGED <<ran, temp, looppc>>
      BY <1>1, <1>a, EventLoopAssumption
         DEF RunInLoop, EventLoopAssumption
    <2>2. ran \o temp \in Seq(T)
      BY <1>a
    <2>3. Append((ran \o temp) \o pendfunclists_, submitted + 1)
            = (ran \o temp) \o Append(pendfunclists_, submitted + 1)
      <3>1. pendfunclists_ \in Seq(T) /\ submitted + 1 \in T
        BY <1>a, <2>1
      <3> HIDE DEF T
      <3>2. ASSUME NEW f \in Seq(T), NEW e \in T
            PROVE  Append(f \o pendfunclists_, e)
                     = f \o Append(pendfunclists_, e)
        BY <3>1
      <3> QED
        BY <2>2, <3>1, <3>2, Zenon
    <2>4. Numbered(submitted + 1) = Append(Numbered(submitted), submitted + 1)
      BY <1>a, NumberedNext
    <2>5. ran' \o temp' \o pendfunclists_' = Numbered(submitted')
      BY <1>b, <2>1, <2>3, <2>4
    <2> QED
      BY <1>b, <2>1, <2>5 DEF ExactlyOnceInOrder
  <1>2. CASE TakePending
    <2>1. /\ temp = <<>> /\ temp' = pendfunclists_ /\ pendfunclists_' = <<>>
          /\ looppc' = "run" /\ UNCHANGED <<ran, submitted>>
      BY <1>2, <1>b DEF TakePending, callervars
    <2>2. ran \o temp \o pendfunclists_ = ran \o pendfunclists_
      BY <1>a, <2>1, ConcatEmpty
    <2>3. ran \o pendfunclists_ \in Seq(T)
      BY <1>a
    <2>4. (ran \o pendfunclists_) \o <<>> = ran \o pendfunclists_
      BY <2>3, ConcatEmpty
    <2> QED
      BY <1>b, <2>1, <2>2, <2>4 DEF ExactlyOnceInOrder
  <1>3. CASE RunPending
    <2>1. /\ temp # <<>> /\ ran' = Append(ran, Head(temp))
          /\ temp' = Tail(temp) /\ looppc' = "run"
          /\ UNCHANGED <<pendfunclists_, submitted>>
      BY <1>3 DEF RunPending, callervars
    <2>2. ran' \o temp' = ran \o temp
      BY <1>a, <2>1, ConcatShift
    <2> QED
      BY <1>b, <2>1, <2>2 DEF ExactlyOnceInOrder
  <1>4. CASE EndIteration
    BY <1>4, <1>b DEF EndIteration, callervars, ExactlyOnceInOrder
  <1>5. ASSUME UNCHANGED <<ran, temp, pendfunclists_, submitted>>,
               looppc # "run", looppc' # "run"
        PROVE  ExactlyOnceInOrder'
    BY <1>b, <1>5 DEF ExactlyOnceInOrder
  <1>6. ASSUME UNCHANGED <<ran, temp, pendfunclists_, submitted, looppc>>
        PROVE  ExactlyOnceInOrder'
    BY <1>b, <1>6 DEF ExactlyOnceInOrder
  <1>7. CASE StartLoop \/ CheckQuit \/ PollReturn \/ PollTimeout
    BY <1>7, <1>5
       DEF StartLoop, CheckQuit, PollReturn, PollTimeout, callervars
  <1>8. ASSUME NEW c \in Channels \cup {wakechannel_}, HandleEvent(c)
        PROVE  ExactlyOnceInOrder'
    BY <1>8, <1>6 DEF HandleEvent, callervars
  <1>9. ASSUME NEW t \in Threads, Quit(t) \/ Wake(t)
        PROVE  ExactlyOnceInOrder'
    BY <1>9, <1>6 DEF Quit, Wake
  <1>10. CASE UNCHANGED vars
    BY <1>10, <1>6 DEF vars
  <1> QED
    BY <1>1, <1>2, <1>3, <1>4, <1>7, <1>8, <1>9, <1>10
       DEF Next, Loop, Caller

LEMMA OrderInit == Init => ExactlyOnceInOrder
  BY DEF Init, ExactlyOnceInOrder, Numbered

\* No functor handed to the loop is lost, repeated or overtaken by a later
\* one, through the queue, the batch dopendfunc swaps out and the run.
THEOREM FunctorsInOrder == Spec => []ExactlyOnceInOrder
  BY OrderInit, TypeOKInit, TypeOKStep, OrderStep, PTL DEF Spec

-----------------------------------------------------------------------------
LEMMA RefinementStep ==
    TypeOK /\ ExactlyOnceInOrder /\ [Next]_vars => [TQ!Next]_(TQ!vars)
  <1> SUFFICES ASSUME TypeOK, ExactlyOnceInOrder, [Next]_vars
               PROVE  [TQ!Next]_(TQ!vars)
    OBVIOUS
  <1> DEFINE T == 1..MaxTasks
             queue == temp \o pendfunclists_
  <1>a. /\ ran \in Seq(T) /\ temp \in Seq(T) /\ pendfunclists_ \in Seq(T)
        /\ submitted \in Nat
    BY EventLoopAssumption DEF EventLoopAssumption, TypeOK
  <1>1. ASSUME NEW t \in Threads, RunInLoop(t) PROVE TQ!Submit
    <2>1. /\ pendfunclists_' = Append(pendfunclists_, submitted + 1)
          /\ submitted' = submitted + 1 /\ submitted + 1 \in T
          /\ UNCHANGED <<ran, temp>>
      BY <1>1, <1>a, EventLoopAssumption
         DEF RunInLoop, EventLoopAssumption
    <2>2. queue' = Append(queue, submitted + 1)
      BY <1>a, <2>1, ConcatAppend
    <2> QED
      BY <2>1, <2>2 DEF TQ!Submit
  <1>2. CASE RunPending
    <2>1. /\ temp # <<>> /\ ran' = Append(ran, Head(temp))
          /\ temp' = Tail(temp)
          /\ UNCHANGED <<pendfunclists_, submitted>>
      BY <1>2 DEF RunPending, callervars
    <2>2. /\ queue # <<>> /\ Head(queue) = Head(temp)
          /\ Tail(queue) = Tail(temp) \o pendfunclists_
      BY <1>a, <2>1, HeadOfConcat
    <2> QED
      BY <2>1, <2>2 DEF TQ!Run, TQ!Next
  <1>3. ASSUME UNCHANGED <<ran, temp, pendfunclists_, submitted>>
        PROVE  UNCHANGED TQ!vars
    BY <1>3 DEF TQ!vars
  <1>4. CASE TakePending
    <2>1. /\ temp = <<>> /\ temp' = pendfunclists_ /\ pendfunclists_' = <<>>
          /\ UNCHANGED <<ran, submitted>>
      BY <1>4 DEF TakePending, callervars, ExactlyOnceInOrder
    <2>2. queue' = queue
      BY <1>a, <2>1, ConcatEmpty
    <2> QED
      BY <2>1, <2>2 DEF TQ!vars
  <1>5. CASE StartLoop \/ CheckQuit \/ PollReturn \/ PollTimeout
             \/ EndIteration
    BY <1>5, <1>3 DEF StartLoop, CheckQuit, PollReturn, PollTimeout,
       EndIteration, callervars
  <1>6. ASSUME NEW c \in Channels \cup {wakechannel_}, HandleEvent(c)
        PROVE  UNCHANGED TQ!vars
    BY <1>6, <1>3 DEF HandleEvent, callervars
  <1>7. ASSUME NEW t \in Threads, Quit(t) \/ Wake(t)
        PROVE  UNCHANGED TQ!vars
    BY <1>7, <1>3 DEF Quit, Wake
  <1>8. CASE UNCHANGED vars
    BY <1>8, <1>3 DEF vars
  <1> QED
    BY <1>1, <1>2, <1>4, <1>5, <1>6, <1>7, <1>8
       DEF Next, Loop, Caller, TQ!Next

\* The loop, its eventfd and its batches implement the queue that runinloop
\* promises to its callers: one functor at a time, in order, each once.
THEOREM LoopImplementsTaskQueue == Spec => RefinesTaskQueue
  <1>1. Init => TQ!Init
    BY DEF Init, TQ!Init
  <1> QED
    BY <1>1, TypeOKInit, TypeOKStep, OrderInit, OrderStep, RefinementStep, PTL
       DEF Spec, RefinesTaskQueue, TQ!Spec

-----------------------------------------------------------------------------
(* EventLoopThread.                                                        *)

\* What the owner, the thread and the users do to the loop are steps of
\* EventLoop.
LEMMA ThreadStep == [NextThread]_allvars => [Next]_vars
  <1> SUFFICES ASSUME [NextThread]_allvars PROVE [Next]_vars
    OBVIOUS
  <1>1. CASE OwnerStep
    <2>1. CASE Destroy
      BY <2>1, OwnerAssumption DEF Destroy, OwnerAssumption, Next, Caller
    <2> QED
      BY <1>1, <2>1
         DEF OwnerStep, SpawnThread, TestLoopSet, DestroyUnstarted, Join
  <1>2. CASE SpuriousWakeup \/ Publish \/ LeaveThread
    BY <1>2 DEF SpuriousWakeup, Publish, LeaveThread
  <1>3. ASSUME NEW t \in Threads, UseLoop(t) \/ WakeLoop(t) PROVE Next
    BY <1>3 DEF UseLoop, WakeLoop, Next, Caller
  <1>4. CASE EnterLoop
    BY <1>4 DEF EnterLoop, Next, Loop
  <1>5. CASE LoopStep
    BY <1>5 DEF LoopStep, Next, Loop
  <1>6. CASE UNCHANGED allvars
    BY <1>6 DEF allvars
  <1> QED
    BY <1>1, <1>2, <1>3, <1>4, <1>5, <1>6 DEF NextThread

\* The loop of an EventLoopThread is an EventLoop, on which the terms of the
\* class only restrict what its users do (EventLoopThread.cc:37-51).
THEOREM ThreadRunsEventLoop == SpecThread => Spec
  <1>1. InitThread => Init
    BY DEF InitThread
  <1> QED
    BY <1>1, ThreadStep, PTL DEF SpecThread, Spec

\* So no functor queued and no quit() is slept on in the thread either, from
\* the moment start() has returned, before loop() was entered, on.
THEOREM ThreadLosesNoWakeup == SpecThread => []NoLostWakeup
  BY ThreadRunsEventLoop, NoWakeupIsLost, PTL

\* The destructor has started.
Quitting == ownerpc \in {"quitting", "join", "done"}

\* loop_ is set as long as the thread has a loop, and the thread leaves its
\* loop only for a quit() of the destructor.
ThreadInv ==
    /\ TypeThreadOK
    /\ ownerpc = "new" => iopc = "none"
    /\ loop_ <=> iopc \in {"published", "looping", "ended"}
    /\ ownerpc = "started" => loop_
    /\ iopc = "looping" /\ (quit_ \/ looppc = "idle") => Quitting
    /\ iopc = "ended" => Quitting

LEMMA ThreadInvInit == InitThread => ThreadInv
  BY TypeOKInit
     DEF InitThread, Init, ThreadInv, TypeThreadOK, OwnerPCs, IoPCs, Quitting

LEMMA ThreadInvStep == ThreadInv /\ [NextThread]_allvars => ThreadInv'
  <1> SUFFICES ASSUME ThreadInv, [NextThread]_allvars PROVE ThreadInv'
    OBVIOUS
  <1>a. TypeOK'
    BY ThreadStep, TypeOKStep DEF ThreadInv, TypeThreadOK
  <1> USE <1>a DEF ThreadInv, TypeThreadOK, OwnerPCs, IoPCs, Quitting
  <1>1. CASE SpawnThread \/ TestLoopSet \/ DestroyUnstarted \/ Join
             \/ SpuriousWakeup
    BY <1>1 DEF SpawnThread, TestLoopSet, DestroyUnstarted, Join,
                SpuriousWakeup, vars
  <1>2. CASE Destroy
    BY <1>2 DEF Destroy, Quit
  <1>3. ASSUME NEW t \in Threads, UseLoop(t) PROVE ThreadInv'
    BY <1>3 DEF UseLoop, RunInLoop, threadvars
  <1>4. ASSUME NEW t \in Threads, WakeLoop(t) PROVE ThreadInv'
    BY <1>4 DEF WakeLoop, Wake
  <1>5. CASE Publish
    BY <1>5 DEF Publish, vars
  <1>6. CASE EnterLoop
    BY <1>6 DEF EnterLoop, StartLoop
  <1>7. CASE LoopStep
    <2>1. /\ UNCHANGED <<ownerpc, iopc, loop_, quit_>>
          /\ looppc' = "idle" => quit_ \/ looppc = "idle"
      BY <1>7 DEF LoopStep, threadvars, CheckQuit, PollReturn, PollTimeout,
                  HandleEvent, TakePending, RunPending, EndIteration
    <2> QED
      BY <2>1
  <1>8. CASE LeaveThread
    BY <1>8 DEF LeaveThread, vars
  <1>9. CASE UNCHANGED allvars
    BY <1>9 DEF allvars, vars
  <1> QED
    BY <1>1, <1>2, <1>3, <1>4, <1>5, <1>6, <1>7, <1>8, <1>9
       DEF NextThread, OwnerStep

\* Whoever start() has returned to holds a loop that its thread has
\* constructed and not left, until the destructor (EventLoopThread.cc:23-47).
THEOREM LoopHandedOutIsAlive == SpecThread => []StartedLoopIsAlive
  <1>1. ThreadInv => StartedLoopIsAlive
    BY DEF ThreadInv, StartedLoopIsAlive, Quitting
  <1> QED
    BY <1>1, ThreadInvInit, ThreadInvStep, PTL DEF SpecThread
=============================================================================
