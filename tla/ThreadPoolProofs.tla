-------------------------- MODULE ThreadPoolProofs --------------------------
(***************************************************************************)
(* Proofs about ThreadPool for any clients, workers and number of tasks: a *)
(* committed task is in one place until it was executed, and while the     *)
(* pool runs no worker sleeps on a task that nobody is awake for.          *)
(***************************************************************************)
EXTENDS ThreadPool, TLAPS

\* No task is queued twice.
QueueDistinct ==
    \A i, j \in 1..Len(queue_) : i # j => queue_[i] # queue_[j]

\* A worker has a task exactly from taking it to executing it.
TaskWhileRunning == \A w \in Workers : task[w] # 0 <=> workerpc[w] = "run"

\* The mutex is held between a test that failed and the wait, and until then
\* the queue stays as empty as the test found it.
BlockingHoldsMutex ==
    /\ \A w \in Workers : workerpc[w] = "blocking" => mutex_ = w
    /\ mutex_ # NoOne => workerpc[mutex_] = "blocking" /\ queue_ = <<>>

NotStarted == ownerpc = "new" => \A w \in Workers : workerpc[w] = "unborn"

PoolInv ==
    /\ TasksConserved
    /\ QueueDistinct
    /\ TaskWhileRunning
    /\ BlockingHoldsMutex
    /\ NotStarted

-----------------------------------------------------------------------------
(* What pushing and popping do to the elements of the queue.               *)

LEMMA AppendElements ==
    ASSUME NEW S, NEW s \in Seq(S), NEW e \in S
    PROVE  {Append(s, e)[i] : i \in 1..Len(Append(s, e))}
              = {s[i] : i \in 1..Len(s)} \cup {e}
  OBVIOUS

LEMMA TailElements ==
    ASSUME NEW S, NEW s \in Seq(S), s # <<>>
    PROVE  {s[i] : i \in 1..Len(s)}
              = {Head(s)} \cup {Tail(s)[i] : i \in 1..Len(Tail(s))}
  <1>1. \A i \in 1..Len(Tail(s)) : Tail(s)[i] = s[i + 1]
    OBVIOUS
  <1>2. \A i \in 1..Len(s) : i = 1 \/ i - 1 \in 1..Len(Tail(s))
    OBVIOUS
  <1> QED
    BY <1>1, <1>2, SMTT(30)

-----------------------------------------------------------------------------
LEMMA TypeOKInit == Init => TypeOK
  <1> SUFFICES ASSUME Init PROVE TypeOK
    OBVIOUS
  <1>1. queue_ \in Seq(1..MaxTasks)
    BY DEF Init
  <1>2. committed \in 0..MaxTasks /\ 0 \in 0..MaxTasks
    BY ThreadPoolAssumption DEF ThreadPoolAssumption, Init
  <1> QED
    BY <1>1, <1>2 DEF Init, TypeOK, WorkerPCs

\* The types, given that a worker that executes has a task.
LEMMA TypeOKStep ==
    TypeOK /\ TaskWhileRunning /\ [Next]_vars => TypeOK'
  <1> SUFFICES ASSUME TypeOK, TaskWhileRunning, [Next]_vars PROVE TypeOK'
    OBVIOUS
  <1> USE ThreadPoolAssumption DEF ThreadPoolAssumption, TypeOK, WorkerPCs
  <1>1. CASE Start
    BY <1>1 DEF Start, clientvars
  <1>2. CASE StopRunning \/ JoinAll
    BY <1>2 DEF StopRunning, JoinAll, workervars, clientvars
  <1>3. CASE NotifyAll
    BY <1>3 DEF NotifyAll, clientvars
  <1>4. ASSUME NEW c \in Clients, CommitTest(c) PROVE TypeOK'
    BY <1>4 DEF CommitTest, workervars
  <1>5. ASSUME NEW c \in Clients, CommitQueue(c) PROVE TypeOK'
    BY <1>5 DEF CommitQueue, workervars
  <1>6. ASSUME NEW c \in Clients, CommitNotify(c) PROVE TypeOK'
    BY <1>6 DEF CommitNotify, Goto
  <1>7. ASSUME NEW w \in Workers, WorkerLoop(w) PROVE TypeOK'
    BY <1>7 DEF WorkerLoop, Goto, clientvars
  <1>8. ASSUME NEW w \in Workers, Take(w) PROVE TypeOK'
    <2>1. Head(queue_) \in 1..MaxTasks /\ Tail(queue_) \in Seq(1..MaxTasks)
      BY <1>8 DEF Take
    <2> QED
      BY <1>8, <2>1 DEF Take, Goto, clientvars
  <1>9. ASSUME NEW w \in Workers,
               Return(w) \/ TestFails(w) \/ Block(w) \/ SpuriousWakeup(w)
        PROVE  TypeOK'
    BY <1>9 DEF Return, TestFails, Block, SpuriousWakeup, Goto, clientvars
  <1>10. ASSUME NEW w \in Workers, Execute(w) PROVE TypeOK'
    <2>1. task[w] \in 1..MaxTasks
      BY <1>10 DEF Execute, TaskWhileRunning
    <2>2. executed' \subseteq 1..MaxTasks
      BY <1>10, <2>1 DEF Execute
    <2> QED
      BY <1>10, <2>2 DEF Execute, Goto, clientvars
  <1>11. CASE UNCHANGED vars
    BY <1>11 DEF vars
  <1> QED
    BY <1>1, <1>2, <1>3, <1>4, <1>5, <1>6, <1>7, <1>8, <1>9, <1>10, <1>11
       DEF Next, Owner, Client, Worker

\* The parts of the invariant that say where the workers are.
LEMMA WorkersStep ==
    /\ TypeOK /\ TaskWhileRunning /\ BlockingHoldsMutex /\ NotStarted
    /\ [Next]_vars
    => (TaskWhileRunning /\ BlockingHoldsMutex /\ NotStarted)'
  <1> SUFFICES ASSUME TypeOK, TaskWhileRunning, BlockingHoldsMutex,
                      NotStarted, [Next]_vars
               PROVE  (TaskWhileRunning /\ BlockingHoldsMutex /\ NotStarted)'
    OBVIOUS
  <1> DEFINE Goal == (TaskWhileRunning /\ BlockingHoldsMutex /\ NotStarted)'
  <1> USE ThreadPoolAssumption
      DEF ThreadPoolAssumption, TypeOK, WorkerPCs, TaskWhileRunning,
          BlockingHoldsMutex, NotStarted
  <1>1. CASE Start
    BY <1>1 DEF Start, clientvars
  <1>2. CASE StopRunning \/ JoinAll
    BY <1>2 DEF StopRunning, JoinAll, workervars, clientvars
  <1>3. CASE NotifyAll
    BY <1>3 DEF NotifyAll, clientvars
  <1>4. ASSUME NEW c \in Clients, CommitTest(c) PROVE Goal
    BY <1>4 DEF CommitTest, workervars
  <1>5. ASSUME NEW c \in Clients, CommitQueue(c) PROVE Goal
    BY <1>5 DEF CommitQueue, workervars
  <1>6. ASSUME NEW c \in Clients, CommitNotify(c) PROVE Goal
    BY <1>6 DEF CommitNotify, Goto
  <1>7. ASSUME NEW w \in Workers, WorkerLoop(w) PROVE Goal
    BY <1>7 DEF WorkerLoop, Goto, clientvars
  <1>8. ASSUME NEW w \in Workers, Take(w) PROVE Goal
    <2>1. Head(queue_) \in 1..MaxTasks
      BY <1>8 DEF Take
    <2> QED
      BY <1>8, <2>1 DEF Take, Goto, clientvars
  <1>9. ASSUME NEW w \in Workers,
               Return(w) \/ TestFails(w) \/ Block(w) \/ SpuriousWakeup(w)
        PROVE  Goal
    BY <1>9 DEF Return, TestFails, Block, SpuriousWakeup, Goto, clientvars
  <1>10. ASSUME NEW w \in Workers, Execute(w) PROVE Goal
    BY <1>10 DEF Execute, Goto, clientvars
  <1>11. CASE UNCHANGED vars
    BY <1>11 DEF vars
  <1> QED
    BY <1>1, <1>2, <1>3, <1>4, <1>5, <1>6, <1>7, <1>8, <1>9, <1>10, <1>11
       DEF Next, Owner, Client, Worker

-----------------------------------------------------------------------------
\* Where the tasks are, given where the workers are.
LEMMA TasksStep ==
    PoolInv /\ [Next]_vars => TasksConserved' /\ QueueDistinct'
  <1> SUFFICES ASSUME PoolInv, [Next]_vars
               PROVE  TasksConserved' /\ QueueDistinct'
    OBVIOUS
  <1>a. TypeOK /\ TypeOK'
    BY TypeOKStep DEF PoolInv, TasksConserved
  <1>b. /\ 1..committed = Queued \cup Held \cup executed
        /\ Queued \cap (Held \cup executed) = {}
        /\ Held \cap executed = {}
        /\ \A w, v \in Workers : w # v /\ task[w] # 0 => task[w] # task[v]
        /\ QueueDistinct
    BY DEF PoolInv, TasksConserved
  <1> DEFINE T == 1..MaxTasks
  <1>1. ASSUME UNCHANGED <<queue_, task, committed, executed>>
        PROVE  TasksConserved' /\ QueueDistinct'
    BY <1>a, <1>b, <1>1 DEF TasksConserved, QueueDistinct, Queued, Held
  <1>2. ASSUME NEW c \in Clients, CommitQueue(c)
        PROVE  TasksConserved' /\ QueueDistinct'
    <2>1. /\ committed' = committed + 1 /\ committed + 1 \in T
          /\ queue_' = Append(queue_, committed + 1)
          /\ queue_ \in Seq(T)
          /\ UNCHANGED <<task, executed>>
      BY <1>2, <1>a, ThreadPoolAssumption
         DEF CommitQueue, workervars, TypeOK, ThreadPoolAssumption
    <2>2. Queued' = Queued \cup {committed + 1} /\ Held' = Held
      BY <2>1, AppendElements DEF Queued, Held
    <2>3. 1..committed' = 1..committed \cup {committed + 1}
          /\ committed + 1 \notin 1..committed
      BY <1>a, <2>1, ThreadPoolAssumption DEF TypeOK, ThreadPoolAssumption
    <2>4. TasksConserved'
      BY <1>a, <1>b, <2>1, <2>2, <2>3 DEF TasksConserved
    <2>5. \A i \in 1..Len(queue_) : queue_[i] # committed + 1
      BY <1>b, <2>3 DEF Queued
    <2>6. QueueDistinct'
      BY <1>b, <2>1, <2>5 DEF QueueDistinct
    <2> QED
      BY <2>4, <2>6
  <1>3. ASSUME NEW w \in Workers, Take(w)
        PROVE  TasksConserved' /\ QueueDistinct'
    <2>1. /\ queue_ # <<>> /\ queue_ \in Seq(T)
          /\ queue_' = Tail(queue_)
          /\ task' = [task EXCEPT ![w] = Head(queue_)]
          /\ task[w] = 0 /\ task \in [Workers -> 0..MaxTasks]
          /\ UNCHANGED <<committed, executed>>
      BY <1>3, <1>a
         DEF Take, clientvars, TypeOK, PoolInv, TaskWhileRunning, Goto
    <2>2. Head(queue_) # 0
      <3>1. ASSUME NEW S, NEW s \in Seq(S), s # <<>> PROVE Head(s) \in S
        BY <3>1
      <3>2. Head(queue_) \in T
        BY <2>1, <3>1
      <3> QED
        BY <3>2
    <2>3. Held' = Held \cup {Head(queue_)}
      BY <2>1, <2>2 DEF Held
    <2>4. Queued = {Head(queue_)} \cup Queued'
      <3> HIDE DEF T
      <3>1. {queue_[i] : i \in 1..Len(queue_)} =
               {Head(queue_)} \cup
                  {Tail(queue_)[i] : i \in 1..Len(Tail(queue_))}
        BY <2>1, TailElements, ZenonT(30)
      <3> QED
        BY <2>1, <3>1 DEF Queued
    <2>5. \A i \in 1..Len(queue_') : /\ i + 1 \in 1..Len(queue_)
                                     /\ queue_'[i] = queue_[i + 1]
      BY <2>1
    <2>6. Head(queue_) \notin Queued'
      <3>1. 1 \in 1..Len(queue_) /\ Head(queue_) = queue_[1]
        BY <2>1
      <3> QED
        BY <1>b, <2>5, <3>1 DEF Queued, QueueDistinct
    <2>7. \A v \in Workers : task[v] # Head(queue_)
      BY <1>b, <2>2, <2>4 DEF Held
    <2>8. \A u, v \in Workers : u # v /\ task'[u] # 0 => task'[u] # task'[v]
      BY <1>b, <2>1, <2>2, <2>7
    <2>9. TasksConserved'
      BY <1>a, <1>b, <2>1, <2>3, <2>4, <2>6, <2>8 DEF TasksConserved
    <2>10. QueueDistinct'
      BY <1>b, <2>5 DEF QueueDistinct
    <2> QED
      BY <2>9, <2>10
  <1>4. ASSUME NEW w \in Workers, Execute(w)
        PROVE  TasksConserved' /\ QueueDistinct'
    <2>1. /\ task[w] # 0 /\ task \in [Workers -> 0..MaxTasks]
          /\ task' = [task EXCEPT ![w] = 0]
          /\ executed' = executed \cup {task[w]}
          /\ UNCHANGED <<queue_, committed>>
      BY <1>4, <1>a
         DEF Execute, clientvars, TypeOK, PoolInv, TaskWhileRunning
    <2>2. Held = Held' \cup {task[w]} /\ task[w] \notin Held'
      BY <1>b, <2>1 DEF Held
    <2>3. \A u, v \in Workers : u # v /\ task'[u] # 0 => task'[u] # task'[v]
      BY <1>b, <2>1
    <2> QED
      BY <1>a, <1>b, <2>1, <2>2, <2>3 DEF TasksConserved, QueueDistinct, Queued
  <1>5. CASE Owner
    BY <1>1, <1>5 DEF Owner, Start, StopRunning, NotifyAll, JoinAll,
                      workervars, clientvars
  <1>6. ASSUME NEW c \in Clients, CommitTest(c) \/ CommitNotify(c)
        PROVE  TasksConserved' /\ QueueDistinct'
    BY <1>1, <1>6 DEF CommitTest, CommitNotify, workervars
  <1>7. ASSUME NEW w \in Workers,
               \/ WorkerLoop(w) \/ Return(w) \/ TestFails(w)
               \/ Block(w) \/ SpuriousWakeup(w)
        PROVE  TasksConserved' /\ QueueDistinct'
    BY <1>1, <1>7 DEF WorkerLoop, Return, TestFails, Block, SpuriousWakeup,
                      clientvars
  <1>8. CASE UNCHANGED vars
    BY <1>1, <1>8 DEF vars
  <1> QED
    BY <1>2, <1>3, <1>4, <1>5, <1>6, <1>7, <1>8 DEF Next, Client, Worker

\* A pool that was constructed has no tasks.
LEMMA PoolInvInit == Init => PoolInv
  <1> SUFFICES ASSUME Init PROVE PoolInv
    OBVIOUS
  <1>1. TypeOK
    BY TypeOKInit
  <1>2. Queued = {} /\ Held = {} /\ 1..committed = {}
    BY DEF Init, Queued, Held
  <1> QED
    BY <1>1, <1>2 DEF Init, PoolInv, TasksConserved, QueueDistinct,
                      TaskWhileRunning, BlockingHoldsMutex, NotStarted

THEOREM PoolInvariant == Spec => []PoolInv
  <1>1. PoolInv /\ [Next]_vars => PoolInv'
    BY WorkersStep, TasksStep DEF PoolInv, TasksConserved
  <1> QED
    BY <1>1, PoolInvInit, PTL DEF Spec

\* A committed task is queued, with one worker, or executed, whatever the
\* workers, the clients and the destructor do: it is executed at most once,
\* and never lost while the pool exists (threadpool.h:18-40,
\* threadpool.cc:19-34).
THEOREM TasksAreConserved == Spec => []TasksConserved
  <1>1. PoolInv => TasksConserved
    BY DEF PoolInv
  <1> QED
    BY <1>1, PoolInvariant, PTL

-----------------------------------------------------------------------------
\* The notification comes after the unlock; but a worker that goes to sleep
\* keeps the mutex from its test on, so that it sleeps on an empty queue only.
LEMMA WakeupStep == PoolInv /\ NoLostWakeup /\ [Next]_vars => NoLostWakeup'
  <1> SUFFICES ASSUME PoolInv, NoLostWakeup, [Next]_vars PROVE NoLostWakeup'
    OBVIOUS
  <1> USE ThreadPoolAssumption
      DEF ThreadPoolAssumption, PoolInv, TasksConserved, TypeOK, WorkerPCs,
          BlockingHoldsMutex, NotStarted, NoLostWakeup
  <1>1. CASE Start
    BY <1>1 DEF Start, clientvars
  <1>2. CASE StopRunning \/ JoinAll
    BY <1>2 DEF StopRunning, JoinAll, workervars, clientvars
  <1>3. CASE NotifyAll
    BY <1>3 DEF NotifyAll, clientvars
  <1>4. ASSUME NEW c \in Clients, CommitTest(c) PROVE NoLostWakeup'
    BY <1>4 DEF CommitTest, workervars
  <1>5. ASSUME NEW c \in Clients, CommitQueue(c) PROVE NoLostWakeup'
    <2>1. clientpc'[c] = "notify"
      BY <1>5 DEF CommitQueue
    <2> QED
      BY <2>1
  <1>6. ASSUME NEW c \in Clients, CommitNotify(c) PROVE NoLostWakeup'
    <2>1. CASE UNCHANGED workerpc /\ \A w \in Workers : workerpc[w] # "waiting"
      BY <2>1
    <2>2. ASSUME NEW w \in Workers, Goto(w, "lock") PROVE NoLostWakeup'
      BY <2>2 DEF Goto
    <2> QED
      BY <1>6, <2>1, <2>2 DEF CommitNotify
  <1>7. ASSUME NEW w \in Workers, WorkerLoop(w) PROVE NoLostWakeup'
    BY <1>7 DEF WorkerLoop, Goto, clientvars
  <1>8. ASSUME NEW w \in Workers, Take(w) \/ Execute(w) \/ SpuriousWakeup(w)
        PROVE  NoLostWakeup'
    <2>1. workerpc'[w] \in {"run", "loop", "lock"}
      BY <1>8 DEF Take, Execute, SpuriousWakeup, Goto
    <2> QED
      BY <2>1
  <1>9. ASSUME NEW w \in Workers, Return(w) \/ TestFails(w) \/ Block(w)
        PROVE  NoLostWakeup'
    BY <1>9 DEF Return, TestFails, Block, Goto, clientvars
  <1>10. CASE UNCHANGED vars
    BY <1>10 DEF vars
  <1> QED
    BY <1>1, <1>2, <1>3, <1>4, <1>5, <1>6, <1>7, <1>8, <1>9, <1>10
       DEF Next, Owner, Client, Worker

\* While the pool runs, a queued task has a worker awake or a commit about to
\* notify one, although commit notifies without the mutex
\* (threadpool.h:29-40, threadpool.cc:23-29).
THEOREM NoWakeupIsLost == Spec => []NoLostWakeup
  <1>1. Init => NoLostWakeup
    BY DEF Init, NoLostWakeup
  <1> QED
    BY <1>1, PoolInvariant, WakeupStep, PTL DEF Spec
=============================================================================
