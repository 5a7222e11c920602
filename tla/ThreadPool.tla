----------------------------- MODULE ThreadPool -----------------------------
(***************************************************************************)
(* threadPool (base/threadpool.h, base/threadpool.cc): clients commit      *)
(* tasks to a queue, workers wait for them on a condition variable, and    *)
(* the destructor, run by the owner, clears running, notifies all and      *)
(* joins the workers.                                                      *)
(*                                                                         *)
(* running is an atomic that the destructor clears without mutex_.  So the *)
(* step in which a worker tests its condition and the one in which it      *)
(* blocks are apart: the mutex, held in between, keeps commits out but not *)
(* the destructor.  Tasks are numbered as they are queued.                 *)
(***************************************************************************)
EXTENDS Naturals, Sequences, FiniteSets

CONSTANTS Clients,  \* threads that commit tasks
          Workers,  \* the threads of pool_
          MaxTasks  \* bound on the number of tasks

NoOne == "noone"

ASSUME ThreadPoolAssumption ==
    /\ IsFiniteSet(Workers)
    /\ NoOne \notin Workers
    /\ MaxTasks \in Nat

VARIABLES
    running,     \* the flag start() sets and the destructor clears
    queue_,      \* the tasks not taken yet
    mutex_,      \* the worker between testing its condition and blocking
    workerpc,    \* where each worker is
    task,        \* the task a worker took, or 0
    clientpc,    \* "out", past the test of running, or about to notify
    ownerpc,     \* where the owner is: start() and the destructor
    committed,   \* number of tasks queued
    executed     \* history: tasks whose execution started

clientvars == <<clientpc, committed>>
workervars == <<mutex_, workerpc, task, executed>>
vars == <<running, queue_, mutex_, workerpc, task, clientpc, ownerpc,
          committed, executed>>

WorkerPCs == {"unborn", "loop", "lock", "blocking", "waiting", "run", "exited"}

TypeOK ==
    /\ running \in BOOLEAN
    /\ queue_ \in Seq(1..MaxTasks)
    /\ mutex_ \in Workers \cup {NoOne}
    /\ workerpc \in [Workers -> WorkerPCs]
    /\ task \in [Workers -> 0..MaxTasks]
    /\ clientpc \in [Clients -> {"out", "queue", "notify"}]
    /\ ownerpc \in {"new", "started", "notify", "join", "done"}
    /\ committed \in 0..MaxTasks
    /\ executed \subseteq 1..MaxTasks

Init ==
    /\ running = FALSE
    /\ queue_ = <<>>
    /\ mutex_ = NoOne
    /\ workerpc = [w \in Workers |-> "unborn"]
    /\ task = [w \in Workers |-> 0]
    /\ clientpc = [c \in Clients |-> "out"]
    /\ ownerpc = "new"
    /\ committed = 0
    /\ executed = {}

Goto(w, pc) == workerpc' = [workerpc EXCEPT ![w] = pc]

-----------------------------------------------------------------------------
(* The owner.  The destructor starts when no client is in commit.          *)

Start ==
    /\ ownerpc = "new"
    /\ running' = TRUE
    /\ workerpc' = [w \in Workers |-> "loop"]
    /\ ownerpc' = "started"
    /\ UNCHANGED <<queue_, mutex_, task, clientvars, executed>>

\* Mutant: the workers are joined but never told.
StopWithoutFlag ==
    /\ ownerpc = "started"
    /\ \A c \in Clients : clientpc[c] = "out"
    /\ ownerpc' = "notify"
    /\ UNCHANGED <<running, queue_, workervars, clientvars>>

\* running.store(false), without the mutex.
StopRunning ==
    /\ ownerpc = "started"
    /\ \A c \in Clients : clientpc[c] = "out"
    /\ running' = FALSE
    /\ ownerpc' = "notify"
    /\ UNCHANGED <<queue_, workervars, clientvars>>

NotifyAll ==
    /\ ownerpc = "notify"
    /\ workerpc' = [w \in Workers |-> IF workerpc[w] = "waiting"
                                        THEN "lock" ELSE workerpc[w]]
    /\ ownerpc' = "join"
    /\ UNCHANGED <<running, queue_, mutex_, task, clientvars, executed>>

JoinAll ==
    /\ ownerpc = "join"
    /\ \A w \in Workers : workerpc[w] = "exited"
    /\ ownerpc' = "done"
    /\ UNCHANGED <<running, queue_, workervars, clientvars>>

-----------------------------------------------------------------------------
(* The clients.                                                            *)

\* commit's test of running; a pool that is not running makes it throw.
CommitTest(c) ==
    /\ clientpc[c] = "out"
    /\ ownerpc = "started"
    /\ running
    /\ committed < MaxTasks
    /\ clientpc' = [clientpc EXCEPT ![c] = "queue"]
    /\ UNCHANGED <<running, queue_, workervars, ownerpc, committed>>

\* commit's critical section.
CommitQueue(c) ==
    /\ clientpc[c] = "queue"
    /\ mutex_ = NoOne
    /\ committed < MaxTasks
    /\ committed' = committed + 1
    /\ queue_' = Append(queue_, committed + 1)
    /\ clientpc' = [clientpc EXCEPT ![c] = "notify"]
    /\ UNCHANGED <<running, workervars, ownerpc>>

\* Mutant: commit notifies nobody.
CommitSilently(c) ==
    /\ clientpc[c] = "notify"
    /\ clientpc' = [clientpc EXCEPT ![c] = "out"]
    /\ UNCHANGED <<running, queue_, workervars, ownerpc, committed>>

\* notify_one, after the mutex is released.
CommitNotify(c) ==
    /\ clientpc[c] = "notify"
    /\ clientpc' = [clientpc EXCEPT ![c] = "out"]
    /\ \/ /\ \A w \in Workers : workerpc[w] # "waiting"
          /\ UNCHANGED workerpc
       \/ \E w \in Workers : workerpc[w] = "waiting" /\ Goto(w, "lock")
    /\ UNCHANGED <<running, queue_, mutex_, task, executed, ownerpc, committed>>

-----------------------------------------------------------------------------
(* The workers.                                                            *)

\* while(running)
WorkerLoop(w) ==
    /\ workerpc[w] = "loop"
    /\ Goto(w, IF running THEN "lock" ELSE "exited")
    /\ UNCHANGED <<running, queue_, mutex_, task, executed, clientvars, ownerpc>>

\* Mutant: the task is copied and stays in the queue.
TakeCopy(w) ==
    /\ workerpc[w] = "lock" /\ mutex_ = NoOne
    /\ queue_ # <<>>
    /\ task' = [task EXCEPT ![w] = Head(queue_)]
    /\ Goto(w, "run")
    /\ UNCHANGED <<running, queue_, mutex_, executed, clientvars, ownerpc>>

\* The wait's condition holds, and there is a task to take.
Take(w) ==
    /\ workerpc[w] = "lock" /\ mutex_ = NoOne
    /\ queue_ # <<>>
    /\ task' = [task EXCEPT ![w] = Head(queue_)]
    /\ queue_' = Tail(queue_)
    /\ Goto(w, "run")
    /\ UNCHANGED <<running, mutex_, executed, clientvars, ownerpc>>

\* It holds since the pool stops, and there is none: the thread returns.
Return(w) ==
    /\ workerpc[w] = "lock" /\ mutex_ = NoOne
    /\ queue_ = <<>> /\ ~running
    /\ Goto(w, "exited")
    /\ UNCHANGED <<running, queue_, mutex_, task, executed, clientvars, ownerpc>>

\* It does not hold: the worker is going to block, and holds the mutex.
TestFails(w) ==
    /\ workerpc[w] = "lock" /\ mutex_ = NoOne
    /\ queue_ = <<>> /\ running
    /\ Goto(w, "blocking")
    /\ mutex_' = w
    /\ UNCHANGED <<running, queue_, task, executed, clientvars, ownerpc>>

Block(w) ==
    /\ workerpc[w] = "blocking"
    /\ Goto(w, "waiting")
    /\ mutex_' = NoOne
    /\ UNCHANGED <<running, queue_, task, executed, clientvars, ownerpc>>

SpuriousWakeup(w) ==
    /\ workerpc[w] = "waiting"
    /\ Goto(w, "lock")
    /\ UNCHANGED <<running, queue_, mutex_, task, executed, clientvars, ownerpc>>

Execute(w) ==
    /\ workerpc[w] = "run"
    /\ executed' = executed \cup {task[w]}
    /\ task' = [task EXCEPT ![w] = 0]
    /\ Goto(w, "loop")
    /\ UNCHANGED <<running, queue_, mutex_, clientvars, ownerpc>>

-----------------------------------------------------------------------------
Owner == Start \/ StopRunning \/ NotifyAll \/ JoinAll
Client(c) == CommitTest(c) \/ CommitQueue(c) \/ CommitNotify(c)
Worker(w) == \/ WorkerLoop(w) \/ Take(w) \/ Return(w) \/ TestFails(w)
             \/ Block(w) \/ Execute(w)

Next ==
    \/ Owner
    \/ \E c \in Clients : Client(c)
    \/ \E w \in Workers : Worker(w) \/ SpuriousWakeup(w)

Spec == Init /\ [][Next]_vars

(***************************************************************************)
(* Fairness: the workers run, and so do a commit and a destructor that     *)
(* were started.  The mutex is strongly fair.  No spurious wake-up is      *)
(* relied on, and no client has to commit.                                 *)
(***************************************************************************)
FairSpec ==
    /\ Spec
    /\ WF_vars(NotifyAll) /\ WF_vars(JoinAll)
    /\ \A c \in Clients : SF_vars(CommitQueue(c)) /\ WF_vars(CommitNotify(c))
    /\ \A w \in Workers : SF_vars(Worker(w))

-----------------------------------------------------------------------------
(* Properties.                                                             *)

Held == {task[w] : w \in Workers} \ {0}
Queued == {queue_[i] : i \in 1..Len(queue_)}

\* A task that was committed is in one place: queued, taken by one worker, or
\* executed; so it is executed once at most, and is not lost before the
\* destructor.
TasksConserved ==
    /\ TypeOK
    /\ 1..committed = Queued \cup Held \cup executed
    /\ Queued \cap (Held \cup executed) = {} /\ Held \cap executed = {}
    /\ \A w, v \in Workers : w # v /\ task[w] # 0 => task[w] # task[v]

\* As long as the pool runs, a queued task has a worker that is awake, or a
\* commit that is about to notify one, although the notification comes after
\* the mutex is released.
NoLostWakeup ==
    running /\ queue_ # <<>> /\ (\E w \in Workers : workerpc[w] = "waiting") =>
        \/ \E w \in Workers : workerpc[w] \in {"loop", "lock", "run"}
        \/ \E c \in Clients : clientpc[c] = "notify"

\* A task that was committed is executed, unless the pool is destroyed first.
TasksRun ==
    \A n \in 1..MaxTasks :
        committed >= n ~> n \in executed \/ ownerpc \in {"notify", "join", "done"}

\* A destructor that notifies when no worker is between its test and its wait
\* returns: all the workers see running cleared.
DestructorReturns ==
    ownerpc = "join" /\ (\A w \in Workers : workerpc[w] \notin {"blocking", "waiting"})
        ~> ownerpc = "done"
=============================================================================
