-------------------------- MODULE EventLoopThread --------------------------
(***************************************************************************)
(* EventLoopThread (net/EventLoopThread.cc): an owner starts a thread that *)
(* constructs an EventLoop on its stack, publishes it through loop_ under  *)
(* a condition variable, and runs it; the owner's destructor quits the     *)
(* loop and joins the thread.  The loop is the module EventLoop, whose     *)
(* actions are taken here by the thread and by the loop's users.           *)
(*                                                                         *)
(* The users keep to the class's terms: they hold the loop only between    *)
(* start() and the destructor, and their functors leave quit() to it (the  *)
(* EventLoop ends with loop(), after which loop_ would dangle).            *)
(***************************************************************************)
EXTENDS EventLoop

CONSTANT Owner \* the thread that starts and destroys the EventLoopThread

ASSUME OwnerAssumption == Owner \in Threads

VARIABLES
    ownerpc, \* where the owner is in start() or the destructor
    iopc,    \* where the started thread is in threadfunc
    loop_    \* whether the pointer loop_ is set

threadvars == <<ownerpc, iopc, loop_>>
allvars == <<vars, ownerpc, iopc, loop_>>

OwnerPCs == {"new", "lock", "waiting", "started", "quitting", "join", "done"}
IoPCs == {"none", "construct", "published", "looping", "ended"}

TypeThreadOK ==
    /\ TypeOK
    /\ ownerpc \in OwnerPCs
    /\ iopc \in IoPCs
    /\ loop_ \in BOOLEAN

InitThread ==
    /\ Init
    /\ ownerpc = "new"
    /\ iopc = "none"
    /\ loop_ = FALSE

-----------------------------------------------------------------------------
(* The owner.                                                              *)

\* start(), up to the loop on the condition.
SpawnThread ==
    /\ ownerpc = "new"
    /\ ownerpc' = "lock"
    /\ iopc' = "construct"
    /\ UNCHANGED <<vars, loop_>>

\* Mutant: start() returns at once.
StartAtOnce ==
    /\ ownerpc = "lock"
    /\ ownerpc' = "started"
    /\ UNCHANGED <<vars, iopc, loop_>>

\* while(loop_==nullptr) cond_.wait(lock), with mutex_ held: wait releases it.
TestLoopSet ==
    /\ ownerpc = "lock"
    /\ ownerpc' = IF loop_ THEN "started" ELSE "waiting"
    /\ UNCHANGED <<vars, iopc, loop_>>

SpuriousWakeup ==
    /\ ownerpc = "waiting"
    /\ ownerpc' = "lock"
    /\ UNCHANGED <<vars, iopc, loop_>>

\* ~EventLoopThread when start() was never called: nothing to quit or join.
DestroyUnstarted ==
    /\ ownerpc = "new"
    /\ ~loop_
    /\ ownerpc' = "done"
    /\ UNCHANGED <<vars, iopc, loop_>>

\* ~EventLoopThread: quit() on the loop, up to its write to eventfd_.
Destroy ==
    /\ ownerpc = "started"
    /\ loop_
    /\ \A t \in Threads : threadpc[t] = "out"
    /\ Quit(Owner)
    /\ ownerpc' = "quitting"
    /\ UNCHANGED <<iopc, loop_>>

\* wake(), by a user or by the owner in runinloop or in the destructor.
WakeLoop(t) ==
    /\ Wake(t)
    /\ ownerpc' = IF t = Owner /\ ownerpc = "quitting" THEN "join" ELSE ownerpc
    /\ UNCHANGED <<iopc, loop_>>

\* The destructor's join.
Join ==
    /\ ownerpc = "join"
    /\ iopc = "ended"
    /\ ownerpc' = "done"
    /\ UNCHANGED <<vars, iopc, loop_>>

\* A user queues a functor.
UseLoop(t) ==
    /\ ownerpc = "started"
    /\ RunInLoop(t)
    /\ UNCHANGED threadvars

-----------------------------------------------------------------------------
(* The started thread: threadfunc.                                         *)

\* Mutant: loop_ is set and nobody is notified.
PublishSilently ==
    /\ iopc = "construct"
    /\ iopc' = "published"
    /\ loop_' = TRUE
    /\ UNCHANGED <<vars, ownerpc>>

\* The critical section that sets loop_ and calls notify_all.
Publish ==
    /\ iopc = "construct"
    /\ iopc' = "published"
    /\ loop_' = TRUE
    /\ ownerpc' = IF ownerpc = "waiting" THEN "lock" ELSE ownerpc
    /\ UNCHANGED vars

EnterLoop ==
    /\ iopc = "published"
    /\ StartLoop
    /\ iopc' = "looping"
    /\ UNCHANGED <<ownerpc, loop_>>

\* A step of loop().
LoopStep ==
    /\ iopc = "looping"
    /\ \/ CheckQuit
       \/ PollReturn
       \/ PollTimeout
       \/ \E c \in Channels \cup {wakechannel_} :
              HandleEvent(c) /\ quit_' = quit_
       \/ TakePending
       \/ RunPending /\ quit_' = quit_
       \/ EndIteration
    /\ UNCHANGED threadvars

\* loop() has returned: the EventLoop is destroyed and the thread ends.
LeaveThread ==
    /\ iopc = "looping"
    /\ looppc = "idle"
    /\ iopc' = "ended"
    /\ UNCHANGED <<vars, ownerpc, loop_>>

-----------------------------------------------------------------------------
OwnerStep ==
    SpawnThread \/ TestLoopSet \/ DestroyUnstarted \/ Destroy \/ Join

NextThread ==
    \/ OwnerStep
    \/ SpuriousWakeup
    \/ \E t \in Threads : UseLoop(t) \/ WakeLoop(t)
    \/ Publish
    \/ EnterLoop
    \/ LoopStep
    \/ LeaveThread

SpecThread == InitThread /\ [][NextThread]_allvars

(***************************************************************************)
(* Fairness: both threads are scheduled.  epoll_wait is only relied on to  *)
(* return while eventfd_ is readable, and the owner need not call start()  *)
(* or the destructor; once it did, it executes it.                         *)
(***************************************************************************)
LoopThreadProgress ==
    \/ Publish
    \/ EnterLoop
    \/ iopc = "looping" /\ UNCHANGED threadvars
          /\ LoopProgress /\ quit_' = quit_
    \/ LeaveThread

FairSpecThread ==
    /\ SpecThread
    /\ WF_allvars(LoopThreadProgress)
    /\ WF_allvars(TestLoopSet)
    /\ WF_allvars(Join)
    /\ \A t \in Threads : WF_allvars(WakeLoop(t))

-----------------------------------------------------------------------------
(* Properties.                                                             *)

\* Whoever start() has returned to, and has not destroyed the object, holds a
\* loop that exists: constructed, and not yet left by its thread.
StartedLoopIsAlive ==
    /\ TypeThreadOK
    /\ ownerpc = "started" => loop_ /\ iopc \in {"published", "looping"}

\* start() returns: notify_all cannot come between the test of loop_ and the
\* wait, nor be missed by an owner that has not waited yet.
StartReturns == ownerpc = "lock" ~> ownerpc = "started"

\* The destructor returns when its quit() finds the thread inside loop(),
\* wherever in it, and whatever the users queued before.
DestructorReturns ==
    ownerpc = "quitting" /\ quit_ /\ iopc = "looping" ~> ownerpc = "done"

\* A functor handed to a started loop runs, unless the owner starts the
\* destructor: also when it is queued before the thread has entered loop().
UsedLoopRuns ==
    \A n \in 1..MaxTasks :
        submitted >= n ~> Len(ran) >= n
                          \/ ownerpc \in {"quitting", "join", "done"}
=============================================================================
