----------------------------- MODULE EventLoop -----------------------------
(***************************************************************************)
(* One EventLoop (net/EventLoop.cc): the thread that owns it alternates    *)
(* between epoll_wait, the callbacks of the channels found ready, and the  *)
(* functors other threads queued with runinloop.  Other threads queue a    *)
(* functor or ask the loop to quit, and in both cases write to eventfd_ so *)
(* that the loop leaves epoll_wait.                                        *)
(*                                                                         *)
(* A critical section of mutex_ is one step.  A caller is in two steps:    *)
(* the queue or the flag first, the write to eventfd_ after, with anything *)
(* in between.  A callback or functor running in the loop's thread may     *)
(* call quit() at once, and may call runinloop, which then runs its        *)
(* argument inside the callback and leaves the state of this module alone. *)
(***************************************************************************)
EXTENDS Naturals, Sequences

CONSTANTS Threads,     \* the threads that use the loop and do not own it
          Channels,    \* the loop's channels, wakechannel_ excepted
          MaxTasks,    \* bound on the functors queued by Threads
          EventfdMax   \* where the counter of eventfd_ saturates

wakechannel_ == "wakechannel_"

ASSUME EventLoopAssumption ==
    /\ MaxTasks \in Nat
    /\ EventfdMax \in Nat \ {0}
    /\ wakechannel_ \notin Channels

VARIABLES
    looppc,          \* where the owner is in loop()
    quit_,           \* the flag quit() sets
    eventfd_,        \* counter of the eventfd, readable when positive
    activeChannels_, \* channels of this iteration still to be handled
    pendfunclists_,  \* functors queued by other threads
    temp,            \* functors dopendfunc took from the queue, yet to run
    threadpc,        \* where each other thread is: "out" of the loop's
                     \* functions, or about to "wake" it
    submitted,       \* number of functors queued so far
    ran              \* history: functors run by dopendfunc, in order

callervars == <<threadpc, submitted>>
vars == <<looppc, quit_, eventfd_, activeChannels_, pendfunclists_, temp,
          threadpc, submitted, ran>>

LoopPCs == {"idle", "check", "poll", "events", "run"}

TypeOK ==
    /\ looppc \in LoopPCs
    /\ quit_ \in BOOLEAN
    /\ eventfd_ \in 0..EventfdMax
    /\ activeChannels_ \in SUBSET (Channels \cup {wakechannel_})
    /\ pendfunclists_ \in Seq(1..MaxTasks)
    /\ temp \in Seq(1..MaxTasks)
    /\ threadpc \in [Threads -> {"out", "wake"}]
    /\ submitted \in 0..MaxTasks
    /\ ran \in Seq(1..MaxTasks)

Init ==
    /\ looppc = "idle"
    /\ quit_ = FALSE
    /\ eventfd_ = 0
    /\ activeChannels_ = {}
    /\ pendfunclists_ = <<>>
    /\ temp = <<>>
    /\ threadpc = [t \in Threads |-> "out"]
    /\ submitted = 0
    /\ ran = <<>>

-----------------------------------------------------------------------------
(* The other threads.                                                      *)

\* Mutant: the queue is filled but nobody wakes the loop.
QueueWithoutWake(t) ==
    /\ threadpc[t] = "out"
    /\ submitted < MaxTasks
    /\ submitted' = submitted + 1
    /\ pendfunclists_' = Append(pendfunclists_, submitted + 1)
    /\ UNCHANGED <<threadpc, looppc, quit_, eventfd_, activeChannels_, temp,
                   ran>>

\* runinloop from another thread, down to the end of queueloop's critical
\* section.
RunInLoop(t) ==
    /\ threadpc[t] = "out"
    /\ submitted < MaxTasks
    /\ submitted' = submitted + 1
    /\ pendfunclists_' = Append(pendfunclists_, submitted + 1)
    /\ threadpc' = [threadpc EXCEPT ![t] = "wake"]
    /\ UNCHANGED <<looppc, quit_, eventfd_, activeChannels_, temp, ran>>

\* Mutant: quit() relies on the poll's timeout to be noticed.
QuitWithoutWake(t) ==
    /\ threadpc[t] = "out"
    /\ quit_' = TRUE
    /\ UNCHANGED <<looppc, eventfd_, activeChannels_, pendfunclists_, temp,
                   threadpc, submitted, ran>>

\* quit() from another thread, up to the write to eventfd_.
Quit(t) ==
    /\ threadpc[t] = "out"
    /\ quit_' = TRUE
    /\ threadpc' = [threadpc EXCEPT ![t] = "wake"]
    /\ UNCHANGED <<looppc, eventfd_, activeChannels_, pendfunclists_, temp,
                   submitted, ran>>

\* Mutant: nothing is written.
WakeWritesNothing(t) ==
    /\ threadpc[t] = "wake"
    /\ threadpc' = [threadpc EXCEPT ![t] = "out"]
    /\ UNCHANGED <<looppc, quit_, eventfd_, activeChannels_, pendfunclists_,
                   temp, submitted, ran>>

\* wake(): the eventfd is non-blocking, so a write at the maximum is refused
\* and leaves the counter where it is.
Wake(t) ==
    /\ threadpc[t] = "wake"
    /\ threadpc' = [threadpc EXCEPT ![t] = "out"]
    /\ eventfd_' = IF eventfd_ < EventfdMax THEN eventfd_ + 1 ELSE eventfd_
    /\ UNCHANGED <<looppc, quit_, activeChannels_, pendfunclists_, temp,
                   submitted, ran>>

-----------------------------------------------------------------------------
(* The owner's thread.                                                     *)

\* loop() up to its while: an earlier quit() is forgotten here.
StartLoop ==
    /\ looppc = "idle"
    /\ looppc' = "check"
    /\ quit_' = FALSE
    /\ UNCHANGED <<eventfd_, activeChannels_, pendfunclists_, temp, ran>>
    /\ UNCHANGED callervars

\* while(!quit_), and the start of an iteration.
CheckQuit ==
    /\ looppc = "check"
    /\ looppc' = IF quit_ THEN "idle" ELSE "poll"
    /\ activeChannels_' = {}
    /\ UNCHANGED <<quit_, eventfd_, pendfunclists_, temp, ran>>
    /\ UNCHANGED callervars

\* epoll_wait returns with events.  It may report only some of the channels
\* that are ready, since it fills at most events_.size() entries.
PollReturn ==
    /\ looppc = "poll"
    /\ \E ready \in SUBSET (Channels \cup
                            (IF eventfd_ > 0 THEN {wakechannel_} ELSE {})) :
          /\ ready # {}
          /\ activeChannels_' = ready
    /\ looppc' = "events"
    /\ UNCHANGED <<quit_, eventfd_, pendfunclists_, temp, ran>>
    /\ UNCHANGED callervars

\* epoll_wait times out after ktimeoutms, or is interrupted, with nothing
\* ready.
PollTimeout ==
    /\ looppc = "poll"
    /\ eventfd_ = 0
    /\ looppc' = "events"
    /\ UNCHANGED <<quit_, eventfd_, activeChannels_, pendfunclists_, temp,
                   ran>>
    /\ UNCHANGED callervars

\* Code of the user run by the owner may call quit(), which needs no wake.
CallbackMayQuit == quit_' \in {quit_, TRUE}

\* The callback of the wake channel is handlread, which empties the counter.
HandleEvent(c) ==
    /\ looppc = "events"
    /\ c \in activeChannels_
    /\ activeChannels_' = activeChannels_ \ {c}
    /\ IF c = wakechannel_
         THEN eventfd_' = 0 /\ UNCHANGED quit_
         ELSE CallbackMayQuit /\ UNCHANGED eventfd_
    /\ UNCHANGED <<looppc, pendfunclists_, temp, ran>>
    /\ UNCHANGED callervars

\* Mutant: the queue is copied and cleared in two critical sections, so what
\* is queued between the two is lost.
TakeAndLose ==
    /\ looppc = "events"
    /\ activeChannels_ = {}
    /\ looppc' = "run"
    /\ \E n \in 0..Len(pendfunclists_) :
          temp' = SubSeq(pendfunclists_, 1, n)
    /\ pendfunclists_' = <<>>
    /\ UNCHANGED <<quit_, eventfd_, activeChannels_, ran>>
    /\ UNCHANGED callervars

\* dopendfunc takes the whole queue in one critical section.
TakePending ==
    /\ looppc = "events"
    /\ activeChannels_ = {}
    /\ looppc' = "run"
    /\ temp' = pendfunclists_
    /\ pendfunclists_' = <<>>
    /\ UNCHANGED <<quit_, eventfd_, activeChannels_, ran>>
    /\ UNCHANGED callervars

\* Mutant: the loop over temp goes one past its end, where nobody's functor is.
RunPastEnd ==
    /\ looppc = "run"
    /\ IF temp = <<>>
         THEN ran' = Append(ran, 0) /\ UNCHANGED temp
         ELSE ran' = Append(ran, Head(temp)) /\ temp' = Tail(temp)
    /\ CallbackMayQuit
    /\ UNCHANGED <<looppc, eventfd_, activeChannels_, pendfunclists_>>
    /\ UNCHANGED callervars

RunPending ==
    /\ looppc = "run"
    /\ temp # <<>>
    /\ ran' = Append(ran, Head(temp))
    /\ temp' = Tail(temp)
    /\ CallbackMayQuit
    /\ UNCHANGED <<looppc, eventfd_, activeChannels_, pendfunclists_>>
    /\ UNCHANGED callervars

EndIteration ==
    /\ looppc = "run"
    /\ temp = <<>>
    /\ looppc' = "check"
    /\ UNCHANGED <<quit_, eventfd_, activeChannels_, pendfunclists_, temp,
                   ran>>
    /\ UNCHANGED callervars

-----------------------------------------------------------------------------
Caller(t) == RunInLoop(t) \/ Quit(t) \/ Wake(t)

Loop ==
    \/ StartLoop
    \/ CheckQuit
    \/ PollReturn
    \/ PollTimeout
    \/ \E c \in Channels \cup {wakechannel_} : HandleEvent(c)
    \/ TakePending
    \/ RunPending
    \/ EndIteration

Next == Loop \/ \E t \in Threads : Caller(t)

Spec == Init /\ [][Next]_vars

(***************************************************************************)
(* Fairness: the owner keeps executing loop(), epoll_wait returns while    *)
(* eventfd_ is readable, and a thread that has to wake the loop does.      *)
(* Nothing is assumed of epoll_wait's timeout nor of the other channels:   *)
(* the liveness properties rest on the wake-ups alone.                     *)
(***************************************************************************)
LoopProgress ==
    \/ CheckQuit
    \/ eventfd_ > 0 /\ PollReturn
    \/ \E c \in Channels \cup {wakechannel_} : HandleEvent(c)
    \/ TakePending
    \/ RunPending
    \/ EndIteration

FairSpec ==
    /\ Spec
    /\ WF_vars(LoopProgress)
    /\ \A t \in Threads : WF_vars(Wake(t))

-----------------------------------------------------------------------------
(* Properties.                                                             *)

Waking == \E t \in Threads : threadpc[t] = "wake"

Numbered(n) == [i \in 1..n |-> i]

\* The loop never sleeps in epoll_wait on a functor or a quit() it has not
\* been told of: either the eventfd is readable, so that epoll_wait returns,
\* or the thread that queued the functor or asked to quit is yet to write to
\* it.  (queueloop and quit write after they publish; handlread reads before
\* dopendfunc takes the queue.)
NoLostWakeup ==
    looppc = "poll" /\ (pendfunclists_ # <<>> \/ quit_)
        => eventfd_ > 0 \/ Waking

\* The inductive form: outside of the callbacks, where handlread may already
\* have emptied the eventfd, a functor in the queue has its wake-up, and so
\* has a quit() made since the flag was last tested.
WakeupInvariant ==
    /\ looppc # "events" /\ pendfunclists_ # <<>> => eventfd_ > 0 \/ Waking
    /\ looppc = "poll" /\ quit_ => eventfd_ > 0 \/ Waking

\* The functors run, those of the batch being run and those still queued are
\* all the functors ever queued, each once, in the order of runinloop's
\* critical sections; a batch survives no iteration.
ExactlyOnceInOrder ==
    /\ ran \o temp \o pendfunclists_ = Numbered(submitted)
    /\ looppc # "run" => temp = <<>>

\* The loop implements the queue runinloop promises: the batch dopendfunc
\* swapped out is the front of the queue.
TQ == INSTANCE TaskQueue WITH queue <- temp \o pendfunclists_

RefinesTaskQueue == TQ!Spec

\* A functor queued while the loop runs is run, unless the loop ends: no
\* timeout of epoll_wait is needed for it.
TaskRuns ==
    \A n \in 1..MaxTasks :
        submitted >= n /\ looppc # "idle"
            ~> Len(ran) >= n \/ looppc = "idle"
=============================================================================
