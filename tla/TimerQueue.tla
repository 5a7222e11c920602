----------------------------- MODULE TimerQueue -----------------------------
(***************************************************************************)
(* The timers of one EventLoop (net/TimerQueue.cc).  Any thread creates a  *)
(* timer and gets a timeId for it, or cancels one; the work on the timer   *)
(* lists is a functor that the loop's thread runs (at once when that       *)
(* thread is the caller, from the queue of module TaskQueue otherwise).    *)
(* When the timerfd expires the loop's thread takes the expired timers out *)
(* of the lists, runs their callbacks, puts the repeating ones back and    *)
(* arms the timerfd for the first timer left.                              *)
(*                                                                         *)
(* A timer is named by its index_, which is never reused: that the address *)
(* of a destroyed timenode may be, is left out, since the pair of an index *)
(* and an address is what the code compares.  Time is a discrete clock,    *)
(* one unit being the least delay resetfd arms (100 microseconds).         *)
(***************************************************************************)
EXTENDS Integers, Sequences

CONSTANTS Threads,   \* threads that use the timers and do not own the loop
          Loop,      \* the loop's thread
          MaxNodes,  \* bound on the number of timers
          MaxNow,    \* bound on the clock
          Delays,    \* how far from now a timer may be set
          Intervals  \* the intervals of timers, 0 for a one-shot timer

ASSUME TimerQueueAssumption ==
    /\ Loop \notin Threads
    /\ MaxNodes \in Nat
    /\ MaxNow \in Nat
    /\ Delays \subseteq Nat
    /\ Intervals \subseteq Nat

Callers == Threads \cup {Loop}
Nodes == 1..MaxNodes
MinDelay == 1
NotArmed == -1

VARIABLES
    now,             \* the clock
    size_,           \* the static counter of timenode, the last index_
    expiration,      \* expiration_ of each timer
    interval,        \* interval_ of each timer
    adding,          \* per caller, the timer addTimeNode just constructed
    returning,       \* per caller, the timer whose timeId is to be returned
    ids,             \* index the timeId returned for a timer carries, or 0
    queue,           \* functors handed to the loop's thread, not yet run
    list_,           \* <<expiration, timer>> pairs, ordered in the code
    indexlist_,      \* timers that can be found by their timeId
    deltimelist,     \* the expired timers taken by the last getExpired
    torun,           \* those of them whose callback is still to run
    waitdeltimelist, \* <<index, timer>> of cancels that came while calling
    looppc,          \* where the loop's thread is
    handlenow,       \* the clock when handleRead started
    armed,           \* when the timerfd becomes readable, or NotArmed
    fired,           \* history: timers that ran at least once
    cancelled        \* history: whether a cancel ran, before ("early") or
                     \* after ("late") its timer was added

callvars == <<size_, interval, adding, returning, ids>>
listvars == <<list_, indexlist_, armed>>
batchvars == <<deltimelist, torun, looppc, handlenow, fired>>
vars == <<now, size_, expiration, interval, adding, returning, ids, queue,
          list_, indexlist_, deltimelist, torun, waitdeltimelist, looppc,
          handlenow, armed, fired, cancelled>>

Functors ==
    [op : {"add"}, node : Nodes] \cup
    [op : {"cancel"}, node : Nodes, index : Nodes]

TypeOK ==
    /\ now \in 0..MaxNow
    /\ size_ \in 0..MaxNodes
    /\ expiration \in [Nodes -> Nat]
    /\ interval \in [Nodes -> Nat]
    /\ adding \in [Callers -> 0..MaxNodes]
    /\ returning \in [Callers -> 0..MaxNodes]
    /\ ids \in [Nodes -> 0..MaxNodes]
    /\ queue \in Seq(Functors)
    /\ list_ \subseteq Nat \X Nodes
    /\ indexlist_ \subseteq Nodes
    /\ deltimelist \subseteq Nodes
    /\ torun \subseteq deltimelist
    /\ waitdeltimelist \subseteq Nodes \X Nodes
    /\ looppc \in {"idle", "ready", "expire", "calling"}
    /\ handlenow \in 0..MaxNow
    /\ armed \in Nat \cup {NotArmed}
    /\ fired \subseteq Nodes
    /\ cancelled \in [Nodes -> {"no", "early", "late"}]

Init ==
    /\ now = 0
    /\ size_ = 0
    /\ expiration = [n \in Nodes |-> 0]
    /\ interval = [n \in Nodes |-> 0]
    /\ adding = [t \in Callers |-> 0]
    /\ returning = [t \in Callers |-> 0]
    /\ ids = [n \in Nodes |-> 0]
    /\ queue = <<>>
    /\ list_ = {}
    /\ indexlist_ = {}
    /\ deltimelist = {}
    /\ torun = {}
    /\ waitdeltimelist = {}
    /\ looppc = "idle"
    /\ handlenow = 0
    /\ armed = NotArmed
    /\ fired = {}
    /\ cancelled = [n \in Nodes |-> "no"]

-----------------------------------------------------------------------------
(* What the loop's thread does to the lists.                               *)

calling == looppc = "calling"

\* Mutant: a delay that is not positive is passed on, which disarms the timerfd.
ResetFdZero(t) == IF t > now THEN t ELSE NotArmed

\* resetfd: the time the timerfd is set for, at least MinDelay away.
ResetFd(t) == IF t > now + MinDelay THEN t ELSE now + MinDelay

\* Mutant: the timerfd is armed for the first timer only, not for a new first.
FirstWhenAlone(n) == list_ = {}

\* What insert returns: there is no other timer, or all come later.
IsFirst(n) == \A x \in list_ : expiration[n] < x[1]

\* addTimeNodeInLoop, with insert.
AddTimeNodeInLoop(n) ==
    /\ list_' = list_ \cup {<<expiration[n], n>>}
    /\ indexlist_' = indexlist_ \cup {n}
    /\ armed' = IF IsFirst(n)
                  THEN ResetFd(expiration[n])
                  ELSE armed
    /\ UNCHANGED <<waitdeltimelist, cancelled>>

Added(n) ==
    /\ \A t \in Callers : adding[t] # n
    /\ \A i \in 1..Len(queue) : queue[i] # [op |-> "add", node |-> n]

\* Mutant: the timer is erased from list_ alone.
DelFromListOnly(n, k) ==
    /\ cancelled' = [cancelled EXCEPT ![n] =
                        IF Added(n) THEN "late" ELSE "early"]
    /\ list_' = list_ \ {<<expiration[n], n>>}
    /\ UNCHANGED <<waitdeltimelist, indexlist_, armed>>

\* delTimeNodeInLoop for the timeId of timer n and index k: nothing is armed
\* or disarmed; a timeId that is not found is kept while callbacks run.
DelTimeNodeInLoop(n, k) ==
    /\ cancelled' = [cancelled EXCEPT ![n] =
                        IF Added(n) THEN "late" ELSE "early"]
    /\ IF k = n /\ n \in indexlist_
         THEN /\ list_' = list_ \ {<<expiration[n], n>>}
              /\ indexlist_' = indexlist_ \ {n}
              /\ UNCHANGED waitdeltimelist
         ELSE /\ waitdeltimelist' = IF calling
                                      THEN waitdeltimelist \cup {<<k, n>>}
                                      ELSE waitdeltimelist
              /\ UNCHANGED <<list_, indexlist_>>
    /\ UNCHANGED armed

-----------------------------------------------------------------------------
(* The callers.  The loop's thread is one while a callback or a functor of *)
(* the user runs: between events, or after the first timer of a batch.     *)

InAddTimeNode(t) == adding[t] # 0 \/ returning[t] # 0

InUserCode(t) ==
    /\ ~InAddTimeNode(t)
    /\ t = Loop => \/ looppc \in {"idle", "ready"}
                   \/ calling /\ torun # deltimelist

\* addTimeNode up to the construction of the timenode, which takes the next
\* index.
NewTimeNode(t) ==
    /\ InUserCode(t)
    /\ size_ < MaxNodes
    /\ size_' = size_ + 1
    /\ \E d \in Delays, i \in Intervals :
          /\ expiration' = [expiration EXCEPT ![size_ + 1] = now + d]
          /\ interval' = [interval EXCEPT ![size_ + 1] = i]
    /\ adding' = [adding EXCEPT ![t] = size_ + 1]
    /\ UNCHANGED <<now, returning, ids, queue, listvars, batchvars,
                   waitdeltimelist, cancelled>>

\* addTimeNode's call of runinloop.
AddTimeNode(t) ==
    /\ adding[t] # 0
    /\ IF t = Loop
         THEN AddTimeNodeInLoop(adding[t]) /\ UNCHANGED queue
         ELSE /\ queue' = Append(queue, [op |-> "add", node |-> adding[t]])
              /\ UNCHANGED <<listvars, waitdeltimelist, cancelled>>
    /\ adding' = [adding EXCEPT ![t] = 0]
    /\ returning' = [returning EXCEPT ![t] = adding[t]]
    /\ UNCHANGED <<now, size_, expiration, interval, ids, batchvars>>

\* Mutant: the timeId carries the index of the timer to come.
ReturnNextIndex(t) ==
    /\ returning[t] # 0
    /\ ids' = [ids EXCEPT ![returning[t]] = size_ + 1]
    /\ returning' = [returning EXCEPT ![t] = 0]
    /\ UNCHANGED <<now, size_, expiration, interval, adding, queue, listvars,
                   batchvars, waitdeltimelist, cancelled>>

\* addTimeNode's return: the timeId carries size(), the counter as it is now.
ReturnTimeId(t) ==
    /\ returning[t] # 0
    /\ ids' = [ids EXCEPT ![returning[t]] = size_]
    /\ returning' = [returning EXCEPT ![t] = 0]
    /\ UNCHANGED <<now, size_, expiration, interval, adding, queue, listvars,
                   batchvars, waitdeltimelist, cancelled>>

\* cancel, by a caller that was given the timeId.  A timer is cancelled once.
Cancel(t, n) ==
    /\ InUserCode(t)
    /\ ids[n] # 0
    /\ cancelled[n] = "no"
    /\ \A i \in 1..Len(queue) : queue[i].op = "cancel" => queue[i].node # n
    /\ IF t = Loop
         THEN DelTimeNodeInLoop(n, ids[n]) /\ UNCHANGED queue
         ELSE /\ queue' = Append(queue, [op |-> "cancel", node |-> n,
                                         index |-> ids[n]])
              /\ UNCHANGED <<listvars, waitdeltimelist, cancelled>>
    /\ UNCHANGED <<now, expiration, callvars, batchvars>>

-----------------------------------------------------------------------------
(* The loop's thread.                                                      *)

\* A functor of the queue (EventLoop.dopendfunc).
RunFunctor ==
    /\ looppc = "idle"
    /\ ~InAddTimeNode(Loop)
    /\ queue # <<>>
    /\ queue' = Tail(queue)
    /\ LET f == Head(queue) IN
          IF f.op = "add" THEN AddTimeNodeInLoop(f.node)
                          ELSE DelTimeNodeInLoop(f.node, f.index)
    /\ UNCHANGED <<now, expiration, callvars, batchvars>>

Readable == armed # NotArmed /\ armed <= now

\* epoll_wait reports the timerfd; callbacks of other channels may come first.
Poll ==
    /\ looppc = "idle"
    /\ ~InAddTimeNode(Loop)
    /\ Readable
    /\ looppc' = "ready"
    /\ UNCHANGED <<now, expiration, callvars, queue, listvars, deltimelist,
                   torun, handlenow, fired, waitdeltimelist, cancelled>>

\* handleRead reads the clock.
HandleRead ==
    /\ looppc = "ready"
    /\ ~InAddTimeNode(Loop)
    /\ looppc' = "expire"
    /\ handlenow' = now
    /\ UNCHANGED <<now, expiration, callvars, queue, listvars, deltimelist,
                   torun, fired, waitdeltimelist, cancelled>>

\* Mutant: a timer that expires right now is taken.
ExpiredNow == {x \in list_ : x[1] <= now}

\* The entries getExpired takes: lower_bound leaves those that expire now.
Expired == {x \in list_ : x[1] < now}

\* getExpired, which reads the clock again.
GetExpired ==
    /\ looppc = "expire"
    /\ deltimelist' = {x[2] : x \in Expired}
    /\ torun' = deltimelist'
    /\ list_' = list_ \ Expired
    /\ indexlist_' = indexlist_ \ deltimelist'
    /\ looppc' = "calling"
    /\ UNCHANGED <<now, expiration, callvars, queue, armed, handlenow, fired,
                   waitdeltimelist, cancelled>>

\* The callback of an expired timer starts; they run in order of expiration.
RunTimer(n) ==
    /\ calling
    /\ ~InAddTimeNode(Loop)
    /\ n \in torun
    /\ \A m \in torun : expiration[n] <= expiration[m]
    /\ torun' = torun \ {n}
    /\ fired' = fired \cup {n}
    /\ UNCHANGED <<now, expiration, callvars, queue, listvars, deltimelist,
                   looppc, handlenow, waitdeltimelist, cancelled>>

\* Mutants: no timer is put back; a cancelled one is.
PutBackNone == {}
PutBackCancelled == {n \in deltimelist : interval[n] > 0}

\* The timers fflash puts back: the repeating ones not cancelled meanwhile.
PutBack == {n \in deltimelist :
               interval[n] > 0 /\ <<n, n>> \notin waitdeltimelist}

\* restart: the next time is counted from the batch's clock.
Restarted(n) == handlenow + interval[n]

\* Arm the timerfd for the first timer left, if there is one.
ArmFirst ==
    \/ list_' = {} /\ UNCHANGED armed
    \/ \E first \in list_' :
          /\ \A x \in list_' : first[1] <= x[1]
          /\ armed' = ResetFd(first[1])

\* fflash.  What is left in deltimelist is destroyed by the next getExpired.
Fflash ==
    /\ calling
    /\ ~InAddTimeNode(Loop)
    /\ torun = {}
    /\ expiration' = [n \in Nodes |-> IF n \in PutBack
                                        THEN Restarted(n)
                                        ELSE expiration[n]]
    /\ list_' = list_ \cup {<<expiration'[n], n>> : n \in PutBack}
    /\ indexlist_' = indexlist_ \cup PutBack
    /\ deltimelist' = deltimelist \ PutBack
    /\ ArmFirst
    /\ looppc' = "idle"
    /\ UNCHANGED <<now, callvars, queue, torun, handlenow, fired,
                   waitdeltimelist, cancelled>>

Tick ==
    /\ now < MaxNow
    /\ now' = now + 1
    /\ UNCHANGED <<expiration, callvars, queue, listvars, batchvars,
                   waitdeltimelist, cancelled>>

-----------------------------------------------------------------------------
Caller(t) ==
    \/ NewTimeNode(t)
    \/ AddTimeNode(t)
    \/ ReturnTimeId(t)
    \/ \E n \in Nodes : Cancel(t, n)

LoopStep ==
    \/ RunFunctor
    \/ Poll
    \/ HandleRead
    \/ GetExpired
    \/ \E n \in Nodes : RunTimer(n)
    \/ Fflash

Next == Tick \/ LoopStep \/ \E t \in Callers : Caller(t)

Spec == Init /\ [][Next]_vars

(***************************************************************************)
(* Fairness: time passes; an iteration of loop() that does not sleep       *)
(* handles the timerfd if it is readable and runs the functors if there    *)
(* are any, so neither is passed over for ever; the rest is straight code. *)
(* No thread has to start an operation.                                    *)
(***************************************************************************)
FairSpec ==
    /\ Spec
    /\ WF_vars(Tick)
    /\ SF_vars(Poll)
    /\ SF_vars(RunFunctor)
    /\ WF_vars(HandleRead)
    /\ WF_vars(GetExpired)
    /\ WF_vars(\E n \in Nodes : RunTimer(n))
    /\ WF_vars(Fflash)
    /\ \A t \in Callers : WF_vars(AddTimeNode(t)) /\ WF_vars(ReturnTimeId(t))

-----------------------------------------------------------------------------
(* Properties.                                                             *)

\* The two lists hold the same timers and list_ has each at its present
\* expiration, so that delTimeNodeInLoop finds in list_ what it found in
\* indexlist_ and never erases end().
ListsAgree ==
    /\ indexlist_ = {x[2] : x \in list_}
    /\ \A x \in list_ : x[1] = expiration[x[2]]

InQueue(n) == \E i \in 1..Len(queue) : queue[i] = [op |-> "add", node |-> n]
InAdding(n) == \E t \in Callers : adding[t] = n
Finished(n) == (interval[n] = 0 /\ n \in fired) \/ cancelled[n] # "no"

\* A timer has one owner: the call that creates it, the functor that adds it,
\* the lists, or the batch of expired timers; and it leaves them only when it
\* is a one-shot timer that ran or was cancelled.  So no timer is lost, and
\* none is deleted twice.
TimersConserved ==
    \A n \in 1..size_ :
        \/ InAdding(n) /\ ~InQueue(n) /\ n \notin indexlist_ \cup deltimelist
        \/ InQueue(n) /\ ~InAdding(n) /\ n \notin indexlist_ \cup deltimelist
        \/ Added(n) /\ n \in indexlist_ /\ n \notin deltimelist
        \/ Added(n) /\ n \in deltimelist /\ n \notin indexlist_
        \/ Added(n) /\ n \notin indexlist_ \cup deltimelist /\ Finished(n)

\* The timerfd is never armed later than the first timer, or than the least
\* delay it can be set for: cancelling, adding from a callback and adding
\* from the queue keep the loop waking up in time.
ArmedInTime ==
    \A x \in list_ : armed # NotArmed /\ armed <= ResetFd(x[1])

\* A callback runs after its timer's expiration, and once for a one-shot
\* timer.
RunsWhenDue ==
    [][\A n \in Nodes :
          n \in torun /\ n \notin torun' =>
              expiration[n] < now /\ (interval[n] = 0 => n \notin fired)]_vars

\* A timer that was added, and then cancelled with its own index, is out of
\* the lists for good, also when it was cancelled by a callback of the batch
\* it was in.
CancelledIsOut ==
    \A n \in 1..size_ :
        cancelled[n] = "late" /\ ids[n] = n => n \notin indexlist_

\* A timer in the lists runs, unless it is cancelled or the timerfd is armed
\* for a time past the bound on the clock.
DueTimerRuns ==
    \A n \in Nodes :
        n \in indexlist_ /\ expiration[n] < MaxNow
            ~> \/ n \in fired
               \/ cancelled[n] # "no"
               \/ now = MaxNow /\ armed > now

\* What TimerQueue.cc says of cancel ("cancel a timer event") and of
\* addTimeNode ("add a timer task, may be in another thread"): the timeId that
\* addTimeNode returned cancels the timer, once it was added.
TimeIdCancels ==
    \A n \in 1..size_ : cancelled[n] = "late" => n \notin indexlist_
=============================================================================
