---------------------------- MODULE EpollPoller ----------------------------
(***************************************************************************)
(* The channels of one loop (net/Channel.h) and the poller that keeps      *)
(* epoll's interest list in step with them (net/EpollPoller.cc).  All of   *)
(* it runs in the loop's thread: the loop polls, handles the channels of   *)
(* the batch one after the other, and any callback may change what any     *)
(* channel is interested in, or remove a channel that is disabled.  Which  *)
(* events are reported of a channel is left out, since any callback may    *)
(* do any of this.                                                         *)
(*                                                                         *)
(* epoll itself is outside the code: interest is its list, and epoll_ctl   *)
(* fails, with no effect, when it adds what is there or changes or deletes *)
(* what is not.  update ignores the failure; failed records it.            *)
(* Each channel has a file descriptor of its own, open all along.          *)
(***************************************************************************)
EXTENDS Naturals, FiniteSets

CONSTANTS Channels,   \* the channels of the loop
          InitSize    \* kinitepollsize, the first size of events_

ASSUME EpollPollerAssumption ==
    /\ IsFiniteSet(Channels)
    /\ InitSize \in Nat \ {0}

knew == "new"
kin == "in"
kdel == "del"
Events == {"read", "write"}
NotPolled == {"notpolled"} \* of interest: epoll does not know the channel
None == "none"

VARIABLES
    events_,         \* the interest each channel asks for
    index_,          \* the state the poller keeps in each channel
    channels_,       \* the channels of the poller's map
    interest,        \* epoll's list: the events it watches per channel
    activeChannels_, \* the batch of EventLoop.loop
    tohandle,        \* the channels of the batch still to be handled
    nowChannel_,     \* the channel being handled
    size,            \* events_.size(), the most one epoll_wait reports
    failed           \* history: an epoll_ctl failed

batchvars == <<activeChannels_, tohandle, nowChannel_, size>>
vars == <<events_, index_, channels_, interest, activeChannels_, tohandle,
          nowChannel_, size, failed>>

TypeOK ==
    /\ events_ \in [Channels -> SUBSET Events]
    /\ index_ \in [Channels -> {knew, kin, kdel}]
    /\ channels_ \subseteq Channels
    /\ interest \in [Channels -> (SUBSET Events) \cup {NotPolled}]
    /\ activeChannels_ \subseteq Channels
    /\ tohandle \subseteq activeChannels_
    /\ nowChannel_ \in Channels \cup {None}
    /\ size \in Nat \ {0}
    /\ failed \in BOOLEAN

Init ==
    /\ events_ = [c \in Channels |-> {}]
    /\ index_ = [c \in Channels |-> knew]
    /\ channels_ = {}
    /\ interest = [c \in Channels |-> NotPolled]
    /\ activeChannels_ = {}
    /\ tohandle = {}
    /\ nowChannel_ = None
    /\ size = InitSize
    /\ failed = FALSE

-----------------------------------------------------------------------------
(* epoll_ctl.                                                              *)

\* epoll_ctl on c, which succeeds or not.
Watch(c, e, success) ==
    IF success
      THEN interest' = [interest EXCEPT ![c] = e] /\ UNCHANGED failed
      ELSE failed' = TRUE /\ UNCHANGED interest

\* update with EPOLL_CTL_ADD, EPOLL_CTL_MOD and EPOLL_CTL_DEL.
CtlAdd(c, e) == Watch(c, e, interest[c] = NotPolled)
CtlMod(c, e) == Watch(c, e, interest[c] # NotPolled)
CtlDel(c) == Watch(c, NotPolled, interest[c] # NotPolled)

\* Mutant: a disabled channel is taken for one that epoll still has.
UpModDisabled(c, e) ==
    /\ IF index_[c] = knew
         THEN CtlAdd(c, e)
         ELSE IF e = {} THEN CtlDel(c) ELSE CtlMod(c, e)
    /\ index_' = [index_ EXCEPT ![c] = IF e = {} THEN kdel ELSE kin]
    /\ channels_' = channels_ \cup {c}

\* Mutant: a channel with no events left is kept in epoll.
UpNeverDeletes(c, e) ==
    /\ IF index_[c] = kin THEN CtlMod(c, e) ELSE CtlAdd(c, e)
    /\ index_' = [index_ EXCEPT ![c] = IF index_[c] = kin /\ e = {}
                                         THEN kdel ELSE kin]
    /\ channels_' = channels_ \cup {c}

\* upChannel, with e the events_ of c.
UpChannel(c, e) ==
    /\ IF index_[c] # kin
         THEN CtlAdd(c, e)
         ELSE IF e = {} THEN CtlDel(c) ELSE CtlMod(c, e)
    /\ index_' = [index_ EXCEPT ![c] = IF index_[c] = kin /\ e = {}
                                         THEN kdel ELSE kin]
    /\ channels_' = channels_ \cup {c}

-----------------------------------------------------------------------------
(* The operations of a Channel, called by callbacks and functors: not       *)
(* between a poll and the first channel of its batch.                      *)

UserCode == activeChannels_ = {} \/ tohandle # activeChannels_

SetEvents(c, e) ==
    /\ UserCode
    /\ events_' = [events_ EXCEPT ![c] = e]
    /\ UpChannel(c, e)
    /\ UNCHANGED batchvars

EnRead(c) == SetEvents(c, events_[c] \cup {"read"})
EnWrite(c) == SetEvents(c, events_[c] \cup {"write"})

\* Only channels that were enabled before are disabled.
DisWrite(c) == index_[c] # knew /\ SetEvents(c, events_[c] \ {"write"})
DisAllEvent(c) == index_[c] # knew /\ SetEvents(c, {})

\* Mutant: a channel may be removed while the batch still has to handle it.
RemoveFromBatch(c) ==
    /\ UserCode
    /\ c \in channels_ /\ events_[c] = {} /\ index_[c] # knew
    /\ channels_' = channels_ \ {c}
    /\ IF index_[c] = kin THEN CtlDel(c) ELSE UNCHANGED <<interest, failed>>
    /\ index_' = [index_ EXCEPT ![c] = knew]
    /\ UNCHANGED <<events_, batchvars>>

\* Mutant: remove does not delete a channel that epoll has.
RemoveKeepsInterest(c) ==
    /\ UserCode
    /\ c \in channels_ /\ events_[c] = {} /\ index_[c] # knew
    /\ c = nowChannel_ \/ c \notin activeChannels_
    /\ channels_' = channels_ \ {c}
    /\ index_' = [index_ EXCEPT ![c] = knew]
    /\ UNCHANGED <<events_, interest, failed, batchvars>>

\* EventLoop.removeChannel, and the poller's, whose assertions are the terms
\* a caller keeps to: the channel is known and disabled, and the batch does
\* not hold it, unless it is the one being handled.
Remove(c) ==
    /\ UserCode
    /\ c \in channels_ /\ events_[c] = {} /\ index_[c] # knew
    /\ c = nowChannel_ \/ c \notin activeChannels_
    /\ channels_' = channels_ \ {c}
    /\ IF index_[c] = kin THEN CtlDel(c) ELSE UNCHANGED <<interest, failed>>
    /\ index_' = [index_ EXCEPT ![c] = knew]
    /\ UNCHANGED <<events_, batchvars>>

-----------------------------------------------------------------------------
(* The loop.                                                               *)

\* The batch of the iteration.
FillActiceChannel(ready) ==
    /\ activeChannels_' = ready
    /\ tohandle' = ready

\* Mutant: the array is resized to what was reported.
PollShrinks ==
    /\ tohandle = {}
    /\ \E ready \in SUBSET {c \in Channels : interest[c] # NotPolled} :
          /\ Cardinality(ready) <= size
          /\ FillActiceChannel(ready)
          /\ size' = Cardinality(ready)
    /\ UNCHANGED <<events_, index_, channels_, interest, nowChannel_, failed>>

\* poll: level-triggered, so any channels epoll watches may be reported, or
\* none.  A full array grows.
Poll ==
    /\ tohandle = {}
    /\ \E ready \in SUBSET {c \in Channels : interest[c] # NotPolled} :
          /\ Cardinality(ready) <= size
          /\ FillActiceChannel(ready)
          /\ size' = IF Cardinality(ready) = size THEN 2 * size ELSE size
    /\ UNCHANGED <<events_, index_, channels_, interest, nowChannel_, failed>>

\* The next channel of the batch; its callbacks are operations that follow.
HandleEvent(c) ==
    /\ c \in tohandle
    /\ tohandle' = tohandle \ {c}
    /\ nowChannel_' = c
    /\ UNCHANGED <<events_, index_, channels_, interest, activeChannels_,
                   size, failed>>

-----------------------------------------------------------------------------
ChannelOperation(c) ==
    EnRead(c) \/ EnWrite(c) \/ DisWrite(c) \/ DisAllEvent(c) \/ Remove(c)

Next == Poll \/ \E c \in Channels : HandleEvent(c) \/ ChannelOperation(c)

Spec == Init /\ [][Next]_vars

-----------------------------------------------------------------------------
(* Properties.                                                             *)

\* What the channels record is what epoll watches: a channel is kin exactly
\* when epoll has it, with the events_ it asks for; one that is not kin asks
\* for none; and the map holds the channels that are not knew.
KernelAgrees ==
    \A c \in Channels :
        /\ index_[c] = kin => interest[c] = events_[c]
        /\ index_[c] # kin => interest[c] = NotPolled /\ events_[c] = {}
        /\ index_[c] # knew <=> c \in channels_

\* No epoll_ctl is refused, whatever order callbacks enable, disable, remove
\* and re-enable channels in: nobody reads its result.
NoCtlFails == ~failed

\* A channel that the loop is yet to handle is one the poller still has, so
\* its callbacks are not run after its removal, and epoll never reports a
\* channel that FillActiceChannel does not find in the map.
BatchIsRegistered ==
    /\ tohandle \subseteq channels_
    /\ \A c \in Channels : interest[c] # NotPolled => c \in channels_
=============================================================================
