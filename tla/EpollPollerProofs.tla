------------------------- MODULE EpollPollerProofs -------------------------
(***************************************************************************)
(* Proofs about EpollPoller for any finite set of channels: epoll's list   *)
(* is in step with the channels, so no epoll_ctl can fail, and a batch     *)
(* never holds a channel that was removed.                                 *)
(***************************************************************************)
EXTENDS EpollPoller, FiniteSetTheorems, TLAPS

\* The state of the poller keeps its types.
THEOREM TypeCorrect == Spec => []TypeOK
  <1>1. Init => TypeOK
    BY EpollPollerAssumption
       DEF EpollPollerAssumption, Init, TypeOK, NotPolled, Events, None
  <1>2. TypeOK /\ [Next]_vars => TypeOK'
    <2> SUFFICES ASSUME TypeOK, [Next]_vars PROVE TypeOK'
      OBVIOUS
    <2> USE DEF TypeOK
    <2>1. ASSUME NEW c \in Channels, NEW e \in SUBSET Events, SetEvents(c, e)
          PROVE  TypeOK'
      BY <2>1 DEF SetEvents, UpChannel, CtlAdd, CtlMod, CtlDel, Watch,
         batchvars
    <2>2. ASSUME NEW c \in Channels,
                 EnRead(c) \/ EnWrite(c) \/ DisWrite(c) \/ DisAllEvent(c)
          PROVE  TypeOK'
      BY <2>1, <2>2 DEF EnRead, EnWrite, DisWrite, DisAllEvent, Events
    <2>3. ASSUME NEW c \in Channels, Remove(c) PROVE TypeOK'
      BY <2>3 DEF Remove, CtlDel, Watch, batchvars
    <2>4. CASE Poll
      BY <2>4 DEF Poll, FillActiceChannel
    <2>5. ASSUME NEW c \in Channels, HandleEvent(c) PROVE TypeOK'
      BY <2>5 DEF HandleEvent
    <2>6. CASE UNCHANGED vars
      BY <2>6 DEF vars
    <2> QED
      BY <2>2, <2>3, <2>4, <2>5, <2>6 DEF Next, ChannelOperation
  <1> QED
    BY <1>1, <1>2, PTL DEF Spec

-----------------------------------------------------------------------------
\* The inductive invariant: the agreement is what keeps epoll_ctl from
\* failing, and the channel being handled, which may be removed, has left
\* those still to be handled.
NowIsHandled == UserCode => nowChannel_ \notin tohandle
InSync == KernelAgrees /\ NoCtlFails /\ BatchIsRegistered /\ NowIsHandled

LEMMA InSyncStep == TypeOK /\ InSync /\ [Next]_vars => InSync'
  <1> SUFFICES ASSUME TypeOK, InSync, [Next]_vars PROVE InSync'
    OBVIOUS
  <1> USE DEF TypeOK, InSync, KernelAgrees, NoCtlFails, BatchIsRegistered,
              NowIsHandled, UserCode
  <1>1. ASSUME NEW e \in SUBSET Events PROVE e # NotPolled
    BY DEF Events, NotPolled
  <1>2. ASSUME NEW c \in Channels, NEW e \in SUBSET Events, SetEvents(c, e)
        PROVE  InSync'
    <2> USE DEF SetEvents, UpChannel, CtlAdd, CtlMod, CtlDel, Watch, batchvars,
            kin, knew, kdel
    <2>1. CASE index_[c] # kin
      <3>1. interest[c] = NotPolled /\ interest' = [interest EXCEPT ![c] = e]
            /\ failed' = FALSE
        BY <1>2, <2>1
      <3> QED
        BY <1>1, <1>2, <2>1, <3>1
    <2>2. CASE index_[c] = kin /\ e = {}
      <3>1. interest[c] # NotPolled
            /\ interest' = [interest EXCEPT ![c] = NotPolled]
            /\ failed' = FALSE
        BY <1>1, <1>2, <2>2
      <3> QED
        BY <1>1, <1>2, <2>2, <3>1
    <2>3. CASE index_[c] = kin /\ e # {}
      <3>1. interest[c] # NotPolled /\ interest' = [interest EXCEPT ![c] = e]
            /\ failed' = FALSE
        BY <1>1, <1>2, <2>3
      <3> QED
        BY <1>1, <1>2, <2>3, <3>1
    <2> QED
      BY <2>1, <2>2, <2>3
  <1>3. ASSUME NEW c \in Channels,
               EnRead(c) \/ EnWrite(c) \/ DisWrite(c) \/ DisAllEvent(c)
        PROVE  InSync'
    BY <1>2, <1>3 DEF EnRead, EnWrite, DisWrite, DisAllEvent, Events
  <1>4. ASSUME NEW c \in Channels, Remove(c) PROVE InSync'
    <2>1. c \notin tohandle /\ channels_' = channels_ \ {c}
          /\ index_' = [index_ EXCEPT ![c] = knew]
          /\ UNCHANGED <<events_, activeChannels_, tohandle, nowChannel_>>
      BY <1>4 DEF Remove, batchvars
    <2>2. failed' = FALSE
          /\ interest' = [interest EXCEPT ![c] = NotPolled]
      BY <1>1, <1>4 DEF Remove, CtlDel, Watch
    <2>3. events_[c] = {}
      BY <1>4 DEF Remove
    <2>4. KernelAgrees'
      BY <2>1, <2>2, <2>3 DEF knew, kin, kdel
    <2>5. NoCtlFails' /\ NowIsHandled'
      BY <2>1, <2>2
    <2>6. BatchIsRegistered'
      BY <2>1, <2>2
    <2> QED
      BY <2>4, <2>5, <2>6
  <1>5. CASE Poll
    BY <1>5 DEF Poll, FillActiceChannel
  <1>6. ASSUME NEW c \in Channels, HandleEvent(c) PROVE InSync'
    BY <1>6 DEF HandleEvent
  <1>7. CASE UNCHANGED vars
    BY <1>7 DEF vars
  <1> QED
    BY <1>3, <1>4, <1>5, <1>6, <1>7 DEF Next, ChannelOperation

THEOREM InSyncHolds == Spec => []InSync
  <1>1. Init => InSync
    BY DEF Init, InSync, KernelAgrees, NoCtlFails, BatchIsRegistered,
       NowIsHandled, knew, kin
  <1> QED
    BY <1>1, TypeCorrect, InSyncStep, PTL DEF Spec

\* epoll watches exactly the channels the poller marks kin, each with the
\* events it asks for.
THEOREM ChannelsMatchEpoll == Spec => []KernelAgrees
  BY InSyncHolds, PTL DEF InSync

\* No epoll_ctl of update, whose result is ignored, fails.
THEOREM EpollCtlSucceeds == Spec => []NoCtlFails
  BY InSyncHolds, PTL DEF InSync

\* A channel removed in a batch is not handled later in the batch.
THEOREM RemovedIsNotHandled == Spec => []BatchIsRegistered
  BY InSyncHolds, PTL DEF InSync
=============================================================================
