----------------------------- MODULE TcpConnect -----------------------------
(***************************************************************************)
(* One connection (net/TcpConnect.cc): the callbacks of its channel, the   *)
(* output it buffers when the socket does not take all of it, and its      *)
(* closing.  The loop's thread runs the callbacks; any thread sends or     *)
(* shuts down, as a functor of the loop's queue (module TaskQueue) when it *)
(* is not the loop's own.  A callback of the user, or a functor, sends and *)
(* shuts down at once.                                                     *)
(*                                                                         *)
(* The socket is outside the code: it takes what its buffer has room for,  *)
(* fails when there is none, reports end of file after SHUT_RD or when the *)
(* peer closed, and after a reset fails once and then kills the process at *)
(* a write (nothing handles SIGPIPE).  What was received is left abstract, *)
(* the user's to read.  A sender keeps its string until it has been sent.  *)
(***************************************************************************)
EXTENDS Buffer

CONSTANTS Threads,  \* threads that use the connection and do not own the loop
          Loop,     \* the loop's thread
          MaxMsgs,  \* bound on the messages sent
          MsgLen,   \* bytes of each message, in the order they are sent
          BufSize,  \* the size outbuffer_ starts with
          SockSize, \* bytes the socket holds for the peer
          MaxIn     \* bound on the messages of the peer

ASSUME TcpConnectAssumption ==
    /\ Loop \notin Threads
    /\ MaxMsgs \in Nat /\ MaxIn \in Nat
    /\ MsgLen \in [1..MaxMsgs -> Nat \ {0}]
    /\ SockSize \in Nat \ {0} /\ BufSize \in Nat

Callers == Threads \cup {Loop}
Msgs == 1..MaxMsgs

VARIABLES
    state_,     \* kconnected or kdisconnect
    events_,    \* what the channel asks for
    polled,     \* whether epoll has the channel
    outbuffer_, \* a Buffer: the bytes to be written by handlewrite
    revents_,   \* what epoll reported, while it is handled
    looppc,     \* where the loop's thread is
    callerpc,   \* a caller that passed the test of state_ in shutdown
    queue,      \* functors for the loop's thread
    created,    \* number of messages sent so far
    sender,     \* who sent each
    closed,     \* whether closecallback_ was called
    aborted,    \* the process is gone: a failed assertion, or SIGPIPE
    sndbuf,     \* the socket: bytes the peer has not read
    inq,        \* the socket: messages of the peer, not read
    rdshut,     \* the socket: SHUT_RD
    peer,       \* "open", "fin", "reset", or "broken" once that was reported
    peersent,   \* number of messages of the peer
    received,   \* history: bytes the peer has read
    handed      \* history: messages sendinloop was called for, in order

channelvars == <<events_, polled>>
peervars == <<peersent, received>>
callvars == <<state_, callerpc, queue, created, sender, handed>>
vars == <<state_, events_, polled, outbuffer_, revents_, looppc, callerpc,
          queue, created, sender, closed, aborted, sndbuf, inq, rdshut, peer,
          peersent, received, handed>>

Bytes == UNION {{m} \X (1..MsgLen[m]) : m \in Msgs}
Functors == [op : {"send"}, msg : Msgs] \cup [op : {"shutdown"}]

TypeOK ==
    /\ state_ \in {"kconnected", "kdisconnect"}
    /\ events_ \subseteq {"read", "write"}
    /\ polled \in BOOLEAN
    /\ outbuffer_.data \in Seq(Bytes \cup {Junk})
    /\ outbuffer_.readindex_ \in -1..outbuffer_.writeindex_
    /\ outbuffer_.writeindex_ \in 0..Len(outbuffer_.data)
    /\ revents_ \subseteq {"in", "out", "hup"}
    /\ looppc \in {"new", "idle", "read", "message", "write"}
    /\ callerpc \in [Callers -> {"out", "shutdown"}]
    /\ queue \in Seq(Functors)
    /\ created \in 0..MaxMsgs
    /\ sender \in [Msgs -> Callers]
    /\ closed \in BOOLEAN
    /\ aborted \in BOOLEAN
    /\ sndbuf \in Seq(Bytes \cup {Junk}) /\ Len(sndbuf) <= SockSize
    /\ inq \in 0..MaxIn
    /\ rdshut \in BOOLEAN
    /\ peer \in {"open", "fin", "reset", "broken"}
    /\ peersent \in 0..MaxIn
    /\ received \in Seq(Bytes)
    /\ handed \in Seq(Msgs)

Init ==
    /\ state_ = "kconnected"
    /\ events_ = {}
    /\ polled = FALSE
    /\ outbuffer_ = NewBuffer(BufSize)
    /\ revents_ = {}
    /\ looppc = "new"
    /\ callerpc = [t \in Callers |-> "out"]
    /\ queue = <<>>
    /\ created = 0
    /\ sender = [m \in Msgs |-> Loop]
    /\ closed = FALSE
    /\ aborted = FALSE
    /\ sndbuf = <<>>
    /\ inq = 0
    /\ rdshut = FALSE
    /\ peer = "open"
    /\ peersent = 0
    /\ received = <<>>
    /\ handed = <<>>

-----------------------------------------------------------------------------
(* The channel and the socket.                                             *)

\* Channel's upevent with the events e: the poller adds or changes what it
\* watches, and deletes a channel it watches that asks for nothing.
UpEvent(e) ==
    /\ events_' = e
    /\ polled' = ~(polled /\ e = {})

iswriting == "write" \in events_

Room == SockSize - Len(sndbuf)
Take(s, n) == SubSeq(s, 1, n)
Drop(s, n) == SubSeq(s, n + 1, Len(s))
Smaller(a, b) == IF a < b THEN a ELSE b
BytesOf(m) == [i \in 1..MsgLen[m] |-> <<m, i>>]

Connected == peer \in {"open", "fin"}

\* What epoll reports: hang-ups always, the rest on request.
Reported ==
    {e \in {"in", "out", "hup"} :
        \/ /\ e = "in" /\ "read" \in events_
           /\ inq > 0 \/ rdshut \/ peer # "open"
        \/ e = "out" /\ iswriting /\ (Room > 0 \/ ~Connected)
        \/ e = "hup" /\ ~Connected}

-----------------------------------------------------------------------------
(* What sendinloop and shutdownloop do.                                    *)

Abort == aborted' = TRUE /\ UNCHANGED <<channelvars, outbuffer_, sndbuf>>

\* Mutant: the channel is not told of the rest.
RestUnwatched(s, n) ==
    /\ outbuffer_' = Appended(outbuffer_, Drop(s, n))
    /\ UNCHANGED <<channelvars, aborted>>

\* The bytes of s past the first n are left for handlewrite.
BufferRest(s, n) ==
    /\ IF n < Len(s)
         THEN outbuffer_' = Appended(outbuffer_, Drop(s, n))
         ELSE UNCHANGED outbuffer_
    /\ IF n < Len(s) /\ ~iswriting
         THEN UpEvent(events_ \cup {"write"})
         ELSE UNCHANGED channelvars
    /\ UNCHANGED aborted

\* Mutant: pending output does not keep a message from being written.
SendAhead(m) ==
    /\ handed' = Append(handed, m)
    /\ LET n == Smaller(Room, MsgLen[m]) IN
          IF Connected /\ Room > 0
            THEN sndbuf' = sndbuf \o Take(BytesOf(m), n)
                 /\ BufferRest(BytesOf(m), n)
            ELSE Abort

\* sendinloop: a write to the socket, if nothing waits before it, whose
\* failure trips the assertion on haswritesize (or is a SIGPIPE).
SendInLoop(m) ==
    /\ handed' = Append(handed, m)
    /\ IF iswriting \/ readsize(outbuffer_) # 0
         THEN BufferRest(BytesOf(m), 0) /\ UNCHANGED sndbuf
         ELSE LET n == Smaller(Room, MsgLen[m]) IN
              IF Connected /\ Room > 0
                THEN sndbuf' = sndbuf \o Take(BytesOf(m), n)
                     /\ BufferRest(BytesOf(m), n)
                ELSE Abort

\* shutdownloop.
ShutdownInLoop == rdshut' = (rdshut \/ ~iswriting)

-----------------------------------------------------------------------------
(* The callers.                                                            *)

InUserCode(t) ==
    /\ ~aborted
    /\ callerpc[t] = "out"
    /\ IF t = Loop THEN looppc \in {"idle", "message"} ELSE looppc # "new"

Send(t) ==
    /\ InUserCode(t)
    /\ created < MaxMsgs
    /\ created' = created + 1
    /\ sender' = [sender EXCEPT ![created + 1] = t]
    /\ IF t = Loop
         THEN SendInLoop(created + 1) /\ UNCHANGED queue
         ELSE /\ queue' = Append(queue, [op |-> "send", msg |-> created + 1])
              /\ UNCHANGED <<channelvars, outbuffer_, sndbuf, aborted, handed>>
    /\ UNCHANGED <<state_, callerpc, revents_, looppc, closed, inq, rdshut,
                   peer, peervars>>

\* shutdown's test of state_, which no lock protects.
TestConnected(t) ==
    /\ InUserCode(t)
    /\ state_ = "kconnected"
    /\ callerpc' = [callerpc EXCEPT ![t] = "shutdown"]
    /\ UNCHANGED <<state_, queue, created, sender, handed, channelvars,
                   outbuffer_, revents_, looppc, closed, aborted, sndbuf, inq,
                   rdshut, peer, peervars>>

Shutdown(t) ==
    /\ ~aborted
    /\ callerpc[t] = "shutdown"
    /\ callerpc' = [callerpc EXCEPT ![t] = "out"]
    /\ state_' = "kdisconnect"
    /\ IF t = Loop
         THEN ShutdownInLoop /\ UNCHANGED queue
         ELSE queue' = Append(queue, [op |-> "shutdown"]) /\ UNCHANGED rdshut
    /\ UNCHANGED <<created, sender, handed, channelvars, outbuffer_, revents_,
                   looppc, closed, aborted, sndbuf, inq, peer, peervars>>

-----------------------------------------------------------------------------
(* The loop's thread.                                                      *)

LoopFree == ~aborted /\ callerpc[Loop] = "out"

\* conestablish; what connectcallback_ does is the user's code that follows.
Establish ==
    /\ looppc = "new"
    /\ UpEvent(events_ \cup {"read"})
    /\ looppc' = "idle"
    /\ UNCHANGED <<callvars, outbuffer_, revents_, closed, aborted, sndbuf,
                   inq, rdshut, peer, peervars>>

RunFunctor ==
    /\ LoopFree
    /\ looppc = "idle"
    /\ queue # <<>>
    /\ queue' = Tail(queue)
    /\ IF Head(queue).op = "send"
         THEN SendInLoop(Head(queue).msg) /\ UNCHANGED rdshut
         ELSE /\ ShutdownInLoop
              /\ UNCHANGED <<channelvars, outbuffer_, sndbuf, aborted, handed>>
    /\ UNCHANGED <<state_, callerpc, created, sender, revents_, looppc,
                   closed, inq, peer, peervars>>

\* epoll_wait reports the channel.
Poll ==
    /\ LoopFree
    /\ looppc = "idle"
    /\ polled
    /\ Reported # {}
    /\ revents_' = Reported
    /\ looppc' = "read"
    /\ UNCHANGED <<callvars, channelvars, outbuffer_, closed, aborted, sndbuf,
                   inq, rdshut, peer, peervars>>

\* handleread, when there is something for messagecallback_, when the peer or
\* SHUT_RD ended the input (handledel), and when the read fails.
ReadMessage ==
    /\ inq > 0
    /\ inq' = 0
    /\ looppc' = "message"
    /\ UNCHANGED <<channelvars, closed, peer>>

\* Mutant: the end of the input is taken for an error.
ReadEndIgnored ==
    /\ inq = 0 /\ peer # "reset"
    /\ looppc' = "write"
    /\ UNCHANGED <<channelvars, closed, inq, peer>>

ReadEnd ==
    /\ inq = 0 /\ peer # "reset"
    /\ UpEvent({})
    /\ closed' = TRUE
    /\ looppc' = "write"
    /\ UNCHANGED <<inq, peer>>

ReadError ==
    /\ inq = 0 /\ peer = "reset"
    /\ peer' = "broken"
    /\ looppc' = "write"
    /\ UNCHANGED <<channelvars, closed, inq>>

\* handleEventwithguard up to the read callback.
HandleRead ==
    /\ ~aborted
    /\ looppc = "read"
    /\ IF revents_ \cap {"in", "hup"} # {}
         THEN ReadMessage \/ ReadEnd \/ ReadError
         ELSE looppc' = "write" /\ UNCHANGED <<channelvars, closed, inq, peer>>
    /\ UNCHANGED <<callvars, outbuffer_, revents_, aborted, sndbuf, rdshut,
                   peervars>>

MessageDone ==
    /\ LoopFree
    /\ looppc = "message"
    /\ looppc' = "write"
    /\ UNCHANGED <<callvars, channelvars, outbuffer_, revents_, closed,
                   aborted, sndbuf, inq, rdshut, peer, peervars>>

\* Mutant: interest in writing is dropped after any write.
WriteOnce ==
    LET n == Smaller(Room, readsize(outbuffer_)) IN
       /\ sndbuf' = sndbuf \o Take(readable(outbuffer_), n)
       /\ outbuffer_' = Written(outbuffer_, n)
       /\ IF n > 0 THEN UpEvent(events_ \ {"write"})
                   ELSE UNCHANGED channelvars

\* handlewrite on a working socket.
WriteOut ==
    LET n == Smaller(Room, readsize(outbuffer_)) IN
       /\ sndbuf' = sndbuf \o Take(readable(outbuffer_), n)
       /\ outbuffer_' = Written(outbuffer_, n)
       /\ IF n > 0 /\ readsize(outbuffer_') = 0
            THEN UpEvent(events_ \ {"write"})
            ELSE UNCHANGED channelvars

\* The rest of handleEventwithguard, with handlewrite.  A write that fails
\* moves the index of outbuffer_ back by one.
HandleWrite ==
    /\ ~aborted
    /\ looppc = "write"
    /\ looppc' = "idle"
    /\ revents_' = {}
    /\ \/ /\ "out" \notin revents_
          /\ UNCHANGED <<channelvars, outbuffer_, aborted, sndbuf, peer>>
       \/ /\ "out" \in revents_ /\ Connected
          /\ WriteOut
          /\ UNCHANGED <<aborted, peer>>
       \/ /\ "out" \in revents_ /\ peer = "reset"
          /\ peer' = "broken"
          /\ outbuffer_' = Written(outbuffer_, -1)
          /\ UNCHANGED <<channelvars, aborted, sndbuf>>
       \/ /\ "out" \in revents_ /\ peer = "broken"
          /\ Abort
          /\ UNCHANGED peer
    /\ UNCHANGED <<callvars, closed, inq, rdshut, peervars>>

-----------------------------------------------------------------------------
(* The peer.                                                               *)

connectionvars == <<callvars, channelvars, outbuffer_, revents_, looppc,
                    closed, aborted, rdshut>>

PeerSend ==
    /\ peer = "open" /\ peersent < MaxIn
    /\ peersent' = peersent + 1
    /\ inq' = inq + 1
    /\ UNCHANGED <<connectionvars, sndbuf, peer, received>>

PeerRead ==
    /\ Connected /\ sndbuf # <<>>
    /\ received' = Append(received, Head(sndbuf))
    /\ sndbuf' = Tail(sndbuf)
    /\ UNCHANGED <<connectionvars, inq, peer, peersent>>

PeerClose ==
    /\ peer = "open"
    /\ peer' = "fin"
    /\ UNCHANGED <<connectionvars, sndbuf, inq, peervars>>

PeerReset ==
    /\ Connected
    /\ peer' = "reset"
    /\ sndbuf' = <<>>
    /\ UNCHANGED <<connectionvars, inq, peervars>>

-----------------------------------------------------------------------------
LoopStep ==
    \/ Establish
    \/ RunFunctor
    \/ Poll
    \/ HandleRead
    \/ MessageDone
    \/ HandleWrite

Next ==
    \/ LoopStep
    \/ \E t \in Callers : Send(t) \/ TestConnected(t) \/ Shutdown(t)
    \/ PeerSend \/ PeerRead \/ PeerClose \/ PeerReset

Spec == Init /\ [][Next]_vars

(***************************************************************************)
(* Fairness: the loop runs its callbacks to the end and passes over        *)
(* neither the channel nor its functors for ever; a shutdown that was      *)
(* begun goes on; the peer reads what was sent to it.                      *)
(***************************************************************************)
FairSpec ==
    /\ Spec
    /\ WF_vars(HandleRead) /\ WF_vars(MessageDone) /\ WF_vars(HandleWrite)
    /\ SF_vars(Poll) /\ SF_vars(RunFunctor)
    /\ \A t \in Callers : WF_vars(Shutdown(t))
    /\ WF_vars(PeerRead)

-----------------------------------------------------------------------------
(* Properties.                                                             *)

\* The bytes of the first n messages handed over.
StreamOf(n) ==
    FlattenSeq([i \in 1..Smaller(n, Len(handed)) |-> BytesOf(handed[i])])
Stream == StreamOf(Len(handed))

\* The messages still in the loop's queue; a shutdown counts for nothing.
Waiting == [i \in 1..Len(queue) |->
               IF queue[i].op = "send" THEN queue[i].msg ELSE 0]

\* Every message sent is in s, and the messages of each sender are in the
\* order it sent them.
InSendersOrder(s) ==
    /\ ToSet(s) \ {0} = 1..created
    /\ \A i, j \in 1..Len(s) :
          i < j /\ s[i] # 0 /\ s[j] # 0 /\ sender[s[i]] = sender[s[j]]
             => s[i] < s[j]

\* What the peer has read, the socket holds and outbuffer_ holds are the
\* messages handed to sendinloop, whole and one after the other, whatever part
\* of each went out directly and whatever handlewrite wrote; after a reset,
\* what the peer had read is the beginning of it.  And each sender's messages
\* keep its order, whether they were queued for the loop or not.
StreamIntact ==
    /\ Connected /\ ~aborted => received \o sndbuf \o readable(outbuffer_) = Stream
    /\ IsPrefix(received, Stream)
    /\ InSendersOrder(handed \o Waiting)

\* Buffered output is watched for by epoll as long as handledel has not taken
\* the channel out, and the channel never asks for writability with nothing to
\* write, which would wake the loop for ever.
OutputIsWatched ==
    /\ readsize(outbuffer_) # 0 /\ ~closed => iswriting /\ polled
    /\ iswriting => readsize(outbuffer_) # 0

\* All of what was sent reaches a peer that keeps reading, unless the
\* connection is closed or reset, or the process is gone.
OutputArrives ==
    \A n \in Msgs :
        Len(handed) >= n
            ~> Len(received) >= Len(StreamOf(n)) \/ closed \/ ~Connected \/ aborted

\* A shutdown that stopped the reading is noticed by the loop as an end of
\* file, and so leads to closecallback_, whatever the peer does.
ShutdownCloses == rdshut ~> closed \/ aborted

\* What sendinloop asserts: a write to the socket does not fail
\* (TcpConnect.cc:119), a connection that was reset apart.
WriteSucceeds == Connected => ~aborted
=============================================================================
