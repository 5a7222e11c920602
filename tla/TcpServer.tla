----------------------------- MODULE TcpServer -----------------------------
(***************************************************************************)
(* The server: the acceptor of net/Accept.cc, the round robin over the     *)
(* loops of net/EventLoopThreadPool.cc, the table of connections of        *)
(* net/TcpServer.cc, and the descriptors they use up.  The main loop       *)
(* accepts, and hands each connection to a loop by queueing conestablish   *)
(* as a functor; the loops run in threads of their own.                    *)
(*                                                                         *)
(* Descriptors belong to the process: a new one has the lowest number that *)
(* is free, whichever thread asks, and none is left once MaxFds are open.  *)
(* The callback of a connection may hold one more, as Uilt::GetContent     *)
(* does for the file it reads.  Of a connection there is its descriptor,   *)
(* its owner and whether it was closed; module TcpConnect has the rest.    *)
(***************************************************************************)
EXTENDS Integers, FiniteSetsExt, SequencesExt

CONSTANTS Nums,       \* the numbers of threads a server may be given
          MaxClients, \* bound on the clients that connect
          MaxFds      \* descriptors left to the server once it has started

ASSUME TcpServerAssumption ==
    /\ IsFiniteSet(Nums) /\ Nums \subseteq Int
    /\ MaxClients \in Nat /\ MaxFds \in Nat \ {0}

VARIABLES
    multi_reactor, \* whether connections are spread over loops
    threadnum_,    \* number of those loops
    starting_,     \* start was called
    open,          \* the descriptors that are open
    nullfd_,       \* the acceptor's spare descriptor, or -1
    acceptpc,      \* where the main loop is in handleRead and newconn
    confd,         \* the descriptor that accept returned, or -1
    index_,        \* the loop whose turn it is
    connid_,       \* the number of the next connection
    connfd,        \* the descriptors of the connections, by their number
    tcpconlists,   \* the connections in the table
    queue,         \* connections a loop has yet to establish
    established,   \* history: those it has, in order
    closed,        \* connections whose peer closed
    file,          \* the descriptor a callback of a loop holds, or -1
    crashed,       \* a null loop or pool was used
    backlog,       \* clients the kernel holds for accept
    arrived,       \* number of clients so far
    refused        \* number of those that were dropped

mode == <<multi_reactor, threadnum_, starting_>>
acceptor == <<nullfd_, acceptpc, confd>>
connections == <<index_, connid_, connfd, tcpconlists>>
loops == <<queue, established, closed, file>>
clients == <<backlog, arrived, refused>>
vars == <<mode, open, acceptor, connections, loops, crashed, clients>>

mainloop == -1
Loops == {mainloop} \cup 0..(Max(Nums \cup {0}) - 1)
Clients == 1..MaxClients
Free == 0..(MaxFds - 1) \ open

Init ==
    /\ multi_reactor \in BOOLEAN /\ threadnum_ \in Nums
    /\ starting_ = FALSE
    /\ open = {0} /\ nullfd_ = 0
    /\ acceptpc = "idle" /\ confd = -1
    /\ index_ = 0 /\ connid_ = 1
    /\ connfd = <<>> /\ tcpconlists = {}
    /\ queue = [l \in Loops |-> <<>>]
    /\ established = [l \in Loops |-> <<>>]
    /\ closed = {}
    /\ file = [l \in Loops |-> -1]
    /\ crashed = FALSE
    /\ backlog = 0 /\ arrived = 0 /\ refused = 0

Start ==
    /\ ~starting_
    /\ starting_' = TRUE
    /\ UNCHANGED <<multi_reactor, threadnum_, open, acceptor, connections,
                   loops, crashed, clients>>

Connect ==
    /\ starting_
    /\ arrived < MaxClients
    /\ arrived' = arrived + 1
    /\ backlog' = backlog + 1
    /\ UNCHANGED <<mode, open, acceptor, connections, loops, crashed, refused>>

-----------------------------------------------------------------------------
(* Descriptors.                                                            *)

\* The variable becomes the next descriptor, or -1 when there is none.
Opens(fd) ==
    /\ fd' = IF Free = {} THEN -1 ELSE Min(Free)
    /\ open' = open \cup (IF Free = {} THEN {} ELSE {fd'})

Closes(fd) == open' = open \ {fd}

-----------------------------------------------------------------------------
(* The main loop: Acceptor::handleRead and TcpServer::newconn.             *)

At(pc) == ~crashed /\ acceptpc = pc
Goto(pc) == acceptpc' = pc

\* accept finds a descriptor.
Accept ==
    /\ At("idle") /\ file[mainloop] = -1
    /\ backlog > 0 /\ Free # {}
    /\ Opens(confd)
    /\ backlog' = backlog - 1
    /\ Goto("newconn")
    /\ UNCHANGED <<mode, nullfd_, connections, loops, crashed, arrived, refused>>

\* Mutant: EMFILE is one more error to pass over.
AcceptFailsIgnored ==
    /\ At("idle") /\ file[mainloop] = -1
    /\ backlog > 0 /\ Free = {}
    /\ UNCHANGED vars

\* accept finds none (EMFILE), and the spare one is closed.
AcceptFails ==
    /\ At("idle") /\ file[mainloop] = -1
    /\ backlog > 0 /\ Free = {}
    /\ Closes(nullfd_)
    /\ Goto("retry")
    /\ UNCHANGED <<mode, nullfd_, confd, connections, loops, crashed, clients>>

RetryAccept ==
    /\ At("retry")
    /\ Opens(nullfd_)
    /\ backlog' = backlog - (IF Free = {} THEN 0 ELSE 1)
    /\ Goto("drop")
    /\ UNCHANGED <<mode, confd, connections, loops, crashed, arrived, refused>>

DropClient ==
    /\ At("drop")
    /\ Closes(nullfd_)
    /\ refused' = refused + (IF nullfd_ = -1 THEN 0 ELSE 1)
    /\ Goto("reopen")
    /\ UNCHANGED <<mode, nullfd_, confd, connections, loops, crashed, backlog, arrived>>

\* Mutant: nullfd_ keeps the number that was closed.
SpareNotReopened ==
    /\ At("reopen")
    /\ Goto("idle")
    /\ UNCHANGED <<mode, open, nullfd_, confd, connections, loops, crashed, clients>>

ReopenSpare ==
    /\ At("reopen")
    /\ Opens(nullfd_)
    /\ Goto("idle")
    /\ UNCHANGED <<mode, confd, connections, loops, crashed, clients>>

\* getEventLoop has a pool, and the pool a loop, for the connection.
HasLoop == multi_reactor /\ threadnum_ >= 0

getEventLoop == IF threadnum_ = 0 THEN mainloop ELSE index_
NextIndex == IF threadnum_ = 0 THEN index_ ELSE (index_ + 1) % threadnum_

\* newconn up to runinloop: in the main loop conestablish is run at once,
\* another loop has it queued.  The table does not have the connection yet.
BuildConnection ==
    /\ At("newconn") /\ HasLoop
    /\ connfd' = Append(connfd, confd)
    /\ confd' = -1
    /\ index_' = NextIndex
    /\ LET l == getEventLoop IN
          IF l = mainloop
            THEN /\ established' = [established EXCEPT ![l] = Append(@, connid_)]
                 /\ UNCHANGED queue
            ELSE /\ queue' = [queue EXCEPT ![l] = Append(@, connid_)]
                 /\ UNCHANGED established
    /\ Goto("insert")
    /\ UNCHANGED <<mode, open, nullfd_, connid_, tcpconlists, closed, file,
                   crashed, clients>>

\* A server that is not multi_reactor has dropped its pool, and a negative
\* number of threads gives no loop.
NullLoop ==
    /\ At("newconn") /\ ~HasLoop
    /\ crashed' = TRUE
    /\ UNCHANGED <<mode, open, acceptor, connections, loops, clients>>

\* Mutant: a connection that its peer has closed by now is left out.
InsertOpen ==
    /\ At("insert")
    /\ tcpconlists' = tcpconlists \cup ({connid_} \ closed)
    /\ connid_' = connid_ + (IF connid_ \in closed THEN 0 ELSE 1)
    /\ Goto("idle")
    /\ UNCHANGED <<mode, open, nullfd_, confd, index_, connfd, loops, crashed, clients>>

InsertConnection ==
    /\ At("insert")
    /\ tcpconlists' = tcpconlists \cup {connid_}
    /\ connid_' = connid_ + 1
    /\ Goto("idle")
    /\ UNCHANGED <<mode, open, nullfd_, confd, index_, connfd, loops, crashed, clients>>

-----------------------------------------------------------------------------
(* The loops.                                                              *)

\* The main loop runs a callback of a connection only between two accepts.
Idle(l) ==
    /\ ~crashed
    /\ file[l] = -1
    /\ l = mainloop => acceptpc = "idle"

Establish(l) ==
    /\ Idle(l)
    /\ queue[l] # <<>>
    /\ established' = [established EXCEPT ![l] = Append(@, Head(queue[l]))]
    /\ queue' = [queue EXCEPT ![l] = Tail(@)]
    /\ UNCHANGED <<mode, open, acceptor, connections, closed, file, crashed, clients>>

Serves(l, c) == c \in ToSet(established[l]) \ closed

\* handledel: removeconnect does nothing, so the connection stays in the
\* table and its descriptor stays open.
PeerCloses(l, c) ==
    /\ Idle(l)
    /\ Serves(l, c)
    /\ closed' = closed \cup {c}
    /\ UNCHANGED <<mode, open, acceptor, connections, queue, established, file,
                   crashed, clients>>

\* A callback opens a file, and has read it.
OpenFile(l) ==
    /\ Idle(l)
    /\ \E c \in Clients : Serves(l, c)
    /\ Free # {}
    /\ file' = [file EXCEPT ![l] = Min(Free)]
    /\ open' = open \cup {Min(Free)}
    /\ UNCHANGED <<mode, acceptor, connections, queue, established, closed,
                   crashed, clients>>

CloseFile(l) ==
    /\ ~crashed
    /\ file[l] # -1
    /\ Closes(file[l])
    /\ file' = [file EXCEPT ![l] = -1]
    /\ UNCHANGED <<mode, acceptor, connections, queue, established, closed,
                   crashed, clients>>

-----------------------------------------------------------------------------
HandleRead ==
    \/ Accept \/ AcceptFails \/ RetryAccept \/ DropClient \/ ReopenSpare
    \/ BuildConnection \/ NullLoop \/ InsertConnection

Next ==
    \/ Start \/ Connect \/ HandleRead
    \/ \E l \in Loops :
          \/ Establish(l) \/ OpenFile(l) \/ CloseFile(l)
          \/ \E c \in Clients : PeerCloses(l, c)

Spec == Init /\ [][Next]_vars

(***************************************************************************)
(* Fairness: the main loop does not pass over its listening socket, nor a  *)
(* loop over its functors, for ever, whatever callbacks run in between; a  *)
(* callback ends.                                                          *)
(***************************************************************************)
FairSpec ==
    /\ Spec
    /\ SF_vars(HandleRead)
    /\ \A l \in Loops : SF_vars(Establish(l)) /\ WF_vars(CloseFile(l))

-----------------------------------------------------------------------------
(* Properties.                                                             *)

Fds == -1..(MaxFds - 1)

Holdings ==
    {<<"spare", 0, nullfd_>> : x \in {y \in {0} : acceptpc \notin {"retry", "reopen"}}}
    \cup {<<"accepted", 0, confd>>}
    \cup {<<"connection", c, connfd[c]>> : c \in DOMAIN connfd}
    \cup {<<"file", l, file[l]>> : l \in Loops}

\* Every descriptor that is open belongs to one holder, and what a holder
\* believes to be its own is open: the spare, which handleRead closes and
\* opens again, the descriptor on its way to a connection, those of the
\* connections (closed ones included) and the files of the callbacks.  The
\* number nullfd_ keeps between a close and the next open may meanwhile
\* belong to another thread, and is not used (Accept.cc:34-37).
DescriptorsOwned ==
    LET held == {h \in Holdings : h[3] # -1} IN
       /\ open = {h[3] : h \in held}
       /\ \A g, h \in held : g[3] = h[3] => g = h
       /\ nullfd_ \in Fds /\ confd \in Fds /\ file \in [Loops -> Fds]

\* The number of connections built so far, and the loop of each.
Built == connid_ - (IF acceptpc = "insert" THEN 0 ELSE 1)
Turn(c) == IF threadnum_ <= 0 THEN mainloop ELSE (c - 1) % threadnum_

\* The connections are numbered without a gap, the k-th goes to the loop
\* whose turn is k, each loop establishes its own in the order they came, and
\* every connection is owned by the table or is about to be, although the
\* loop may run it, and see it closed, before newconn has inserted it
\* (TcpServer.cc:36-42, EventLoopThreadPool.cc:38-39).
ConnectionsInTurn ==
    /\ Len(connfd) = Built
    /\ tcpconlists = 1..(connid_ - 1)
    /\ closed \subseteq 1..Built
    /\ \A l \in Loops :
          LET mine == established[l] \o queue[l] IN
             /\ ToSet(mine) = {c \in 1..Built : Turn(c) = l}
             /\ \A i, j \in 1..Len(mine) : i < j => mine[i] < mine[j]

Served == refused + FoldSet(LAMBDA l, n : n + Len(established[l]), 0, Loops)

\* Every client is given a connection or dropped, even when the descriptors
\* have run out, which is what the comment on nullfd_ promises (Accept.h:19),
\* while the acceptor has its spare descriptor.  Another thread may open a
\* file in the place of the spare, between its close and the next accept or
\* open (Accept.cc:34-37): such thefts may defeat each attempt to drop the
\* client, or leave the acceptor without a spare for good, and then nothing
\* drops a client any more.
ClientsServed ==
    \/ []<>(acceptpc = "drop" /\ nullfd_ = -1 /\ \E l \in Loops : file[l] # -1)
    \/ <>[](nullfd_ = -1)
    \/ \A n \in Clients : (arrived >= n) ~> (crashed \/ Served >= n)
=============================================================================
