# muduo_se in TLA+

muduo_se is a C++11 reactor network library after muduo: an event loop per thread,
timers, non-blocking TCP connections with buffered output, an HTTP parser on top, and
a base library with a thread pool, blocking queues and an asynchronous log.  This
directory models the parts whose correctness rests on the order of steps of several
threads, or on long sequences of calls, checks them with TLC on small instances and
proves the central invariants with TLAPS for every value of the constants.

Paths below are relative to `src/muduo_se/`.

    tlc -workers 2 -config EventLoop.cfg MCEventLoop     # any run of the table below
    tlapm EventLoopProofs.tla                            # any proof module

## 1. The system

| component | state | operations | what is hard | what makes it correct |
|---|---|---|---|---|
| EventLoop (`net/EventLoop.cc`) | `quit_`, the eventfd, `pendfunclists_`, the channels of the iteration | `loop`, `runinloop`/`queueloop`, `quit`, `wake`, `dopendfunc` | other threads act between any two steps of the loop, and the loop may be about to sleep | it never sleeps on work it was given; functors run once, in order; `quit` ends it |
| EventLoopThread (`net/EventLoopThread.cc`) | `loop_`, the thread, a mutex and a condition | `start`, `threadfunc`, destructor | the loop lives on the thread's stack; the hand-over, and the end | `start` returns with a live loop; the destructor returns |
| TimerQueue (`net/TimerQueue.cc`) | `list_`, `indexlist_`, `deltimelist`, `waitdeltimelist`, the timerfd | `addTimeNode`, `cancel`, `handleRead`, `getExpired`, `fflash` | callbacks add and cancel timers while a batch of expired ones is out of the lists | no timer lost or doubled; the timerfd is armed in time; cancelled timers stay out |
| Channel, EpollPoller (`net/Channel.h`, `net/EpollPoller.cc`) | `events_`, `index_`, the poller's map, epoll's list, the batch | `enread` ... `disallevent`, `upChannel`, `removeChannel`, `poll` | callbacks change any channel in the middle of a batch; nobody reads the result of `epoll_ctl` | epoll's list is what the channels ask for |
| TcpConnect (`net/TcpConnect.cc`) | `state_`, `outbuffer_`, its channel, the socket | `send`, `shutdown`, `handleread`, `handlewrite` | a message may go out in parts, with later ones sent by other threads | the stream is the messages, whole and in order; buffered output goes out |
| BlockingQueue, BoundedBlockingQueue (`base/blockqueue.h`) | the queue, its conditions | `push`, `pop` | which waiter is woken, and what others do before it has the mutex | the bound, FIFO, no waiter forgotten |
| threadPool (`base/threadpool.{h,cc}`) | `running`, the queue, the workers | `start`, `commit`, destructor | `running` is cleared outside of the mutex, commits notify outside of it | each task executed once; the destructor returns |
| CountDownLatch (`base/countdownlatch.cc`) | a counter, a condition | `wait`, `countDown` | the last count comes while threads test or wait | all who wait are told |
| Buffer (`base/buffer.cc`) | two indices into a vector | `append`, `retrieve`, `read`, `write` | bytes are moved, or the vector grows, in the middle of what is unread | what was put in and not taken out is readable, in order |
| TcpServer, Acceptor, EventLoopThreadPool (`net/TcpServer.cc`, `net/Accept.cc`, `net/EventLoopThreadPool.cc`) | `tcpconlists`, `nullfd_`, `index_` | `start`, `handleRead`, `newconn`, `removeconnect`, `getEventLoop` | connections run in other loops than the one that accepts; descriptors run out and are shared with all threads | each connection has one loop and an owner; each descriptor one holder; each client is served or dropped |
| HttpServer, HttpContext, HttpRequest (`net/Http*`) | the parser's `state_` and `request_` | `parseRequest`, `onMessage`, `onRequest` | requests arrive in pieces, or several at once, and the parser keeps its place from one event to the next | requests are answered in order, for what they said, and are answered |
| rlog (`base/rlog.{h,cc}`) | a ring of buffers, `cur_buf`, `prst_buf`, `lst_lts`, `running` | `try_append`, `persist`, `init`, destructor | writers and the log thread go round one ring, and buffers are written and freed without the mutex, their old text left in place | lines stay in order and get to the file; only lines that are there already are repeated |
| PollPoller | an array of `pollfd` and a map | as EpollPoller | indices into an array that is compacted | not modelled: no EventLoop uses it |
| timestamp, singleton, IpAdress, Uilt | | formatting, conversion | no protocol | not modelled |

How they meet:

- `EventLoop::loop` polls (EpollPoller), handles the channels of the batch (Channel), and
  then runs the functors other threads queued (`dopendfunc`).  Everything in a loop's
  thread happens inside one of the three, which is why the other modules have one
  "loop's thread" and callers beside it.
- Timers, connections and the poller never lock: a call from another thread becomes a
  functor of the loop.  So `TaskQueue`, the FIFO that `EventLoop` is shown to implement,
  is the interface they are modelled over: `queue` in `TimerQueue` and `TcpConnect` is its queue.
- TimerQueue's timerfd, the eventfd and each TcpConnect's socket are Channels of the
  loop's poller.
- EventLoopThread runs an EventLoop in a thread of its own; EventLoopThreadPool has several, and TcpServer hands each
  connection that its Acceptor accepts to one of them, as the functor `conestablish`.
- A TcpConnect has a Buffer for its output and one for its input.  HttpServer is the user of the connections: its `onMessage` parses
  what the input buffer holds and sends the answers.

## 2. Modules

`MC*` modules only name the model values of the `.cfg` files (and, for EpollPoller, the symmetry).  Definitions
named in comments `Mutant:` are deliberately wrong variants of the definition that
follows them; no specification uses them, and each shows that a property can fail.
Bounds in guards (`MaxTasks`, `MaxNodes`, `MaxNow`, `Pushes`, `MaxMsgs`, `MaxIn`, `MaxLines`, `MaxSec`, `EventfdMax`, `SockSize`, `MaxClients`,
`MaxFds`, and the set `Conversations`) are CONSTANTS.

**TaskQueue** is the abstract specification: functors are submitted, wait in one queue
and run each once in that order.  EventLoop and BlockQueue are shown to implement it.

**EventLoop.** A critical section of `mutex_` is a step.  A caller takes two: it publishes
(queues the functor, or sets `quit_`), and then writes to the eventfd; anything may come in between.  The
owner's `looppc` walks through `loop()`: `CheckQuit`, `PollReturn`/`PollTimeout`, one
`HandleEvent` per channel (the wake channel's empties the eventfd), `TakePending` (the swap
in `dopendfunc`), one `RunPending` per functor.  User code in the loop's thread may call
`quit()` at any of these.  `runinloop` from the loop's own thread runs its argument at once and is no step.
A call of `queueloop` by a functor is not generated by the model: `queueloop` is called by `runinloop` only.

**EventLoopThread** EXTENDS EventLoop and composes its actions with the owner's `start()` and
destructor and the thread's `threadfunc`.  Testing `loop_` and waiting are one step, since
`wait` releases the mutex.  Users keep the class's terms: the owner does not destroy the
object while a user is inside a call, nor does a functor call `quit()`, since the EventLoop is on the
stack of the thread and ends with `loop()`.

**TimerQueue** has three steps in `addTimeNode` (constructing the timenode takes an index,
`runinloop` adds it or queues the functor, and the return value reads the shared counter),
and the steps of the expiry: `Poll`, `HandleRead` (first reading of the clock),
`GetExpired` (second reading, and the removal from both lists), a `RunTimer` per callback, `Fflash`.
`list_` is a set of pairs, as `std::set` is, since its order is that of the pairs; a timer is
named by its index, since the code compares index and address together and an index is never used twice.
Time is discrete, a unit being the 100 microseconds that `resetfd` waits at least.  The
`calling` flag of the code is the state of `looppc`.

**EpollPoller** models epoll's list beside the poller's map and the `index_` of each channel,
with `epoll_ctl` failing as the kernel's does.  Callbacks may do anything the assertions of
`removeChannel` allow, between the handling of any two channels.  Which events a channel reports is left out.

**Buffer** has the class's operations as operators on a record of the vector and the two indices, for the modules whose code
owns a Buffer.  `Appended` chooses between room at the end, `swap` (the unread bytes go to the front) and `resize`; `ReadV` is `read`, with what
it appends from `temp`; `Written` takes the number of bytes the descriptor took, or -1.  Bytes outside of the indices are `Junk`.

**TcpConnect** EXTENDS Buffer for its output and models the connection between the queue of functors and the socket: `send` from
any thread, `sendinloop` with what the socket takes at once, `handlewrite`, the end of the
input, resets, and `shutdown`.  Bytes are pairs of message and position, so
that reordered, lost, doubled or foreign bytes are all told apart.  The socket takes
as much as fits; the peer reads, sends, closes and resets when it likes.  The callbacks of
the user send and shut down in the loop's thread.  A sender keeps its string until it is sent (the code keeps the pointer).

**TcpServer** models the main loop from `accept` to the table and the loops that establish, serve and see closed the connections.  A new
descriptor is the lowest number that is free, whichever thread asks, so that a number given up by one thread is the next one of another.
`handleRead` at the limit is four steps (`AcceptFails` to `ReopenSpare`), `newconn` two (`BuildConnection` up to `runinloop`,
`InsertConnection`), and the callbacks of other loops run in between; in the main loop they run between two accepts.  `multi_reactor` and
`threadnum_` are chosen at the start, `NullLoop` being what becomes of the servers that have no loop to give.  `start` is one step with the pool's
`start` and the acceptor's `listen`: it is called in the main loop's thread, where `runinloop` runs `listen` at once.

**HttpServer** EXTENDS Buffer for its input.  A conversation is a sequence of requests, cut into what each read event finds; a symbol is a
request line, a header, a piece of a body, CR or LF.  Each turn of `parseRequest`'s loop is an action, `Answer` is `onRequest` with `reset`,
and the context keeps its place between two events.  `HttpShutdown` leaves the socket as it is when there may be output pending.  Its variables and actions
have names of their own (`parsestate_` for `state_`, `messagepc`, `deleted`), so that one module can speak of it and of TcpConnect.  `ParseBody` takes what the
buffer holds, as the code does, and `torn` records that it was not the body sent; `garbled` that a read overran the vector (see the findings),
which is where a behaviour ends.

**BlockQueue** is both queues: `bounded` says which.  A step is a critical section (BoundedBlockingQueue notifies with the mutex held; BlockingQueue's
notification, `Notify`, comes after and is a step of its own); the waiting sets of the conditions are explicit, and so are spurious wake-ups.
**CountDownLatch** is the latch.  **BlockQueueTest** composes the two as `test/blockqueue.cc` does: consumers count the latch down and
pop until they get a "stop", callers of `run()` wait for the latch and push, and `joinall()` pushes the stops.

**ThreadPool** separates a worker's test of the wait's condition from its blocking, because the
destructor clears `running` and notifies without the mutex; it separates `commit`'s
critical section from its notification, which comes after the unlock.

**Rlog** follows a line through `try_append` (the clock, the unlocked test and reset of `lst_lts`, the critical
section) and a buffer through `persist`: the wait, taking a partial buffer, `decis_file`, writing, `clear`, and the
step to the next one, of which the first two and the last need the mutex.  When a full buffer is left, the rest of the
critical section is a step of its own, `FinishAppend`, with `mutex_` held: `lst_lts` may be reset meanwhile by
a writer that has yet to lock.  Lines are numbered in the order of the critical sections; what a writer
puts into a *full* buffer that way is a `Stray`.  `decis_file` succeeds or fails; names, dates and rotation of files are
left out.  `data` is the text of a buffer up to its first NUL, a byte being the number of its line: `clear` leaves it, `append` overwrites it from
`index_` on, and `persist` streams all of it, so that `fp_`, what it has just put into the file, may hold text of earlier rounds behind that of its own.
`lines` and `written` are histories of the lines of each round, which `TextInOrder` ties to the text.  The memory `new` returns is taken to be zero, as fresh
pages are, and to be followed by a NUL when a buffer is full to the last byte.

## 3. Runs

| run | question | instance, and why it is enough |
|---|---|---|
| `eventloop` | No wake-up lost; FIFO; queued functors run, without the poll's timeout | 3 callers (two can race with a third that writes), 2 channels, 4 functors (a batch being run, the next one queued, and a late one), eventfd saturating at 2 |
| `eventloopthread` | The hand-over of `start`, functors queued before `loop()`, the destructor | owner and 2 users, 3 functors |
| `timerqueue` | Lists agree, timers conserved, timerfd armed in time, cancelled timers out, due timers run | another thread and the loop, 2 timers, one-shot or repeating, delays 0 and 2 (shorter and longer than the least the timerfd is armed for), interval 0 or 1, clock to 3: a repeating timer runs again, and each timer may be cancelled or added in a callback of the other |
| `timerqueue_timeid` | violation: a `timeId` that cancels nothing | 2 threads and the loop |
| `epollpoller` | epoll's list agrees, no `epoll_ctl` refused, no removed channel handled | 4 channels with an array of 2, so that the array fills and grows; symmetric; safety only |
| `blockqueue` | Bound, no waiter forgotten, FIFO, `joinall` returns | both queues; 3 producers and 3 consumers for 2 places, so that both sides have more threads than places; 2 elements from each producer, and the stops |
| `threadpool` | Tasks conserved, no wake-up lost, tasks run, the destructor returns | 2 clients, 3 workers, 3 tasks |
| `tcpconnect` | The stream is intact, output watched and delivered, shutdown noticed | 1 thread and the loop; messages of 4 and 2 bytes, a socket of 2 and a buffer of 3: a message fits whole, in part, or not at all, and its rest is appended as it is, after a move, or after growth |
| `tcpconnect_full` | violation: the assertion in `sendinloop`, on a connection that is not reset | socket of 2: one message fills it, and the next finds no room |
| `tcpserver` | Descriptors have one holder, connections one loop and an owner, clients are served or dropped | -1, 0 and 2 threads, multi-reactor or not; 5 clients for a spare descriptor and 3 more: the limit is met twice, by connections and by files |
| `httpserver` | Input kept, answers in order and as asked, requests answered | conversations of 2 and 3 requests: with and without headers, HTTP/1.0, closing, a body of 2, a line that is refused; a buffer of 9 for requests of 5 to 9 symbols, so that it fills, is moved, grows and is overrun |
| `rlog` | Lines in order, each once among those of its round, and written; what is written again was in the file before | 2 writers; a ring of 2 that grows to 3, so that buffers fill, are skipped, added and at the limit; buffers of 2 and lines of 1 and 2, so that a full buffer may have room left; 4 calls of `try_append`; a clock of 2, so that a drop is remembered and forgotten |

Deadlock is checked where the system never ends (`eventloop`, `epollpoller`)
and in `blockqueue`, whose program may only stop with all its threads joined.  The other models stop when their threads have ended or their bounds are reached.

Notable properties:

- `EventLoop!NoLostWakeup`: while the loop is in `epoll_wait` with a functor queued or `quit_` set, the
  eventfd is readable or some thread is about to make it so.  It needs that callers publish before they write
  and that `handlread` comes before `dopendfunc`.
- `TimerQueue!TimersConserved`: a timer is with the call that creates it, in the queue, in
  the lists or in the batch, in exactly one of them, until it has finished.  `TimerQueue!ListsAgree`
  is what keeps `delTimeNodeInLoop` from erasing `end()`.
- `EpollPoller!KernelAgrees`: `kin` channels have their events in epoll, others are not there.
- `TcpConnect!StreamIntact`: read + in the socket + in `outbuffer_` is the concatenation of the messages
  handed to `sendinloop`, and each sender's messages keep its order.
- `Rlog!LinesInOrder`: what was written of each round, followed by the buffers from the log thread's on round the ring, is the lines in order, each once.
  It does not say that a line is in the file once: a buffer is written with what earlier rounds left behind its lines (see the findings), and the property
  says that the text begins with the lines of the round, and that what is repeated was in the file before.
  It speaks of states in which the ring grew only in front of the log thread's buffer (`overtaken` is false); see the findings.
- `TcpServer!DescriptorsOwned`: what is open is exactly what somebody holds, each by one holder, with `nullfd_` a number that means nothing between
  its closing and the next `open`.  A handler that used it there would close another thread's descriptor.
- `TcpServer!ConnectionsInTurn`: the k-th connection is at the loop whose turn is k, in order, and owned although the loop runs it before the table has it.
- `TcpServer!ClientsServed`: no client waits for ever at the limit, with two exceptions, each of which the code falls into (see the findings): files of other loops
  defeat the acceptor's attempts to drop a client over and over, or leave it without a spare descriptor for good.
- `HttpServer!InputIntact`: the readable part of the buffer is the input received and not yet retrieved, through cuts, moves and growth.
- `HttpServer!AnsweredAsSent`: the n-th answer is for the n-th request, with its method, version, option and body, none before it is complete; the
  parser carries nothing over from one request to the next.
- `HttpServer!RequestAnswered`: a client that waits for each answer gets it.
- `ThreadPool!NoLostWakeup`: a queued task has an awake worker or a notification coming.

### Fairness

- *EventLoop*: the owner keeps executing `loop()`; `epoll_wait` returns while the eventfd is
  readable (level-triggered); a thread inside `wake()` goes on.  The timeout of `epoll_wait` and other
  channels' events are not relied on, so `TaskRuns` rests on the wake-ups alone.
- *EventLoopThread*: the same, and both threads are scheduled.  The owner need not call anything.
- *TimerQueue*: time passes, started calls go on, the loop's straight code goes on.  Strong
  fairness for `Poll` and `RunFunctor`: each iteration of `loop()` looks at the timerfd and at the
  functors, so neither is passed over for ever although both are disabled while the other's work is done.
- *TcpConnect*: as TimerQueue, and the peer reads what was sent to it.
- *TcpServer*: strong fairness for the main loop's `handleRead` and for each loop's functors, since the callbacks of connections come in between and an
  iteration passes over neither for ever; a callback ends.  Clients need not come and peers need not close.
- *HttpServer*: the loop handles what its socket reports, to the end; the client need not send.
- *BlockQueueTest*: each thread that does not wait goes on.  *ThreadPool*: strong fairness for workers and for a commit on its way to the
  mutex, which other threads may hold again and again; clients need not commit.
- *Rlog*: strong fairness for the log thread, since writers may hold the mutex again and again and `wait_for` returns after a
  second at the latest, and for a file that can be had again and again; a writer inside its critical section leaves it.
- Spurious wake-ups may happen everywhere a condition variable is waited on, and are relied on nowhere.

## 4. Proofs

The proof modules state theorems for all threads, clients, channels, timers, sizes and bounds, from the named
`ASSUME`s of the modules alone: numbers are naturals, sets that are counted are finite, the thread of a loop is none of the callers beside it,
`NoOne` is no worker and no writer, a message has a byte at least, and the log's ring starts with two buffers or more (the code's with three;
with one, a full buffer is its own successor).  Two theorems have a hypothesis of their own, `OnlyPostsHaveBodies` and `Threads = {}` (below).  Every safety
invariant of the runs, the two refinements and the action property are proved.

- **EventLoopProofs.**  `TypeCorrect`.  `NoWakeupIsLost`: `NoLostWakeup` speaks of `epoll_wait` only, and does not
  survive a step back in time: what guarantees it at the next poll is that a functor is never in
  the queue without its wake-up *except in the callbacks of an iteration*, where `handlread` may have emptied the eventfd and
  `dopendfunc` is still to come.  `WakeupInvariant` says this, is inductive (`WakeupStep`) and implies it.
  `FunctorsInOrder`: `ran \o temp \o pendfunclists_` is 1, 2, ..., `submitted`, with
  lemmas on concatenation for the swap and for each run.  `LoopImplementsTaskQueue`:
  `Spec => RefinesTaskQueue`, the refinement mapping `queue <- temp \o pendfunclists_` taking each step to a Submit, a
  Run or a stutter; it uses that `temp` is empty outside of `dopendfunc`, a part of the invariant.
  `ThreadRunsEventLoop` shows that each step of EventLoopThread's composition is one of EventLoop or leaves its variables alone, so that
  all of this holds there (`ThreadLosesNoWakeup`); `LoopHandedOutIsAlive` is `StartedLoopIsAlive`.
- **EpollPollerProofs.**  `TypeCorrect`, and `InSync`, the conjunction of the three safety properties and
  `NowIsHandled`: the agreement is what keeps `epoll_ctl` from failing, and its success is what keeps the
  agreement; `NowIsHandled` (the channel being handled has left those to be handled) lets `removeChannel`
  take the current channel out.  `ChannelsMatchEpoll`, `EpollCtlSucceeds` and `RemovedIsNotHandled` follow.
- **TimerQueueProofs.**  `TypeCorrect`.  `TimerfdArmedInTime`: `ArmedInTime` is inductive with the types:
  `insert` arms for a new first timer, `getExpired` and cancelling only take timers out and leave the timerfd as it is, time moves
  only the lower bound `now + MinDelay`, and `fflash` arms for the first of what is left.
  `TimerInvariant` is the invariant behind the other four.  `ListsAgree` alone is not inductive: `insert` of a timer that is in the lists
  already, or `fflash` of one that was added again meanwhile, would break it.  `OnePlace` excludes both, and to be kept itself needs `AddedOnce` (no
  functor is queued twice) and `NewIsUnknown`; `BatchRuns` and `LeftIsFinished` say what became of a timer that is nowhere; `CancelHolds`, that a late
  cancel is in `waitdeltimelist` as long as the batch may put the timer back, which rests on `ReturnedOnce`, since a cancel names its timer by a
  `timeId`.  The proof has a lemma per *movement* (a timer gets into the lists, leaves them, expires, is put back), and the
  actions are shown to be movements.  From it `TheListsAgree`, `TimersAreConserved`, `CancelledStaysOut` and the action property `TimersRunWhenDue`.
  `LoopAloneCancels` bounds finding 1: with no thread beside the loop's, `TimeIdCancels` holds, since nothing can then come between the construction of
  a timenode and the return of its timeId (`OwnIndex`).
- **BlockQueueProofs.**  `ProgramInvariant` (types, the bound, and `LatchCounts`: the latch counts the consumers that have not started)
  and `TypeCorrect`.  `NoWakeupIsLost` is inductive together with `OwnHalf` (which of the two queues uses which part of the state) by counting: a push adds an element and one to
  the consumers that are awake, or to the notifications, if any wait; a pop takes one of each; and who goes back to
  waiting saw nothing to take.  The steps of the queue are gathered in `QueueStep`, which every step of the program is or stutters
  (`ProgramUsesQueue`).  `QueueImplementsFIFO`: a push is a Submit, a pop a Run.
- **ThreadPoolProofs.**  `PoolInvariant`: `TasksConserved` with `QueueDistinct` (else the task taken could still be queued),
  `TaskWhileRunning`, and `BlockingHoldsMutex`: a worker between its test and its wait holds the mutex, and the queue is empty, so that nobody commits in between.
  `TasksAreConserved` follows, and with it `NoWakeupIsLost` is inductive: a worker goes to sleep on an empty queue only, and a queued task keeps its
  notification until a worker is woken.
- **TcpServerProofs.**  `DescriptorsAreOwned`: the holders are a set of triples (kind, who, number); each step moves one of them, and the lemmas `Gains`,
  `Loses` and `Passes` say that one holder for each open number survives each; a new number is the least free one, so held by nobody (`NewIsFree`).
  `ConnectionsAreInTurn`: `TurnInv` adds that `index_` is the number of connections built modulo `threadnum_`, kept by
  `NextTurn`, and that the main loop, which runs `conestablish` at once, has no queue.
- **ConnectionProofs**, the two sides of a connection, on common lemmas about Buffer: what `Appended` does to the readable bytes in each of its three cases (room, move,
  growth), `Retrieved`, `Written` and `ReadV`.  For TcpConnect, `TypeCorrect` needs `TypeInv`: the
  indices of `outbuffer_` stay in order, `readindex_` going down to -1 at most, which it does only where the peer has broken the
  connection.  `BufferedOutputIsWatched`: `WatchInv` says where in the iteration a channel reported writable still asks
  for it.  `TheStreamIsIntact` has two invariants: `StreamInv` for the bytes, each case of `sendinloop` (behind what is buffered, whole, in part, or the abort) being a
  lemma on concatenation; `OrderInv` for the order of each sender's messages, over those handed over followed by those queued.
  For HttpServer, `TheInputIsIntact`: `InputInv` adds the types, and that `findCRLF` never points beyond what is to be read, which is what
  keeps `retrieveUntil` inside of the buffer.  `RequestsAreAnsweredAsSent` is `AnsweredAsSent`, from `AnswerInv` on top of it: `Laid` says where in the stream
  each request, each of its headers and its body lie (from the encoding, by lemmas on concatenation), and `Place` where the parser is in it,
  at the beginning of the request whose answer is due, behind its j-th header, before its body or at its end, with the option of the headers
  it has seen.  `NextLine` then shows that the first CRLF of the buffer ends the line the client sent, and each turn of the parser's loop moves
  `Place` on.  When a request is answered, or a line refused, this is what the answer is for.
  The hypothesis `OnlyPostsHaveBodies` says that the client sends a body with a POST only.  The parser takes no other
  (`net/HttpContext.cc:55-61`), so that the body of a GET would be read as the beginning of the next request line, and the answers would not be for what
  was sent.  MCHttpServer evaluates it for the conversations of the run.
- **RlogProofs.**  `LinesAreInOrder`, about the lines of each round and the text: `TypeInv` counts the lines in flight and says what the owner waited for.  `RingInv` says that there is an enumeration of
  the ring from the oldest unwritten buffer on (`IsRing`), along which the lines rise (`Sorted`), and of a `Shape`: full buffers up to that of the writers,
  free and empty ones behind it, or all of them full.  Each critical section keeps one enumeration, moves it on by one buffer (the log thread's step), or inserts
  one (the growth), which breaks the order unless it happens in front of the log thread: hence `overtaken`.  `TextInv` is about the text alone: what was appended since
`clear` is in front, none of it later than `appended`; it needs that a line has a byte (`LengthInv`).  `FileInv` says that a byte of a buffer belongs to
a line of its round or of the file, and, between the writing and `clear`, that the lines of the round are in the file, since a writer that comes in between finds
the buffer full and leaves a `Stray` at most.

What `FlattenSeq` computes is defined by recursion over the sequence; the few facts used of it (its type, what appending an element does) are proved from a least
counterexample, in ConnectionProofs and RlogProofs.

Checked by TLC and not proved: everything under fairness, since liveness and ENABLED are out of the prover's reach.

## 5. Findings

Each has a run whose trace shows it.

1. `net/TimerQueue.cc:58`: the `timeId` carries the counter as it is on return; with two threads adding, a
   timer can get the other's index and cannot be cancelled (`timerqueue_timeid`).
2. `net/TcpConnect.cc:113`: a message that exactly fills the socket leaves no interest in writing;
   the next `send` writes, gets EAGAIN and trips the assertion at line 119 (`tcpconnect_full`, whose property leaves connections that were reset aside).

Seen in the code, with no run; the properties of the modules except these cases, and say so:

- `net/EventLoop.cc:50`: `loop()` clears `quit_`, so a quit that comes before `loop()` is forgotten, and a destructor
  of EventLoopThread that comes right after `start()` joins for ever.  `DestructorReturns` starts when the thread is in `loop()`.
- `base/threadpool.cc:42`: `running` is cleared and `notify_all` called without the mutex; between a worker's test and its wait
  both are missed, and `join` never returns.  `DestructorReturns` starts when no worker is there.
- `net/TcpServer.cc:45`: the body of `removeconnect` is commented out, so a connection is never taken out of `tcpconlists`, its TcpConnect never destroyed and its
  descriptor never closed; after as many clients as there are descriptors every other is dropped.
- `net/TcpServer.cc:17`: a server that is not `multi_reactor` (the constructor's default, as in `test/socket2.cc:23`) has reset `eventpool`,
  which `newconn` uses: the first client ends the process.
- `net/Accept.cc:34-37`: another thread may take the spare descriptor's place between `close` and `accept`, or between `close` and `open`; `nullfd_` is then -1.  When that
  thread closes its file, the next client's connection takes the descriptor, which is never given back (`TcpServer.cc:45`), and from then on each attempt at the
  limit closes -1 and fails: epoll reports the listening socket for ever, and the acceptor neither serves nor drops anybody, although no file is open.  This is what
  `nullfd_` is said to prevent (the comment at `net/Accept.h:19`).  It is the second exception of `ClientsServed`; without it TLC finds this behaviour.
- `base/buffer.cc:35-41`: `clear` keeps the text of a buffer, and `persist` streams `data` up to a NUL instead of `index_` bytes.  A buffer that is used again writes the
  lines of earlier rounds behind its own, the first of them cut, unless its own cover them; and a partial or empty one that the log thread
  takes after a second writes its old text once more.
- `base/buffer.cc:74`: `read` measures the free space after it used it up, so a read that overruns a vector with room left appends as many zero bytes as had room,
  after the input.  The vector starts with 65535, and is read into behind the unread bytes without moving them.
- `net/HttpContext.cc:70-84`: the body of a POST is what the buffer holds when its headers end: nothing if it comes later, and the next request too if that is there
  already.  What comes later starts the next request line.
- `net/HttpContext.cc:55-61`: only a POST has its body taken; that of another request starts the next request line.
- `net/HttpServer.cc:39`: one request is answered for each read event; another that came with it waits for more input.
- `net/HttpContext.cc:39`: a line that is refused stays in the buffer, and is refused again with each event until the end of the input.
- `net/HttpRequest.h:189`: `swap` leaves `body_` out, so `reset` keeps the body of the request before; only the next POST overwrites it.
- `net/Uilt.cc:69-87`: the table of users is shared by the callbacks of all loops without a lock.
- `net/EpollPoller.cc:73`: `disallevent` or `diswrite` of a disabled channel adds it to epoll again, with
  no events, and the kernel goes on reporting its errors, although the comment at line 16 says of `kdel` that the
  descriptor was deleted from epoll.
- `base/rlog.h:118`: a writer that finds the next buffer full adds one before it, on the ground that the log thread is working on that
  buffer.  With two writers, or three buffers, all others may be full when the log thread stands elsewhere: lines then reach the file out of
  order, and `cur_buf` and `prst_buf` lose each other.  `LinesInOrder` and `LineIsWritten` except these states.
- `base/rlog.cc:37`: the log thread is started before `running` is set, and may end at once.
- `base/rlog.cc:45`: the destructor writes the buffer of the log thread only; lines in others are lost.  `empty()` is about the
  capacity and never true, so the log thread takes an empty buffer every second, and writes what text is left in it.
- A `cancel` in the loop's thread overtakes the functor that adds the timer: it finds nothing and is
  forgotten (`net/TimerQueue.cc:146`).  `CancelledIsOut` therefore speaks of timers that were added before their cancel.
- `waitdeltimelist` is never emptied (`net/TimerQueue.cc:164`), and it also records cancels of timers unrelated to the batch.
- The timerfd is never read (`net/TimerQueue.cc:169`): when no timer is left, it stays readable and the loop spins.
- `shutdown()` with output pending does nothing and is not taken up when the output is drained (`net/TcpConnect.cc:82`), but has set
  `state_`, so a second `shutdown()` does nothing either.
- `Buffer::read` and `Buffer::write` move an index by -1 on failure (`base/buffer.cc:70`, `base/buffer.cc:81`).

## 6. Not modelled

- `~EventLoop` while another thread is between setting `quit_` and its write (`net/EventLoop.cc:102`): the
  eventfd of the model outlives the loop.
- Which callbacks `handleEventwithguard` calls for which revents is in TcpConnect for the events a connection
  can have (in, out, hang-up); `tie` is not.
- Process-level failures of the system calls (`eventfd`, `timerfd_create`, `epoll_create1`), failing writes of the
  log file, and the formatting of log lines (`snprintf`, and the shared `timestamp` it reads without the mutex).
- PollPoller, which no EventLoop of this commit uses.  Reading it: `removeChannel` erases its map by the array's index instead of the descriptor (`net/PollPoller.cc:80`),
  and a channel that is enabled again after `disallevent` keeps its negative descriptor (`net/PollPoller.cc:61-67`).
- `delchannel` and `removeconnectloop`, which nothing calls; the destructors of the server, the acceptor and the connections, which no server of the repository reaches.
- What the user's callback makes of a request, the paths of `addbody`, the text of a response; a request whose pieces are cut inside of a request line or a
  header is not told from one cut before it, since both wait for CRLF.  Failing reads of HttpServer's socket, and conversations longer than the 1024 bytes of `temp`.
- Calendar and address formatting, `singleton`.
- The number of microseconds of a delay, cast to `int` in `net/EventLoop.cc:112`.

## 7. Plan

- EventLoop's order of functors within TimerQueue and TcpConnect, whose `queue` is the interface of TaskQueue: theorems
  that their steps are Submits and Runs of it.
- A composition of TcpServer with the life time of the loops, and PollPoller if an EventLoop comes to use it.
