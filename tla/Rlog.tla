-------------------------------- MODULE Rlog --------------------------------
(***************************************************************************)
(* The asynchronous log (base/rlog.h, base/rlog.cc, cell_buffer of         *)
(* base/buffer.cc): threads append lines to the current buffer of a ring   *)
(* under mutex_, and the log thread writes full buffers to a file with the *)
(* mutex released, frees them, and goes round the ring behind the writers. *)
(* When the next buffer is not free the ring grows, up to a limit, and     *)
(* beyond it lines are dropped for a while.                                *)
(*                                                                         *)
(* lst_lts is read and reset without the mutex, so a writer that is past   *)
(* the limit may see its own mark gone.  clear frees a buffer without the  *)
(* mutex too, and leaves its text where it is: the file gets what data     *)
(* holds up to a NUL, the lines of earlier rounds behind the new ones too. *)
(* The memory of a buffer is fresh, and zero, when it is made.             *)
(*                                                                         *)
(* Lines are numbered as they are appended, and a byte is the number of    *)
(* its line; a line that goes into a full buffer, which may lose it, is    *)
(* Stray.                                                                  *)
(***************************************************************************)
EXTENDS Naturals, SequencesExt

CONSTANTS Writers,    \* the threads that log
          NumBufs,    \* the buffers of the constructor
          MaxBufs,    \* the buffers MEM_USE_LIMIT allows
          Capacity,   \* one_buff_len
          Lengths,    \* the lengths of lines
          MaxLines,   \* bound on the calls of try_append
          Threshold,  \* RELOG_THRESOLD
          MaxSec      \* bound on the clock

NoOne == "noone"

ASSUME RlogAssumption ==
    /\ NoOne \notin Writers
    /\ NumBufs \in Nat \ {0, 1} /\ MaxBufs \in Nat /\ NumBufs <= MaxBufs
    /\ Capacity \in Nat
    /\ Lengths \subseteq 1..Capacity
    /\ MaxLines \in Nat /\ MaxSec \in Nat \ {0} /\ Threshold \in Nat

Bufs == 1..MaxBufs
Stray == 0

VARIABLES
    status,    \* FREE or FULL, of each cell_buffer
    index_,    \* where each appends, and what it holds of lines to be written
    lines,     \* history: these lines, in order
    data,      \* the text of each, up to the first NUL
    next,      \* the ring
    _buf_cnt,
    cur_buf,   \* where lines are appended
    prst_buf,  \* what the log thread writes next
    lst_lts,   \* when a line was dropped, or 0
    sec,       \* the clock
    running,
    logpc,     \* where the log thread is in persist()
    ownerpc,   \* where the owner is in init() and the destructor
    writerpc,  \* where each writer is in try_append
    curr_sec,  \* the time it read
    len_all,   \* the length of its line
    mutex_,    \* a writer that holds the mutex over several steps
    tries,     \* number of calls of try_append
    appended,  \* number of lines appended
    written,   \* history: the lines written to the file, in order
    fp_,       \* the text that persist has just put into the file
    overtaken  \* history: the ring grew elsewhere than before the buffer
               \* the log thread is at

bufvars == <<status, index_, lines, data, next, _buf_cnt, cur_buf, overtaken>>
writervars == <<writerpc, curr_sec, len_all, mutex_, tries, appended>>
vars == <<bufvars, prst_buf, lst_lts, sec, running, logpc, ownerpc,
          writervars, written, fp_>>

TypeOK ==
    /\ status \in [Bufs -> {"FREE", "FULL"}]
    /\ index_ \in [Bufs -> 0..Capacity]
    /\ lines \in [Bufs -> Seq(0..MaxLines)]
    /\ data \in [Bufs -> Seq(0..MaxLines)]
    /\ \A b \in Bufs : index_[b] <= Len(data[b]) /\ Len(data[b]) <= Capacity
    /\ _buf_cnt \in NumBufs..MaxBufs
    /\ next \in [1.._buf_cnt -> 1.._buf_cnt]
    /\ cur_buf \in 1.._buf_cnt /\ prst_buf \in 1.._buf_cnt
    /\ lst_lts \in 0..MaxSec /\ sec \in 1..MaxSec
    /\ running \in BOOLEAN
    /\ logpc \in {"none", "loop", "lock", "wait", "decide", "write", "clear",
                  "advance", "ended"}
    /\ ownerpc \in {"new", "spawned", "started", "join", "flush", "done"}
    /\ writerpc \in [Writers -> {"out", "test", "reset", "lock", "finish"}]
    /\ curr_sec \in [Writers -> 0..MaxSec]
    /\ len_all \in [Writers -> {0} \cup Lengths]
    /\ mutex_ \in Writers \cup {NoOne}
    /\ tries \in 0..MaxLines /\ appended \in 0..MaxLines
    /\ written \in Seq(0..MaxLines) /\ fp_ \in Seq(0..MaxLines)
    /\ overtaken \in BOOLEAN

Init ==
    /\ status = [b \in Bufs |-> "FREE"]
    /\ index_ = [b \in Bufs |-> 0]
    /\ lines = [b \in Bufs |-> <<>>] /\ data = [b \in Bufs |-> <<>>]
    /\ next = [b \in 1..NumBufs |-> (b % NumBufs) + 1]
    /\ _buf_cnt = NumBufs
    /\ cur_buf = 1 /\ prst_buf = 1
    /\ lst_lts = 0 /\ sec = 1
    /\ running = FALSE
    /\ logpc = "none" /\ ownerpc = "new"
    /\ writerpc = [w \in Writers |-> "out"]
    /\ curr_sec = [w \in Writers |-> 0]
    /\ len_all = [w \in Writers |-> 0]
    /\ mutex_ = NoOne
    /\ tries = 0 /\ appended = 0
    /\ written = <<>> /\ fp_ = <<>> /\ overtaken = FALSE

-----------------------------------------------------------------------------
(* cell_buffer.                                                            *)

AvailLen(b) == Capacity - index_[b]

\* d with n bytes x behind the first i.
Overwritten(d, i, n, x) ==
    [k \in 1..(IF Len(d) > i + n THEN Len(d) ELSE i + n) |->
        IF k \in (i + 1)..(i + n) THEN x ELSE d[k]]

\* append of cell_buffer, which ignores a line there is no room for.
Append_(b, n) ==
    IF n <= AvailLen(b)
      THEN LET line == IF status[b] = "FREE" THEN appended + 1 ELSE Stray IN
           /\ lines' = [lines EXCEPT ![b] = Append(@, line)]
           /\ data' = [data EXCEPT ![b] = Overwritten(@, index_[b], n, line)]
           /\ index_' = [index_ EXCEPT ![b] = @ + n]
           /\ appended' = IF line = Stray THEN appended ELSE line
      ELSE UNCHANGED <<data, lines, index_, appended>>

\* fp_ << data: the lines of this round, and behind them what is left of
\* those of earlier rounds.
Stream(b) ==
    /\ written' = written \o lines[b]
    /\ fp_' = data[b]

\* clear of cell_buffer: data keeps its text.
Clear(b) ==
    /\ index_' = [index_ EXCEPT ![b] = 0]
    /\ lines' = [lines EXCEPT ![b] = <<>>]
    /\ status' = [status EXCEPT ![b] = "FREE"]
    /\ UNCHANGED data

-----------------------------------------------------------------------------
(* try_append.                                                             *)

Goto(w, pc) ==
    /\ writerpc' = [writerpc EXCEPT ![w] = pc]
    /\ UNCHANGED <<curr_sec, len_all>>

\* try_append returns, and with it go its variables.
Return(w) ==
    /\ writerpc' = [writerpc EXCEPT ![w] = "out"]
    /\ curr_sec' = [curr_sec EXCEPT ![w] = 0]
    /\ len_all' = [len_all EXCEPT ![w] = 0]

\* A thread logs, and reads the clock; not before the object is there, nor
\* while it is destroyed.
TryAppend(w) ==
    /\ writerpc[w] = "out"
    /\ ownerpc \in {"new", "spawned", "started"}
    /\ tries < MaxLines
    /\ tries' = tries + 1
    /\ curr_sec' = [curr_sec EXCEPT ![w] = sec]
    /\ \E n \in Lengths : len_all' = [len_all EXCEPT ![w] = n]
    /\ writerpc' = [writerpc EXCEPT ![w] = "test"]
    /\ UNCHANGED <<bufvars, prst_buf, lst_lts, sec, running, logpc, ownerpc,
                   mutex_, appended, written, fp_>>

\* The line is dropped soon after another was.  The seconds are unsigned: one
\* dropped later than curr_sec does not count.
TestRelog(w) ==
    /\ writerpc[w] = "test"
    /\ IF lst_lts # 0 /\ curr_sec[w] >= lst_lts
                      /\ curr_sec[w] - lst_lts < Threshold
         THEN Return(w) ELSE Goto(w, "reset")
    /\ UNCHANGED <<bufvars, prst_buf, lst_lts, sec, running, logpc, ownerpc,
                   mutex_, tries, appended, written, fp_>>

ResetRelog(w) ==
    /\ writerpc[w] = "reset"
    /\ lst_lts' = 0
    /\ Goto(w, "lock")
    /\ UNCHANGED <<bufvars, prst_buf, sec, running, logpc, ownerpc, mutex_,
                   tries, appended, written, fp_>>

\* Room in the current buffer.
AppendHere(w) ==
    /\ status[cur_buf] = "FREE" /\ len_all[w] <= AvailLen(cur_buf)
    /\ Append_(cur_buf, len_all[w])
    /\ Return(w)
    /\ UNCHANGED <<status, next, _buf_cnt, cur_buf, overtaken, lst_lts,
                   mutex_>>

\* The next buffer is free.
MoveOn ==
    /\ status[next[cur_buf]] = "FREE"
    /\ cur_buf' = next[cur_buf]
    /\ UNCHANGED <<next, _buf_cnt, overtaken, lst_lts>>

\* It is not, and the ring must not grow.
MoveOnAtLimit(w) ==
    /\ status[next[cur_buf]] = "FULL"
    /\ _buf_cnt + 1 > MaxBufs
    /\ cur_buf' = next[cur_buf]
    /\ lst_lts' = curr_sec[w]
    /\ UNCHANGED <<next, _buf_cnt, overtaken>>

\* It is not, and a new one is put between the two.
GrowAfter(c) ==
    LET b == _buf_cnt + 1 IN
    /\ _buf_cnt' = b
    /\ next' = [d \in 1..b |-> IF d = c THEN b
                               ELSE IF d = b THEN next[c] ELSE next[d]]
    /\ cur_buf' = b
    /\ overtaken' = (overtaken \/ next[cur_buf] # prst_buf)
    /\ UNCHANGED lst_lts

\* Mutant: the new buffer is put behind the next one.
GrowBehindNext ==
    /\ status[next[cur_buf]] = "FULL"
    /\ _buf_cnt + 1 <= MaxBufs
    /\ GrowAfter(next[cur_buf])

Grow ==
    /\ status[next[cur_buf]] = "FULL"
    /\ _buf_cnt + 1 <= MaxBufs
    /\ GrowAfter(cur_buf)

\* No room in the current buffer: the log thread is to write it.
Advance(w) ==
    /\ status[cur_buf] = "FREE" /\ len_all[w] > AvailLen(cur_buf)
    /\ status' = [status EXCEPT ![cur_buf] = "FULL"]
    /\ MoveOn \/ MoveOnAtLimit(w) \/ Grow
    /\ Goto(w, "finish")
    /\ mutex_' = w
    /\ UNCHANGED <<index_, lines, data, appended>>

\* The log thread is writing the current buffer: all are full.
DropLine(w) ==
    /\ status[cur_buf] = "FULL"
    /\ lst_lts' = curr_sec[w]
    /\ Return(w)
    /\ UNCHANGED <<bufvars, appended, mutex_>>

LockedAppend(w) ==
    /\ writerpc[w] = "lock"
    /\ mutex_ = NoOne
    /\ AppendHere(w) \/ Advance(w) \/ DropLine(w)
    /\ UNCHANGED <<prst_buf, sec, running, logpc, ownerpc, tries, written, fp_>>

\* if(!lst_lts), still in the critical section; the notification that follows
\* it only hastens what the timeout of the log thread's wait does.
FinishAppend(w) ==
    /\ writerpc[w] = "finish"
    /\ IF lst_lts = 0 THEN Append_(cur_buf, len_all[w])
                      ELSE UNCHANGED <<data, lines, index_, appended>>
    /\ Return(w)
    /\ mutex_' = NoOne
    /\ UNCHANGED <<status, next, _buf_cnt, cur_buf, overtaken, prst_buf,
                   lst_lts, sec, running, logpc, ownerpc, tries, written, fp_>>

-----------------------------------------------------------------------------
(* persist, by the log thread.                                             *)

logless == <<lst_lts, sec, running, ownerpc, writervars>>

PersistLoop ==
    /\ logpc = "loop"
    /\ logpc' = IF running THEN "lock" ELSE "ended"
    /\ UNCHANGED <<bufvars, prst_buf, logless, written, fp_>>

PersistWait ==
    /\ logpc = "lock" /\ mutex_ = NoOne
    /\ status[prst_buf] = "FREE"
    /\ logpc' = "wait"
    /\ UNCHANGED <<bufvars, prst_buf, logless, written, fp_>>

\* Mutant: only full buffers are written.
TakeFullOnly == UNCHANGED <<status, cur_buf>>

\* A buffer that is not full is taken from the writers when the wait ended.
TakePartial ==
    IF status[prst_buf] = "FREE"
      THEN /\ status' = [status EXCEPT ![cur_buf] = "FULL"]
           /\ cur_buf' = next[cur_buf]
      ELSE UNCHANGED <<status, cur_buf>>

\* The rest of the critical section, at once or when wait_for has returned,
\* for whatever reason; empty() is about the capacity, and never holds.
PersistTake ==
    /\ logpc = "wait" \/ (logpc = "lock" /\ status[prst_buf] = "FULL")
    /\ mutex_ = NoOne
    /\ TakePartial
    /\ logpc' = "decide"
    /\ UNCHANGED <<index_, lines, data, next, _buf_cnt, overtaken, prst_buf, logless,
                   written, fp_>>

\* decis_file: the file for the day, and within its size, can be had or not.
DecisFile ==
    /\ logpc = "decide"
    /\ logpc' \in {"write", "loop"}
    /\ UNCHANGED <<bufvars, prst_buf, logless, written, fp_>>

\* persist of cell_buffer, without the mutex.
PersistWrite ==
    /\ logpc = "write"
    /\ Stream(prst_buf)
    /\ logpc' = "clear"
    /\ UNCHANGED <<bufvars, prst_buf, logless>>

PersistClear ==
    /\ logpc = "clear"
    /\ Clear(prst_buf)
    /\ logpc' = "advance"
    /\ fp_' = <<>>
    /\ UNCHANGED <<next, _buf_cnt, cur_buf, overtaken, prst_buf, logless,
                   written>>

PersistAdvance ==
    /\ logpc = "advance" /\ mutex_ = NoOne
    /\ prst_buf' = next[prst_buf]
    /\ logpc' = "loop"
    /\ UNCHANGED <<bufvars, logless, written, fp_>>

-----------------------------------------------------------------------------
(* The owner.                                                              *)

\* init() starts the thread and then sets running.
SpawnLogThread ==
    /\ ownerpc = "new"
    /\ ownerpc' = "spawned"
    /\ logpc' = "loop"
    /\ UNCHANGED <<bufvars, prst_buf, lst_lts, sec, running, writervars,
                   written, fp_>>

SetRunning ==
    /\ ownerpc = "spawned"
    /\ ownerpc' = "started"
    /\ running' = TRUE
    /\ UNCHANGED <<bufvars, prst_buf, lst_lts, sec, logpc, writervars, written, fp_>>

\* ~rlog, when no thread is logging.
StopRunning ==
    /\ ownerpc = "started"
    /\ \A w \in Writers : writerpc[w] = "out"
    /\ ownerpc' = "join"
    /\ running' = FALSE
    /\ UNCHANGED <<bufvars, prst_buf, lst_lts, sec, logpc, writervars, written, fp_>>

Join ==
    /\ ownerpc = "join" /\ logpc = "ended"
    /\ ownerpc' = "flush"
    /\ UNCHANGED <<bufvars, prst_buf, lst_lts, sec, running, logpc, writervars,
                   written, fp_>>

\* The destructor writes one buffer.
FlushLast ==
    /\ ownerpc = "flush"
    /\ ownerpc' = "done"
    /\ Stream(prst_buf)
    /\ Clear(prst_buf)
    /\ UNCHANGED <<next, _buf_cnt, cur_buf, overtaken, prst_buf, lst_lts, sec,
                   running, logpc, writervars>>

Tick ==
    /\ sec < MaxSec
    /\ sec' = sec + 1
    /\ UNCHANGED <<bufvars, prst_buf, lst_lts, running, logpc, ownerpc,
                   writervars, written, fp_>>

-----------------------------------------------------------------------------
Writer(w) ==
    \/ TryAppend(w)
    \/ TestRelog(w)
    \/ ResetRelog(w)
    \/ LockedAppend(w)
    \/ FinishAppend(w)

Persist ==
    \/ PersistLoop
    \/ PersistWait
    \/ PersistTake
    \/ DecisFile
    \/ PersistWrite
    \/ PersistClear
    \/ PersistAdvance

Owner == SpawnLogThread \/ SetRunning \/ StopRunning \/ Join \/ FlushLast

Next == Owner \/ Persist \/ Tick \/ \E w \in Writers : Writer(w)

Spec == Init /\ [][Next]_vars

(***************************************************************************)
(* Fairness: the log thread runs, its wait ends at the latest by its       *)
(* timeout, it gets the mutex in the end, and a file can be had again and  *)
(* again.  A writer in its critical section leaves it.                     *)
(***************************************************************************)
FairSpec ==
    /\ Spec
    /\ SF_vars(Persist)
    /\ SF_vars(DecisFile /\ logpc' = "write")
    /\ WF_vars(\E w \in Writers : FinishAppend(w))

-----------------------------------------------------------------------------
(* Properties.                                                             *)

\* The ring, from the oldest buffer that is not written.
Oldest == IF logpc \in {"clear", "advance"} THEN next[prst_buf] ELSE prst_buf

Ring == LET ring[i \in 1.._buf_cnt] ==
                IF i = 1 THEN Oldest ELSE next[ring[i - 1]]
        IN  ring

\* What a buffer holds that is not written.
Pending(b) == IF logpc = "clear" /\ b = prst_buf THEN <<>> ELSE lines[b]

\* The lines of a sequence come in the order of their numbers.
Rising(s) ==
    \A i, j \in DOMAIN s : i < j /\ s[i] # Stray /\ s[j] # Stray => s[i] < s[j]

\* What persist puts into the file begins with what was appended to the buffer
\* since it was cleared: its lines, in order.
TextInOrder(b) ==
    /\ {data[b][k] : k \in 1..index_[b]} = ToSet(lines[b])
    /\ \A i, j \in 1..index_[b] :
          i < j /\ data[b][i] # Stray /\ data[b][j] # Stray
             => data[b][i] <= data[b][j]

\* The lines appended to free buffers are in the file, or in the buffers as
\* the log thread goes round them, each once among the lines of its round and
\* in the order of the critical sections, whatever writers do while a buffer
\* is written, freed or reached from both sides; as long as the ring grows in
\* front of the log thread only.  The file repeats lines, whole or cut, behind
\* those of a later round (buffer.cc:35-43); but none is there that was not in
\* the file before.
LinesInOrder ==
    /\ TypeOK /\ \A b \in Bufs : TextInOrder(b)
    /\ ~overtaken =>
        LET all == written \o FlattenSeq([i \in 1.._buf_cnt |-> Pending(Ring[i])])
        IN  /\ Rising(all) /\ ToSet(all) \ {Stray} = 1..appended
            /\ ToSet(fp_) \subseteq ToSet(written) \cup {Stray}

\* An appended line gets to the file as long as the log runs, unless the log
\* thread was there before running was set and ended at once, or the ring grew
\* elsewhere.
LineIsWritten ==
    \A n \in 1..MaxLines :
        appended >= n /\ running
            ~> Contains(written, n) \/ ~running \/ logpc = "ended"
               \/ overtaken
=============================================================================
