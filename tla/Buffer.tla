------------------------------- MODULE Buffer -------------------------------
(***************************************************************************)
(* Buffer (base/buffer.cc): a vector of bytes and two indices into it, the *)
(* bytes between them being those to be read.  A buffer is a value here,   *)
(* and each operation of the class an operator from a buffer to the next,  *)
(* for the modules of the code that owns one: the output of TcpConnect,    *)
(* and the input HttpServer parses.                                        *)
(*                                                                         *)
(* Indices count from 0 as in the code: the byte at index i is data[i+1].  *)
(* A byte that was output stays in the vector until it is overwritten, and *)
(* no operation reads it again, except that a failing write moves          *)
(* readindex_ back by one.  What such a byte is does not matter, so each   *)
(* operation replaces the bytes outside of the indices by Junk.            *)
(***************************************************************************)
EXTENDS Integers, SequencesExt

CONSTANT Junk \* a byte outside of the indices, or never written

readsize(b) == b.writeindex_ - b.readindex_
writesize(b) == Len(b.data) - b.writeindex_

\* The bytes between the indices, from peek() on.
readable(b) ==
    [i \in 1..readsize(b) |->
        LET k == b.readindex_ + i IN
           IF k \in 1..Len(b.data) THEN b.data[k] ELSE Junk]

Forget(b) ==
    [b EXCEPT !.data = [k \in 1..Len(b.data) |->
                           IF k \in (b.readindex_ + 1)..b.writeindex_
                             THEN b.data[k] ELSE Junk]]

NewBuffer(len) ==
    [data |-> [k \in 1..len |-> Junk], readindex_ |-> 0, writeindex_ |-> 0]

\* std::copy of s into data, from index i on.
Copy(data, i, s) ==
    [k \in 1..Len(data) |-> IF k - i \in 1..Len(s) THEN s[k - i] ELSE data[k]]

-----------------------------------------------------------------------------
(* Making room.                                                            *)

\* Mutant: readindex_ is cleared before readsize() is taken.
SwapClearFirst(b) ==
    [b EXCEPT !.data = Copy(@, 0, readable(b)), !.readindex_ = 0]

\* Mutant: the bytes to be read are not moved.
SwapInPlace(b) == [b EXCEPT !.readindex_ = 0, !.writeindex_ = readsize(b)]

swap(b) ==
    [data |-> Copy(b.data, 0, readable(b)),
     readindex_ |-> 0,
     writeindex_ |-> readsize(b)]

resize(b, len) == [b EXCEPT !.data = @ \o [k \in 1..(len + 1) |-> Junk]]

\* append, whatever form its argument has.
Appended(b, s) ==
    LET len == Len(s)
        roomy == IF len > writesize(b) + b.readindex_ THEN resize(b, len)
                 ELSE IF len > writesize(b) THEN swap(b)
                 ELSE b
    IN  [roomy EXCEPT !.data = Copy(@, roomy.writeindex_, s),
                      !.writeindex_ = @ + len]

-----------------------------------------------------------------------------
(* Reading from and writing to a descriptor.                               *)

\* read, when readv brings the bytes s: what is too much for the vector goes
\* to the array temp, which is then appended.  writesize() is 0 by that time,
\* so as many bytes of temp are appended as were read in all.
ReadV(b, s) ==
    IF Len(s) <= writesize(b)
      THEN [b EXCEPT !.data = Copy(@, b.writeindex_, s),
                     !.writeindex_ = @ + Len(s)]
      ELSE LET n == writesize(b)
               temp == [i \in 1..Len(s) |->
                           IF n + i <= Len(s) THEN s[n + i] ELSE Junk]
               filled == [b EXCEPT !.data = Copy(@, b.writeindex_, s),
                                   !.writeindex_ = Len(b.data)]
           IN  Appended(filled, temp)

\* write, when the descriptor takes n bytes, or fails (n = -1).
Written(b, n) == Forget([b EXCEPT !.readindex_ = @ + n])

\* retrieve, and retrieveUntil with the distance of its argument.
Retrieved(b, n) ==
    Forget(IF n < readsize(b)
             THEN [b EXCEPT !.readindex_ = @ + n]
             ELSE [b EXCEPT !.readindex_ = 0, !.writeindex_ = 0])
=============================================================================
