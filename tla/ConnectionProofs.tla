-------------------------- MODULE ConnectionProofs --------------------------
(***************************************************************************)
(* Proofs about the two sides of a connection, for any sizes of its        *)
(* buffers.  TcpConnect, the output, for any threads, messages and socket: *)
(* the types, that buffered output is watched for, and that the stream of  *)
(* bytes is that of the messages handed over.  HttpServer, the input, for  *)
(* any conversation: what waits to be parsed is what was received, and     *)
(* requests are answered as they were sent.  Both sides rest on what the   *)
(* operations of Buffer do to the bytes to be read.                        *)
(***************************************************************************)
EXTENDS TcpConnect, HttpServer, SequenceTheorems, WellFoundedInduction, TLAPS

-----------------------------------------------------------------------------
(* Buffer.                                                                 *)

\* A buffer of elements of S, among them Junk.
BufferOf(S) ==
    {b \in [data : Seq(S), readindex_ : Int, writeindex_ : Int] :
        /\ b.readindex_ \in -1..b.writeindex_
        /\ b.writeindex_ \in 0..Len(b.data)}

\* Its readindex_ has not been moved before the first byte.
InRange(b) == b.readindex_ >= 0

LEMMA CopyIsSeq ==
    ASSUME NEW S, NEW d \in Seq(S), NEW s \in Seq(S), NEW i \in Nat
    PROVE  /\ Copy(d, i, s) \in Seq(S)
           /\ Len(Copy(d, i, s)) = Len(d)
           /\ \A k \in 1..Len(d) :
                 Copy(d, i, s)[k] = IF k - i \in 1..Len(s) THEN s[k - i] ELSE d[k]
  <1>1. \A k \in 1..Len(d) :
           (IF k - i \in 1..Len(s) THEN s[k - i] ELSE d[k]) \in S
    OBVIOUS
  <1> QED
    BY <1>1 DEF Copy

LEMMA ReadableIsSeq ==
    ASSUME NEW S, Junk \in S, NEW b \in BufferOf(S)
    PROVE  /\ readsize(b) \in Nat
           /\ readable(b) \in Seq(S) /\ Len(readable(b)) = readsize(b)
           /\ InRange(b) => \A i \in 1..readsize(b) :
                               readable(b)[i] = b.data[b.readindex_ + i]
  <1>1. readsize(b) \in Nat
    BY DEF BufferOf, readsize
  <1>2. \A i \in 1..readsize(b) :
           LET k == b.readindex_ + i IN
              (IF k \in 1..Len(b.data) THEN b.data[k] ELSE Junk) \in S
    BY DEF BufferOf
  <1>3. InRange(b) => \A i \in 1..readsize(b) :
                         b.readindex_ + i \in 1..Len(b.data)
    BY DEF BufferOf, InRange, readsize
  <1> QED
    BY <1>1, <1>2, <1>3 DEF readable

LEMMA SwapKeeps ==
    ASSUME NEW S, Junk \in S, NEW b \in BufferOf(S), InRange(b)
    PROVE  /\ swap(b) \in BufferOf(S) /\ InRange(swap(b))
           /\ readable(swap(b)) = readable(b)
           /\ readsize(swap(b)) = readsize(b)
           /\ writesize(swap(b)) = writesize(b) + b.readindex_
  <1> DEFINE c == swap(b)
             d == Copy(b.data, 0, readable(b))
  <1>1. /\ readsize(b) \in Nat /\ readable(b) \in Seq(S)
        /\ Len(readable(b)) = readsize(b)
    BY ReadableIsSeq
  <1>2. /\ d \in Seq(S) /\ Len(d) = Len(b.data)
        /\ \A k \in 1..Len(b.data) :
              d[k] = IF k - 0 \in 1..Len(readable(b)) THEN readable(b)[k - 0]
                                                      ELSE b.data[k]
    BY <1>1, CopyIsSeq DEF BufferOf
  <1>3. c.data = d /\ c.readindex_ = 0 /\ c.writeindex_ = readsize(b)
        /\ c \in [data : Seq(S), readindex_ : Int, writeindex_ : Int]
    BY <1>1, <1>2 DEF swap
  <1>4. readsize(b) \in 0..Len(b.data)
    BY <1>1 DEF BufferOf, InRange, readsize
  <1> HIDE DEF d
  <1>5. c \in BufferOf(S) /\ InRange(c)
    BY <1>2, <1>3, <1>4 DEF BufferOf, InRange
  <1>6. readsize(c) = readsize(b)
    BY <1>3, <1>4 DEF readsize
  <1>7. writesize(c) = writesize(b) + b.readindex_
    BY <1>2, <1>3 DEF writesize, readsize, BufferOf
  <1> HIDE DEF c
  <1>8. /\ readable(c) \in Seq(S) /\ Len(readable(c)) = readsize(b)
        /\ \A i \in 1..readsize(b) : readable(c)[i] = c.data[c.readindex_ + i]
    BY <1>5, <1>6, ReadableIsSeq
  <1>9. \A i \in 1..readsize(b) : readable(c)[i] = readable(b)[i]
    <2> SUFFICES ASSUME NEW i \in 1..readsize(b)
                 PROVE  readable(c)[i] = readable(b)[i]
      OBVIOUS
    <2>1. i \in 1..Len(b.data) /\ i - 0 = i /\ 0 + i = i
      BY <1>4
    <2> QED
      BY <1>1, <1>2, <1>3, <1>8, <2>1
  <1>10. readable(c) = readable(b)
    BY <1>1, <1>8, <1>9
  <1> QED
    BY <1>5, <1>6, <1>7, <1>10 DEF c

LEMMA ResizeKeeps ==
    ASSUME NEW S, Junk \in S, NEW b \in BufferOf(S), NEW len \in Nat
    PROVE  /\ resize(b, len) \in BufferOf(S)
           /\ resize(b, len).readindex_ = b.readindex_
           /\ readsize(resize(b, len)) = readsize(b)
           /\ InRange(b) => readable(resize(b, len)) = readable(b)
           /\ writesize(resize(b, len)) = writesize(b) + len + 1
  <1> DEFINE c == resize(b, len)
             more == [k \in 1..(len + 1) |-> Junk]
  <1>1. more \in Seq(S) /\ Len(more) = len + 1
    OBVIOUS
  <1>a. /\ b \in [data : Seq(S), readindex_ : Int, writeindex_ : Int]
        /\ c = [b EXCEPT !.data = b.data \o more]
    BY DEF resize, BufferOf
  <1> HIDE DEF more
  <1>b. b.data \o more \in Seq(S)
    BY <1>1, <1>a
  <1>2. /\ c.data = b.data \o more /\ c.readindex_ = b.readindex_
        /\ c.writeindex_ = b.writeindex_
        /\ c \in [data : Seq(S), readindex_ : Int, writeindex_ : Int]
    BY <1>a, <1>b
  <1>3. /\ Len(c.data) = Len(b.data) + len + 1
        /\ \A k \in 1..Len(b.data) : c.data[k] = b.data[k]
    BY <1>1, <1>2, <1>a
  <1> HIDE DEF c
  <1>4. c \in BufferOf(S)
    BY <1>2, <1>3 DEF BufferOf
  <1>5. readsize(c) = readsize(b) /\ writesize(c) = writesize(b) + len + 1
    BY <1>2, <1>3 DEF readsize, writesize, BufferOf
  <1>6. InRange(b) => readable(c) = readable(b)
    <2> SUFFICES ASSUME InRange(b) PROVE readable(c) = readable(b)
      OBVIOUS
    <2>a. InRange(c)
      BY <1>2 DEF InRange
    <2>b. /\ readsize(b) \in Nat
          /\ readable(b) \in Seq(S) /\ Len(readable(b)) = readsize(b)
          /\ \A i \in 1..readsize(b) :
                readable(b)[i] = b.data[b.readindex_ + i]
      BY ReadableIsSeq
    <2>c. /\ readable(c) \in Seq(S) /\ Len(readable(c)) = readsize(c)
          /\ \A i \in 1..readsize(c) :
                readable(c)[i] = c.data[c.readindex_ + i]
      BY <1>4, <2>a, ReadableIsSeq
    <2>1. /\ readable(c) \in Seq(S) /\ Len(readable(c)) = readsize(b)
          /\ \A i \in 1..readsize(b) :
                readable(c)[i] = c.data[b.readindex_ + i]
      BY <1>2, <1>5, <2>c
    <2>2. \A i \in 1..readsize(b) : b.readindex_ + i \in 1..Len(b.data)
      BY DEF InRange, readsize, BufferOf
    <2>3. \A i \in 1..readsize(b) : readable(c)[i] = readable(b)[i]
      BY <1>3, <2>b, <2>1, <2>2
    <2> QED
      BY <2>b, <2>1, <2>3
  <1> QED
    BY <1>2, <1>4, <1>5, <1>6 DEF c

\* Appending to a vector that has the room.
CopiedIn(b, s) == [b EXCEPT !.data = Copy(@, b.writeindex_, s),
                            !.writeindex_ = @ + Len(s)]

LEMMA CopyAppends ==
    ASSUME NEW S, Junk \in S, NEW b \in BufferOf(S), NEW s \in Seq(S),
           Len(s) <= writesize(b)
    PROVE  /\ CopiedIn(b, s) \in BufferOf(S)
           /\ CopiedIn(b, s).readindex_ = b.readindex_
           /\ readsize(CopiedIn(b, s)) = readsize(b) + Len(s)
           /\ InRange(b) => readable(CopiedIn(b, s)) = readable(b) \o s
  <1> DEFINE d == Copy(b.data, b.writeindex_, s)
             c == CopiedIn(b, s)
             e == b.data
             x == b.readindex_
             w == b.writeindex_
  <1>a. /\ e \in Seq(S) /\ x \in Int /\ w \in Nat /\ Len(e) \in Nat
        /\ Len(s) \in Nat
        /\ x \in -1..w /\ w \in 0..Len(e) /\ w + Len(s) <= Len(e)
    BY DEF BufferOf, writesize
  <1>b. c = [data |-> d, readindex_ |-> x, writeindex_ |-> w + Len(s)]
    <2>1. c = [b EXCEPT !.data = d, !.writeindex_ = w + Len(s)]
      BY DEF CopiedIn
    <2>2. b \in [data : Seq(S), readindex_ : Int, writeindex_ : Int]
      BY DEF BufferOf
    <2>3. x = b.readindex_
      OBVIOUS
    <2> HIDE DEF c, d, x, w
    <2> QED
      BY <2>1, <2>2, <2>3
  <1>c. readsize(b) = w - x
    BY DEF readsize
  <1>d. InRange(b) <=> x >= 0
    BY DEF InRange
  <1>1. d \in Seq(S) /\ Len(d) = Len(e)
    <2> HIDE DEF e, w
    <2>1. d = Copy(e, w, s)
      BY DEF e, w
    <2> QED
      BY <1>a, <2>1, CopyIsSeq
  <1>f. \A k \in 1..Len(e) :
           d[k] = IF k - w \in 1..Len(s) THEN s[k - w] ELSE e[k]
    <2> HIDE DEF e, w
    <2>1. d = Copy(e, w, s)
      BY DEF e, w
    <2> QED
      BY <1>a, <2>1, CopyIsSeq
  <1> HIDE DEF c, d, e, x, w
  <1>2. /\ c.data = d /\ c.readindex_ = x /\ c.writeindex_ = w + Len(s)
        /\ c \in [data : Seq(S), readindex_ : Int, writeindex_ : Int]
    BY <1>a, <1>b, <1>1
  <1>3. c \in BufferOf(S)
    BY <1>a, <1>1, <1>2 DEF BufferOf
  <1>4. readsize(c) = (w - x) + Len(s)
    BY <1>a, <1>2 DEF readsize
  <1>5. ASSUME InRange(b) PROVE readable(c) = readable(b) \o s
    <2> DEFINE r == readable(b)
               n == w - x
    <2>1. n \in Nat /\ x \in Nat /\ w = x + n /\ readsize(b) = n
      BY <1>a, <1>c, <1>d, <1>5
    <2>2. /\ r \in Seq(S) /\ Len(r) = n
          /\ \A i \in 1..n : r[i] = e[x + i]
      BY <1>5, <2>1, ReadableIsSeq DEF e, x
    <2>3. InRange(c) /\ readsize(c) = n + Len(s)
      BY <1>2, <1>4, <2>1 DEF InRange
    <2>4. /\ readable(c) \in Seq(S) /\ Len(readable(c)) = n + Len(s)
          /\ \A i \in 1..(n + Len(s)) : readable(c)[i] = c.data[c.readindex_ + i]
      BY <1>3, <2>3, ReadableIsSeq
    <2> HIDE DEF r, n
    <2>5. ASSUME NEW i \in 1..(n + Len(s)) PROVE d[x + i] = (r \o s)[i]
      <3>1. i \in Nat /\ i >= 1 /\ i <= n + Len(s) /\ x + i \in 1..Len(e)
        BY <1>a, <2>1
      <3>2. d[x + i] = IF (x + i) - w \in 1..Len(s)
                         THEN s[(x + i) - w] ELSE e[x + i]
        BY <1>f, <3>1
      <3>3. CASE i > n
        <4>1. (x + i) - w = i - n /\ i - n \in 1..Len(s)
          BY <1>a, <2>1, <3>1, <3>3
        <4>2. d[x + i] = s[i - n]
          BY <3>2, <4>1
        <4>3. (r \o s)[i] = s[i - n]
          BY <1>a, <2>1, <2>2, <3>1, <3>3
        <4> QED
          BY <4>2, <4>3
      <3>4. CASE i <= n
        <4>1. (x + i) - w \notin 1..Len(s) /\ i \in 1..n
          BY <1>a, <2>1, <3>1, <3>4
        <4>2. d[x + i] = e[x + i]
          BY <3>2, <4>1
        <4>3. (r \o s)[i] = r[i]
          BY <2>1, <2>2, <3>1, <3>4
        <4> QED
          BY <2>2, <4>1, <4>2, <4>3
      <3>5. i > n \/ i <= n
        BY <2>1, <3>1
      <3> QED
        BY <3>3, <3>4, <3>5
    <2>6. \A i \in 1..(n + Len(s)) : readable(c)[i] = (r \o s)[i]
      BY <1>2, <2>4, <2>5
    <2>7. r \o s \in Seq(S) /\ Len(r \o s) = n + Len(s)
      BY <2>1, <2>2
    <2>8. readable(c) = r \o s
      BY <1>a, <2>1, <2>4, <2>6, <2>7, SMTT(30)
    <2> QED
      BY <2>8 DEF r
  <1> QED
    BY <1>2, <1>3, <1>4, <1>5, <1>c DEF c, x

\* append keeps what is to be read and adds to it, whether the bytes are
\* moved to the front, the vector grows, or neither (buffer.h:66-85).
LEMMA AppendedKeeps ==
    ASSUME NEW S, Junk \in S, NEW b \in BufferOf(S), NEW s \in Seq(S)
    PROVE  /\ Appended(b, s) \in BufferOf(S)
           /\ readsize(Appended(b, s)) = readsize(b) + Len(s)
           /\ InRange(b) => /\ InRange(Appended(b, s))
                            /\ readable(Appended(b, s)) = readable(b) \o s
  <1> DEFINE len == Len(s)
             roomy == IF len > writesize(b) + b.readindex_ THEN resize(b, len)
                      ELSE IF len > writesize(b) THEN swap(b)
                      ELSE b
  <1>1. /\ len \in Nat /\ writesize(b) \in Nat /\ b.readindex_ \in Int
        /\ b.readindex_ >= -1
    BY DEF writesize, BufferOf
  <1>2. /\ roomy \in BufferOf(S) /\ len <= writesize(roomy)
        /\ readsize(roomy) = readsize(b)
        /\ InRange(b) => InRange(roomy) /\ readable(roomy) = readable(b)
    <2>1. CASE len > writesize(b) + b.readindex_
      <3>1. roomy = resize(b, len)
        BY <2>1
      <3> HIDE DEF roomy, len
      <3>2. /\ resize(b, len) \in BufferOf(S)
            /\ resize(b, len).readindex_ = b.readindex_
            /\ readsize(resize(b, len)) = readsize(b)
            /\ InRange(b) => readable(resize(b, len)) = readable(b)
            /\ writesize(resize(b, len)) = writesize(b) + len + 1
        BY <1>1, ResizeKeeps
      <3>3. len <= writesize(b) + len + 1
        BY <1>1
      <3> QED
        BY <3>1, <3>2, <3>3 DEF InRange
    <2>2. CASE ~(len > writesize(b) + b.readindex_) /\ len > writesize(b)
      <3>1. roomy = swap(b) /\ InRange(b)
        BY <1>1, <2>2 DEF InRange
      <3> HIDE DEF roomy, len
      <3> QED
        BY <1>1, <2>2, <3>1, SwapKeeps
    <2>3. CASE ~(len > writesize(b) + b.readindex_) /\ ~(len > writesize(b))
      <3>1. roomy = b
        BY <2>3
      <3> HIDE DEF roomy, len
      <3> QED
        BY <1>1, <2>3, <3>1
    <2> QED
      BY <2>1, <2>2, <2>3
  <1>3. Appended(b, s) = [roomy EXCEPT !.data = Copy(@, roomy.writeindex_, s),
                                       !.writeindex_ = @ + Len(s)]
    BY DEF Appended
  <1> HIDE DEF roomy
  <1>4. /\ Appended(b, s) \in BufferOf(S)
        /\ Appended(b, s).readindex_ = roomy.readindex_
        /\ readsize(Appended(b, s)) = readsize(roomy) + Len(s)
        /\ InRange(roomy) => readable(Appended(b, s)) = readable(roomy) \o s
    <2>1. Len(s) <= writesize(roomy) /\ roomy \in BufferOf(S)
      BY <1>2
    <2> HIDE DEF len
    <2>2. Appended(b, s) = CopiedIn(roomy, s)
      BY <1>3 DEF CopiedIn
    <2> QED
      BY <2>1, <2>2, CopyAppends
  <1> QED
    BY <1>2, <1>4 DEF InRange

\* write takes the first n bytes (buffer.cc, write), and a failing write takes
\* one back.
LEMMA WrittenKeeps ==
    ASSUME NEW S, Junk \in S, NEW b \in BufferOf(S), InRange(b),
           NEW n \in -1..readsize(b)
    PROVE  /\ Written(b, n) \in BufferOf(S)
           /\ readsize(Written(b, n)) = readsize(b) - n
           /\ n >= 0 => /\ InRange(Written(b, n))
                        /\ readable(Written(b, n)) = Drop(readable(b), n)
  <1> DEFINE c == Written(b, n)
             e == b.data
             x == b.readindex_
             w == b.writeindex_
             d == [k \in 1..Len(e) |-> IF k \in (x + n + 1)..w THEN e[k] ELSE Junk]
  <1>1. /\ e \in Seq(S) /\ Len(e) \in Nat /\ x \in Nat /\ w \in Nat
        /\ w <= Len(e) /\ x <= w /\ readsize(b) = w - x
        /\ n \in Int /\ n >= -1 /\ n <= w - x
    BY DEF BufferOf, InRange, readsize
  <1>2. c = [data |-> d, readindex_ |-> x + n, writeindex_ |-> w]
    <2>1. b \in [data : Seq(S), readindex_ : Int, writeindex_ : Int]
      BY DEF BufferOf
    <2>2. b = [data |-> e, readindex_ |-> x, writeindex_ |-> w]
      BY <2>1
    <2> HIDE DEF e, x, w
    <2>3. [b EXCEPT !.readindex_ = @ + n]
            = [data |-> e, readindex_ |-> x + n, writeindex_ |-> w]
      BY <2>2
    <2> DEFINE a == [data |-> e, readindex_ |-> x + n, writeindex_ |-> w]
    <2>4. c = Forget(a)
      BY <2>3 DEF Written
    <2>5. a.data = e /\ a.readindex_ = x + n /\ a.writeindex_ = w
      OBVIOUS
    <2>6. [a EXCEPT !.data = d] = [data |-> d, readindex_ |-> x + n, writeindex_ |-> w]
      OBVIOUS
    <2> HIDE DEF a
    <2>7. Forget(a) = [a EXCEPT !.data = d]
      BY <2>5 DEF Forget
    <2> QED
      BY <2>4, <2>6, <2>7
  <1>a. /\ \A k \in 1..Len(e) : (IF k \in (x + n + 1)..w THEN e[k] ELSE Junk) \in S
        /\ \A i \in 1..(w - x) : readable(b)[i] = e[x + i]
        /\ readable(b) \in Seq(S) /\ Len(readable(b)) = w - x
    BY <1>1, ReadableIsSeq
  <1> HIDE DEF c, e, x, w
  <1>3. d \in Seq(S) /\ Len(d) = Len(e)
    BY <1>1, <1>a
  <1>b. \A k \in 1..Len(e) : k \in (x + n + 1)..w => d[k] = e[k]
    OBVIOUS
  <1> HIDE DEF d
  <1>4. /\ c.data = d /\ c.readindex_ = x + n /\ c.writeindex_ = w
        /\ c \in [data : Seq(S), readindex_ : Int, writeindex_ : Int]
    BY <1>1, <1>2, <1>3
  <1>5. c \in BufferOf(S)
    BY <1>1, <1>3, <1>4 DEF BufferOf
  <1>6. readsize(c) = (w - x) - n
    BY <1>1, <1>4 DEF readsize
  <1>7. ASSUME n >= 0
        PROVE  InRange(c) /\ readable(c) = Drop(readable(b), n)
    <2> DEFINE r == readable(b)
               l == (w - x) - n
    <2>1. InRange(c)
      BY <1>1, <1>4, <1>7 DEF InRange
    <2>2. /\ readable(c) \in Seq(S) /\ Len(readable(c)) = l
          /\ \A i \in 1..l : readable(c)[i] = c.data[c.readindex_ + i]
      BY <1>5, <1>6, <2>1, ReadableIsSeq
    <2>3. r \in Seq(S) /\ Len(r) = w - x /\ l \in Nat
      BY <1>1, <1>a
    <2>b. \A i \in 1..(w - x) : r[i] = e[x + i]
      BY <1>a
    <2> HIDE DEF r
    <2>4. /\ Drop(r, n) \in Seq(S) /\ Len(Drop(r, n)) = l
          /\ \A i \in 1..l : Drop(r, n)[i] = r[n + i]
      <3>1. Drop(r, n) = SubSeq(r, n + 1, w - x)
        BY <2>3 DEF Drop
      <3>2. n \in Nat /\ w - x \in Nat /\ l = (w - x) - n /\ l \in Nat
        BY <1>1, <1>7, <2>3
      <3> QED
        BY <2>3, <3>1, <3>2
    <2>5. ASSUME NEW i \in 1..l PROVE readable(c)[i] = Drop(r, n)[i]
      <3>1. /\ n + i \in 1..(w - x) /\ x + (n + i) \in 1..Len(e)
            /\ x + (n + i) \in (x + n + 1)..w /\ (x + n) + i = x + (n + i)
        BY <1>1, <1>7
      <3>2. readable(c)[i] = d[x + (n + i)]
        BY <1>4, <2>2, <3>1
      <3>3. d[x + (n + i)] = e[x + (n + i)]
        BY <1>b, <3>1
      <3>4. r[n + i] = e[x + (n + i)]
        BY <2>b, <3>1
      <3>5. Drop(r, n)[i] = r[n + i]
        BY <2>4
      <3> QED
        BY <3>2, <3>3, <3>4, <3>5
    <2> HIDE DEF l
    <2>6. readable(c) = Drop(r, n)
      BY <2>2, <2>3, <2>4, <2>5 DEF l
    <2> QED
      BY <2>1, <2>6 DEF r
  <1> QED
    BY <1>1, <1>5, <1>6, <1>7 DEF c

-----------------------------------------------------------------------------
(* Sequences and messages.                                                 *)

LEMMA SplitSeq ==
    ASSUME NEW T, NEW s \in Seq(T), NEW n \in 0..Len(s)
    PROVE  /\ Take(s, n) \in Seq(T) /\ Len(Take(s, n)) = n
           /\ Drop(s, n) \in Seq(T) /\ Len(Drop(s, n)) = Len(s) - n
           /\ Take(s, n) \o Drop(s, n) = s
  <1>1. /\ Take(s, n) \in Seq(T) /\ Len(Take(s, n)) = n
        /\ \A i \in 1..n : Take(s, n)[i] = s[i]
    BY DEF Take
  <1>2. /\ Drop(s, n) \in Seq(T) /\ Len(Drop(s, n)) = Len(s) - n
        /\ \A i \in 1..(Len(s) - n) : Drop(s, n)[i] = s[n + i]
    BY DEF Drop
  <1> DEFINE a == Take(s, n)
             b == Drop(s, n)
  <1> HIDE DEF a, b
  <1>3. /\ a \o b \in Seq(T) /\ Len(a \o b) = Len(s)
        /\ \A i \in 1..Len(s) : (a \o b)[i] = IF i <= n THEN a[i] ELSE b[i - n]
    BY <1>1, <1>2 DEF a, b
  <1>4. \A i \in 1..Len(s) : (a \o b)[i] = s[i]
    <2> SUFFICES ASSUME NEW i \in 1..Len(s) PROVE (a \o b)[i] = s[i]
      OBVIOUS
    <2>1. CASE i <= n
      BY <1>1, <1>3, <2>1 DEF a
    <2>2. CASE ~(i <= n)
      <3>1. i - n \in 1..(Len(s) - n) /\ n + (i - n) = i
        BY <2>2
      <3> QED
        BY <1>2, <1>3, <2>2, <3>1 DEF b
    <2> QED
      BY <2>1, <2>2
  <1>5. a \o b = s
    <2> DEFINE c == a \o b
    <2>1. /\ c \in Seq(T) /\ Len(c) = Len(s)
          /\ \A i \in 1..Len(s) : c[i] = s[i]
      BY <1>3, <1>4
    <2> HIDE DEF c
    <2>2. c = s
      BY <2>1
    <2> QED
      BY <2>2 DEF c
  <1> QED
    BY <1>1, <1>2, <1>5 DEF a, b

LEMMA BytesOfMsg ==
    ASSUME NEW m \in Msgs
    PROVE  /\ BytesOf(m) \in Seq(Bytes) /\ Len(BytesOf(m)) \in Nat \ {0}
           /\ Len(BytesOf(m)) = MsgLen[m]
  <1>1. MsgLen[m] \in Nat \ {0}
    BY TcpConnectAssumption DEF Msgs
  <1>2. \A i \in 1..MsgLen[m] : <<m, i>> \in Bytes
    BY DEF Bytes
  <1> QED
    BY <1>1, <1>2 DEF BytesOf

-----------------------------------------------------------------------------
(* What sendinloop does, outcome by outcome.                               *)

\* Behind what waits already, whole or in part to the socket, or not at all.
SentBehind(m) ==
    /\ iswriting \/ readsize(outbuffer_) # 0
    /\ outbuffer_' = Appended(outbuffer_, BytesOf(m))
    /\ events_' = events_ \cup {"write"}
    /\ polled' = (polled \/ ~iswriting)
    /\ UNCHANGED <<sndbuf, aborted>>

SentWhole(m) ==
    /\ readsize(outbuffer_) = 0 /\ Connected
    /\ Len(BytesOf(m)) <= Room
    /\ sndbuf' = sndbuf \o BytesOf(m)
    /\ UNCHANGED <<channelvars, outbuffer_, aborted>>

SentInPart(m) ==
    /\ readsize(outbuffer_) = 0 /\ Connected
    /\ \E n \in 1..(Len(BytesOf(m)) - 1) :
          /\ n <= Room
          /\ sndbuf' = sndbuf \o Take(BytesOf(m), n)
          /\ outbuffer_' = Appended(outbuffer_, Drop(BytesOf(m), n))
    /\ events_' = events_ \cup {"write"} /\ polled' = TRUE
    /\ UNCHANGED aborted

SentOutcome(m) == SentBehind(m) \/ SentWhole(m) \/ SentInPart(m) \/ Abort

TypeInv ==
    /\ TypeOK
    /\ outbuffer_ \in BufferOf(Bytes \cup {Junk})
    /\ sndbuf \in Seq(Bytes)
    /\ peer # "broken" => InRange(outbuffer_)
    /\ Connected => readable(outbuffer_) \in Seq(Bytes)
    /\ inq <= peersent

LEMMA BufferTypes ==
    ASSUME TypeInv
    PROVE  readsize(outbuffer_) \in Nat /\ Room \in Nat /\ Len(sndbuf) \in Nat
  <1>1. readsize(outbuffer_) \in Nat
    BY ReadableIsSeq DEF TypeInv
  <1>2. Room \in Nat /\ Len(sndbuf) \in Nat
    BY TcpConnectAssumption DEF TypeInv, TypeOK, Room
  <1> QED
    BY <1>1, <1>2

LEMMA SendOutcomes ==
    ASSUME TypeInv, NEW m \in Msgs, SendInLoop(m)
    PROVE  handed' = Append(handed, m) /\ SentOutcome(m)
  <1> DEFINE B == BytesOf(m)
             n == Smaller(Room, MsgLen[m])
  <1>1. B \in Seq(Bytes) /\ Len(B) \in Nat \ {0} /\ Len(B) = MsgLen[m]
    BY BytesOfMsg
  <1>2. readsize(outbuffer_) \in Nat /\ Room \in Nat
    BY BufferTypes
  <1>3. events_ \subseteq {"read", "write"} /\ polled \in BOOLEAN
    BY DEF TypeInv, TypeOK
  <1>a. \A e : e \cup {"write"} # {}
    OBVIOUS
  <1>4. CASE iswriting \/ readsize(outbuffer_) # 0
    <2>1. BufferRest(B, 0) /\ sndbuf' = sndbuf
      BY <1>4 DEF SendInLoop
    <2>2. Drop(B, 0) = B /\ 0 < Len(B)
      BY <1>1 DEF Drop
    <2> HIDE DEF B
    <2>3. /\ outbuffer_' = Appended(outbuffer_, B) /\ aborted' = aborted
          /\ IF iswriting THEN UNCHANGED channelvars
                          ELSE UpEvent(events_ \cup {"write"})
      BY <2>1, <2>2 DEF BufferRest
    <2>4. /\ events_' = events_ \cup {"write"}
          /\ polled' = (polled \/ ~iswriting)
      <3>1. CASE iswriting
        <4>1. events_ = events_ \cup {"write"}
          BY <3>1 DEF iswriting
        <4> QED
          BY <2>3, <3>1, <4>1, <1>3 DEF channelvars
      <3>2. CASE ~iswriting
        BY <1>a, <1>3, <2>3, <3>2 DEF UpEvent
      <3> QED
        BY <3>1, <3>2
    <2> QED
      BY <1>4, <2>1, <2>3, <2>4 DEF SendInLoop, SentOutcome, SentBehind, B
  <1>5. CASE ~(iswriting \/ readsize(outbuffer_) # 0) /\ Connected /\ Room > 0
    <2>1. /\ sndbuf' = sndbuf \o Take(B, n) /\ BufferRest(B, n)
          /\ handed' = Append(handed, m)
      BY <1>5 DEF SendInLoop
    <2>2. n \in 1..Len(B) /\ n <= Room
      BY <1>1, <1>2, <1>5 DEF Smaller
    <2>a. ~iswriting /\ readsize(outbuffer_) = 0 /\ Connected
      BY <1>5
    <2>b. n < Len(B) \/ (n = Len(B) /\ Take(B, n) = B)
      BY <1>1, <2>2 DEF Take
    <2> HIDE DEF B, n
    <2>3. CASE n < Len(B)
      <3>1. n \in 1..(Len(B) - 1)
        BY <1>1, <2>2, <2>3
      <3>2. /\ outbuffer_' = Appended(outbuffer_, Drop(B, n))
            /\ UpEvent(events_ \cup {"write"}) /\ UNCHANGED aborted
        BY <2>1, <2>3, <2>a DEF BufferRest
      <3>3. events_' = events_ \cup {"write"} /\ polled' = TRUE
        BY <1>a, <3>2 DEF UpEvent
      <3>4. SentInPart(m)
        BY <2>1, <2>2, <2>a, <3>1, <3>2, <3>3 DEF SentInPart, B
      <3> QED
        BY <2>1, <3>4 DEF SentOutcome
    <2>4. CASE n = Len(B) /\ Take(B, n) = B
      <3>1. UNCHANGED <<channelvars, outbuffer_, aborted>>
        BY <1>1, <2>1, <2>2, <2>4 DEF BufferRest
      <3>2. SentWhole(m)
        BY <2>1, <2>2, <2>4, <2>a, <3>1 DEF SentWhole, B
      <3> QED
        BY <2>1, <3>2 DEF SentOutcome
    <2> QED
      BY <2>b, <2>3, <2>4
  <1>6. CASE ~(iswriting \/ readsize(outbuffer_) # 0) /\ ~(Connected /\ Room > 0)
    BY <1>6 DEF SendInLoop, SentOutcome
  <1> QED
    BY <1>4, <1>5, <1>6

\* sendinloop keeps the types: what SentOutcome changes.
LEMMA SendKeepsTypes ==
    ASSUME TypeInv, NEW m \in Msgs, SendInLoop(m)
    PROVE  /\ events_' \subseteq {"read", "write"} /\ polled' \in BOOLEAN
           /\ aborted' \in BOOLEAN
           /\ handed' \in Seq(Msgs)
           /\ outbuffer_' \in BufferOf(Bytes \cup {Junk})
           /\ sndbuf' \in Seq(Bytes) /\ Len(sndbuf') <= SockSize
           /\ InRange(outbuffer_) => InRange(outbuffer_')
           /\ Connected => readable(outbuffer_') \in Seq(Bytes)
  <1> DEFINE B == BytesOf(m)
             U == Bytes \cup {Junk}
  <1>1. B \in Seq(Bytes) /\ Len(B) \in Nat \ {0}
    BY BytesOfMsg
  <1>2. readsize(outbuffer_) \in Nat /\ Room \in Nat /\ Len(sndbuf) \in Nat
    BY BufferTypes
  <1>3. /\ events_ \subseteq {"read", "write"} /\ polled \in BOOLEAN
        /\ aborted \in BOOLEAN /\ handed \in Seq(Msgs)
        /\ Len(sndbuf) <= SockSize /\ SockSize \in Nat
    BY TcpConnectAssumption DEF TypeInv, TypeOK
  <1>4. /\ outbuffer_ \in BufferOf(U) /\ sndbuf \in Seq(Bytes)
        /\ Connected => InRange(outbuffer_) /\ readable(outbuffer_) \in Seq(Bytes)
    BY DEF TypeInv, Connected
  <1>5. handed' = Append(handed, m) /\ SentOutcome(m)
    BY SendOutcomes
  <1>6. \A s \in Seq(Bytes) : s \in Seq(U)
    OBVIOUS
  <1>a. Junk \in U
    OBVIOUS
  <1> HIDE DEF B, U
  <1>7. handed' \in Seq(Msgs)
    BY <1>3, <1>5
  <1>8. ASSUME NEW s \in Seq(Bytes)
        PROVE  /\ Appended(outbuffer_, s) \in BufferOf(U)
               /\ InRange(outbuffer_) => InRange(Appended(outbuffer_, s))
               /\ Connected => readable(Appended(outbuffer_, s)) \in Seq(Bytes)
    <2>1. s \in Seq(U)
      BY <1>6
    <2>2. /\ Appended(outbuffer_, s) \in BufferOf(U)
          /\ InRange(outbuffer_) =>
                /\ InRange(Appended(outbuffer_, s))
                /\ readable(Appended(outbuffer_, s)) = readable(outbuffer_) \o s
      BY <1>4, <1>a, <2>1, AppendedKeeps
    <2>3. Connected => readable(outbuffer_) \o s \in Seq(Bytes)
      BY <1>4
    <2> QED
      BY <1>4, <2>2, <2>3
  <1>9. CASE SentBehind(m)
    <2>1. /\ outbuffer_' = Appended(outbuffer_, B)
          /\ events_' = events_ \cup {"write"}
          /\ polled' = (polled \/ ~iswriting)
          /\ sndbuf' = sndbuf /\ aborted' = aborted
      BY <1>9 DEF SentBehind, B
    <2>2. events_' \subseteq {"read", "write"} /\ polled' \in BOOLEAN
      BY <1>3, <2>1
    <2> QED
      BY <1>1, <1>3, <1>4, <1>7, <1>8, <2>1, <2>2 DEF U
  <1>10. CASE SentWhole(m)
    <2>1. /\ sndbuf' = sndbuf \o B /\ Len(B) <= Room
          /\ UNCHANGED <<events_, polled, outbuffer_, aborted>>
      BY <1>10 DEF SentWhole, B, channelvars
    <2>2. sndbuf' \in Seq(Bytes) /\ Len(sndbuf') <= SockSize
      BY <1>1, <1>2, <1>3, <1>4, <2>1 DEF Room
    <2> QED
      BY <1>3, <1>4, <1>7, <2>1, <2>2 DEF U
  <1>11. CASE SentInPart(m)
    <2>1. PICK n \in 1..(Len(B) - 1) :
             /\ n <= Room
             /\ sndbuf' = sndbuf \o Take(B, n)
             /\ outbuffer_' = Appended(outbuffer_, Drop(B, n))
      BY <1>11 DEF SentInPart, B
    <2>2. /\ events_' = events_ \cup {"write"} /\ polled' = TRUE
          /\ aborted' = aborted
      BY <1>11 DEF SentInPart
    <2>3. /\ Take(B, n) \in Seq(Bytes) /\ Len(Take(B, n)) = n
          /\ Drop(B, n) \in Seq(Bytes)
      <3>1. B \in Seq(Bytes) /\ n \in 0..Len(B)
        BY <1>1
      <3> QED
        BY <3>1, SplitSeq
    <2>4. sndbuf' \in Seq(Bytes) /\ Len(sndbuf') <= SockSize
      BY <1>2, <1>3, <1>4, <2>1, <2>3 DEF Room
    <2>5. events_' \subseteq {"read", "write"} /\ polled' \in BOOLEAN
      BY <1>3, <2>2
    <2> QED
      BY <1>3, <1>7, <1>8, <2>1, <2>2, <2>3, <2>4, <2>5 DEF U
  <1>12. CASE Abort
    <2>1. aborted' = TRUE /\ UNCHANGED <<events_, polled, outbuffer_, sndbuf>>
      BY <1>12 DEF Abort, channelvars
    <2> QED
      BY <1>3, <1>4, <1>7, <2>1 DEF U
  <1> QED
    BY <1>5, <1>9, <1>10, <1>11, <1>12 DEF SentOutcome

-----------------------------------------------------------------------------
(* The types.                                                              *)

LEMMA BufferFields ==
    ASSUME NEW S, NEW b \in BufferOf(S)
    PROVE  /\ b.data \in Seq(S)
           /\ b.readindex_ \in -1..b.writeindex_
           /\ b.writeindex_ \in 0..Len(b.data)
  BY DEF BufferOf

LEMMA NewBufferIsEmpty ==
    ASSUME NEW S, Junk \in S, NEW n \in Nat
    PROVE  /\ NewBuffer(n) \in BufferOf(S) /\ InRange(NewBuffer(n))
           /\ readsize(NewBuffer(n)) = 0 /\ readable(NewBuffer(n)) = <<>>
  <1> DEFINE d == [k \in 1..n |-> Junk]
  <1>1. d \in Seq(S) /\ Len(d) = n
    OBVIOUS
  <1>2. NewBuffer(n) = [data |-> d, readindex_ |-> 0, writeindex_ |-> 0]
    BY DEF NewBuffer
  <1> HIDE DEF d
  <1>3. NewBuffer(n) \in BufferOf(S) /\ InRange(NewBuffer(n))
    BY <1>1, <1>2 DEF BufferOf, InRange
  <1>4. readsize(NewBuffer(n)) = 0
    BY <1>2 DEF readsize
  <1>5. readable(NewBuffer(n)) = <<>>
    <2>1. /\ readable(NewBuffer(n)) \in Seq(S)
          /\ Len(readable(NewBuffer(n))) = 0
      BY <1>3, <1>4, ReadableIsSeq
    <2> QED
      BY <2>1
  <1> QED
    BY <1>3, <1>4, <1>5

LEMMA InitTypes ==
    Init => TypeInv
  <1> SUFFICES ASSUME Init PROVE TypeInv
    OBVIOUS
  <1> DEFINE U == Bytes \cup {Junk}
  <1>1. /\ outbuffer_ \in BufferOf(U) /\ InRange(outbuffer_)
        /\ readable(outbuffer_) = <<>>
    BY TcpConnectAssumption, NewBufferIsEmpty DEF Init
  <1>2. /\ outbuffer_.data \in Seq(U)
        /\ outbuffer_.readindex_ \in -1..outbuffer_.writeindex_
        /\ outbuffer_.writeindex_ \in 0..Len(outbuffer_.data)
    BY <1>1, BufferFields
  <1>3. /\ callerpc \in [Callers -> {"out", "shutdown"}]
        /\ sender \in [Msgs -> Callers]
    BY DEF Init, Callers
  <1>4. sndbuf \in Seq(U) /\ sndbuf \in Seq(Bytes) /\ Len(sndbuf) <= SockSize
    BY TcpConnectAssumption DEF Init
  <1>5. /\ queue \in Seq(Functors) /\ received \in Seq(Bytes)
        /\ handed \in Seq(Msgs)
        /\ created \in 0..MaxMsgs /\ inq \in 0..MaxIn /\ peersent \in 0..MaxIn
    BY TcpConnectAssumption DEF Init
  <1>6. TypeOK
    BY <1>2, <1>3, <1>4, <1>5 DEF TypeOK, Init
  <1> QED
    BY <1>1, <1>4, <1>6 DEF TypeInv, Init

\* A functor of the queue is a send of a message, or a shutdown.
LEMMA FunctorTypes ==
    ASSUME TypeInv
    PROVE  /\ \A i \in 1..Len(queue) :
                 /\ queue[i].op \in {"send", "shutdown"}
                 /\ queue[i].op = "send" => queue[i].msg \in Msgs
           /\ queue # <<>> =>
                 /\ Head(queue) = queue[1] /\ 1 \in 1..Len(queue)
                 /\ Tail(queue) \in Seq(Functors)
                 /\ Len(Tail(queue)) = Len(queue) - 1
                 /\ \A i \in 1..(Len(queue) - 1) : Tail(queue)[i] = queue[i + 1]
  <1>1. queue \in Seq(Functors)
    BY DEF TypeInv, TypeOK
  <1>2. \A f \in Functors : /\ f.op \in {"send", "shutdown"}
                            /\ f.op = "send" => f.msg \in Msgs
    BY DEF Functors
  <1>3. \A i \in 1..Len(queue) : queue[i] \in Functors
    BY <1>1
  <1>4. queue # <<>> =>
           /\ Head(queue) = queue[1] /\ 1 \in 1..Len(queue)
           /\ Tail(queue) \in Seq(Functors)
           /\ Len(Tail(queue)) = Len(queue) - 1
           /\ \A i \in 1..(Len(queue) - 1) : Tail(queue)[i] = queue[i + 1]
    BY <1>1
  <1> QED
    BY <1>2, <1>3, <1>4

\* Steps that leave the buffers alone need only the types of the rest.
LEMMA TypesKept ==
    ASSUME TypeInv, UNCHANGED <<outbuffer_, sndbuf>>,
           peer' \in {"open", "fin", "reset", "broken"},
           Connected' => Connected, peer' # "broken" => peer # "broken",
           inq' <= peersent', TypeOK'
    PROVE  TypeInv'
  BY DEF TypeInv

LEMMA NextTypes ==
    TypeInv /\ [Next]_vars => TypeInv'
  <1> SUFFICES ASSUME TypeInv, [Next]_vars PROVE TypeInv'
    OBVIOUS
  <1> USE DEF channelvars, peervars, callvars, connectionvars
  <1> DEFINE U == Bytes \cup {Junk}
  <1>1. TypeOK
    BY DEF TypeInv
  <1>a. inq <= peersent /\ inq \in Nat /\ peersent \in Nat
    BY DEF TypeInv, TypeOK
  <1>2. MaxMsgs \in Nat /\ MaxIn \in Nat /\ SockSize \in Nat /\ Loop \in Callers
    BY TcpConnectAssumption DEF Callers
  <1>3. ASSUME NEW t \in Callers, Send(t) PROVE TypeInv'
    <2>1. /\ created + 1 \in Msgs /\ created' = created + 1
          /\ created' \in 0..MaxMsgs
          /\ sender' = [sender EXCEPT ![created + 1] = t]
          /\ UNCHANGED <<state_, callerpc, revents_, looppc, closed, inq,
                         rdshut, peer, peersent, received>>
      BY <1>1, <1>2, <1>3 DEF Send, TypeOK, Msgs
    <2>2. sender' \in [Msgs -> Callers]
      BY <1>1, <2>1 DEF TypeOK
    <2>3. CASE t = Loop
      <3>1. SendInLoop(created + 1) /\ queue' = queue
        BY <1>3, <2>3 DEF Send
      <3>2. /\ events_' \subseteq {"read", "write"} /\ polled' \in BOOLEAN
            /\ aborted' \in BOOLEAN
            /\ handed' \in Seq(Msgs)
            /\ outbuffer_' \in BufferOf(U)
            /\ sndbuf' \in Seq(Bytes) /\ Len(sndbuf') <= SockSize
            /\ InRange(outbuffer_) => InRange(outbuffer_')
            /\ Connected => readable(outbuffer_') \in Seq(Bytes)
        BY <2>1, <3>1, SendKeepsTypes
      <3>3. /\ outbuffer_'.data \in Seq(U)
            /\ outbuffer_'.readindex_ \in -1..outbuffer_'.writeindex_
            /\ outbuffer_'.writeindex_ \in 0..Len(outbuffer_'.data)
        BY <3>2, BufferFields
      <3>4. sndbuf' \in Seq(U)
        BY <3>2
      <3>5. TypeOK'
        BY <1>1, <2>1, <2>2, <3>1, <3>2, <3>3, <3>4 DEF TypeOK
      <3> QED
        BY <1>a, <2>1, <3>2, <3>5 DEF TypeInv, Connected
    <2>4. CASE t # Loop
      <3>1. /\ queue' = Append(queue, [op |-> "send", msg |-> created + 1])
            /\ UNCHANGED <<channelvars, outbuffer_, sndbuf, aborted, handed>>
        BY <1>3, <2>4 DEF Send
      <3>2. [op |-> "send", msg |-> created + 1] \in Functors
        BY <2>1 DEF Functors
      <3>3. queue' \in Seq(Functors)
        BY <1>1, <3>1, <3>2 DEF TypeOK
      <3>4. TypeOK'
        BY <1>1, <2>1, <2>2, <3>1, <3>3 DEF TypeOK
      <3> QED
        BY <2>1, <3>1, <3>4, <1>a, TypesKept DEF TypeOK, Connected
    <2> QED
      BY <2>3, <2>4
  <1>4. ASSUME NEW t \in Callers, TestConnected(t) PROVE TypeInv'
    <2>1. TypeOK'
      BY <1>1, <1>4 DEF TestConnected, TypeOK
    <2> QED
      BY <1>1, <1>4, <2>1, <1>a, TypesKept DEF TestConnected, TypeOK, Connected
  <1>5. ASSUME NEW t \in Callers, Shutdown(t) PROVE TypeInv'
    <2>1. callerpc' \in [Callers -> {"out", "shutdown"}]
      BY <1>1, <1>5 DEF Shutdown, TypeOK
    <2>2. queue' \in Seq(Functors) /\ rdshut' \in BOOLEAN
      <3>1. [op |-> "shutdown"] \in Functors
        BY DEF Functors
      <3>2. CASE t = Loop
        BY <1>1, <1>5, <3>2 DEF Shutdown, ShutdownInLoop, TypeOK
      <3>3. CASE t # Loop
        <4>1. queue' = Append(queue, [op |-> "shutdown"]) /\ rdshut' = rdshut
          BY <1>5, <3>3 DEF Shutdown
        <4> QED
          BY <1>1, <3>1, <4>1 DEF TypeOK
      <3> QED
        BY <3>2, <3>3
    <2>3. TypeOK'
      BY <1>1, <1>5, <2>1, <2>2 DEF Shutdown, TypeOK
    <2> QED
      BY <1>1, <1>5, <2>3, <1>a, TypesKept DEF Shutdown, TypeOK, Connected
  <1>6. ASSUME Establish PROVE TypeInv'
    <2>1. events_' \subseteq {"read", "write"} /\ polled' \in BOOLEAN
      BY <1>1, <1>6 DEF Establish, UpEvent, TypeOK
    <2>2. TypeOK'
      BY <1>1, <1>6, <2>1 DEF Establish, TypeOK
    <2> QED
      BY <1>1, <1>6, <2>2, <1>a, TypesKept DEF Establish, TypeOK, Connected
  <1>7. ASSUME RunFunctor PROVE TypeInv'
    <2>1. /\ queue # <<>> /\ queue' = Tail(queue)
          /\ UNCHANGED <<state_, callerpc, created, sender, revents_, looppc,
                         closed, inq, peer, peersent, received>>
      BY <1>7 DEF RunFunctor
    <2>2. queue' \in Seq(Functors)
      BY <2>1, FunctorTypes
    <2>3. CASE Head(queue).op = "send"
      <3>1. SendInLoop(Head(queue).msg) /\ rdshut' = rdshut
        BY <1>7, <2>3 DEF RunFunctor
      <3>2. Head(queue).msg \in Msgs
        BY <2>1, <2>3, FunctorTypes
      <3>3. /\ events_' \subseteq {"read", "write"} /\ polled' \in BOOLEAN
            /\ aborted' \in BOOLEAN
            /\ handed' \in Seq(Msgs)
            /\ outbuffer_' \in BufferOf(U)
            /\ sndbuf' \in Seq(Bytes) /\ Len(sndbuf') <= SockSize
            /\ InRange(outbuffer_) => InRange(outbuffer_')
            /\ Connected => readable(outbuffer_') \in Seq(Bytes)
        BY <3>1, <3>2, SendKeepsTypes
      <3>4. /\ outbuffer_'.data \in Seq(U)
            /\ outbuffer_'.readindex_ \in -1..outbuffer_'.writeindex_
            /\ outbuffer_'.writeindex_ \in 0..Len(outbuffer_'.data)
        BY <3>3, BufferFields
      <3>5. sndbuf' \in Seq(U)
        BY <3>3
      <3>6. TypeOK'
        BY <1>1, <2>1, <2>2, <3>1, <3>3, <3>4, <3>5 DEF TypeOK
      <3> QED
        BY <1>a, <2>1, <3>3, <3>6 DEF TypeInv, Connected
    <2>4. CASE Head(queue).op # "send"
      <3>1. /\ ShutdownInLoop
            /\ UNCHANGED <<channelvars, outbuffer_, sndbuf, aborted, handed>>
        BY <1>7, <2>4 DEF RunFunctor
      <3>2. rdshut' \in BOOLEAN
        BY <1>1, <3>1 DEF ShutdownInLoop, TypeOK
      <3>3. TypeOK'
        BY <1>1, <2>1, <2>2, <3>1, <3>2 DEF TypeOK
      <3> QED
        BY <1>1, <2>1, <3>1, <3>3, <1>a, TypesKept DEF TypeOK, Connected
    <2> QED
      BY <2>3, <2>4
  <1>8. ASSUME Poll PROVE TypeInv'
    <2>1. revents_' \subseteq {"in", "out", "hup"}
      BY <1>8 DEF Poll, Reported
    <2>2. TypeOK'
      BY <1>1, <1>8, <2>1 DEF Poll, TypeOK
    <2> QED
      BY <1>1, <1>8, <2>2, <1>a, TypesKept DEF Poll, TypeOK, Connected
  <1>9. ASSUME HandleRead PROVE TypeInv'
    <2>1. /\ events_' \subseteq {"read", "write"} /\ polled' \in BOOLEAN
          /\ closed' \in BOOLEAN /\ inq' \in {0, inq}
          /\ looppc' \in {"message", "write"}
          /\ peer' = peer \/ (peer = "reset" /\ peer' = "broken")
      <3>1. CASE ReadMessage
        BY <1>1, <3>1 DEF ReadMessage, TypeOK
      <3>2. CASE ReadEnd
        BY <1>1, <3>2 DEF ReadEnd, UpEvent, TypeOK
      <3>3. CASE ReadError
        BY <1>1, <3>3 DEF ReadError, TypeOK
      <3>4. CASE looppc' = "write" /\ UNCHANGED <<channelvars, closed, inq, peer>>
        BY <1>1, <3>4 DEF TypeOK
      <3> QED
        BY <1>9, <3>1, <3>2, <3>3, <3>4 DEF HandleRead
    <2>a. inq' \in 0..MaxIn /\ inq' <= peersent'
      BY <1>1, <1>2, <1>9, <1>a, <2>1 DEF HandleRead, TypeOK
    <2>2. peer' \in {"open", "fin", "reset", "broken"}
      BY <1>1, <2>1 DEF TypeOK
    <2>3. TypeOK'
      BY <1>1, <1>9, <2>1, <2>2, <2>a DEF HandleRead, TypeOK
    <2>4. (Connected' => Connected) /\ (peer' # "broken" => peer # "broken")
      BY <2>1 DEF Connected
    <2> QED
      BY <1>9, <2>2, <2>3, <2>4, <2>a, TypesKept DEF HandleRead
  <1>10. ASSUME MessageDone PROVE TypeInv'
    <2>1. TypeOK'
      BY <1>1, <1>10 DEF MessageDone, TypeOK
    <2> QED
      BY <1>1, <1>10, <2>1, <1>a, TypesKept DEF MessageDone, TypeOK, Connected
  <1>11. ASSUME HandleWrite PROVE TypeInv'
    <2>a. /\ readsize(outbuffer_) \in Nat /\ Room \in Nat /\ Len(sndbuf) \in Nat
          /\ Junk \in U
      BY BufferTypes
    <2>b. /\ looppc' = "idle" /\ revents_' = {}
          /\ UNCHANGED <<callvars, closed, inq, rdshut, peervars>>
      BY <1>11 DEF HandleWrite
    <2>1. CASE /\ "out" \notin revents_
               /\ UNCHANGED <<channelvars, outbuffer_, aborted, sndbuf, peer>>
      <3>1. TypeOK'
        BY <1>1, <2>1, <2>b DEF TypeOK
      <3> QED
        BY <1>1, <1>a, <2>1, <2>b, <3>1, TypesKept DEF TypeOK, Connected
    <2>2. CASE Connected /\ WriteOut /\ UNCHANGED <<aborted, peer>>
      <3> DEFINE n == Smaller(Room, readsize(outbuffer_))
                 r == readable(outbuffer_)
      <3>1. /\ n \in 0..readsize(outbuffer_) /\ n <= Room
            /\ n \in -1..readsize(outbuffer_)
        BY <2>a DEF Smaller
      <3>2. /\ sndbuf' = sndbuf \o Take(r, n)
            /\ outbuffer_' = Written(outbuffer_, n)
            /\ events_' \subseteq {"read", "write"} /\ polled' \in BOOLEAN
        BY <1>1, <2>2 DEF WriteOut, UpEvent, TypeOK
      <3>3. /\ outbuffer_ \in BufferOf(U) /\ InRange(outbuffer_)
            /\ r \in Seq(Bytes) /\ sndbuf \in Seq(Bytes)
            /\ peer' = peer /\ (Connected' <=> Connected)
        BY <2>2 DEF TypeInv, Connected
      <3>4. Len(r) = readsize(outbuffer_)
        BY <2>a, <3>3, ReadableIsSeq
      <3> HIDE DEF n, r, U
      <3>5. /\ Take(r, n) \in Seq(Bytes) /\ Len(Take(r, n)) = n
            /\ Drop(r, n) \in Seq(Bytes)
        <4>1. n \in 0..Len(r)
          BY <3>1, <3>4
        <4> QED
          BY <3>3, <4>1, SplitSeq
      <3>6. /\ outbuffer_' \in BufferOf(U) /\ InRange(outbuffer_')
            /\ readable(outbuffer_') = Drop(r, n)
        BY <2>a, <3>1, <3>2, <3>3, WrittenKeeps DEF r
      <3>7. sndbuf' \in Seq(Bytes) /\ Len(sndbuf') <= SockSize
        BY <1>2, <2>a, <3>1, <3>2, <3>3, <3>5 DEF Room
      <3>8. sndbuf' \in Seq(U)
        BY <3>7 DEF U
      <3>9. /\ outbuffer_'.data \in Seq(U)
            /\ outbuffer_'.readindex_ \in -1..outbuffer_'.writeindex_
            /\ outbuffer_'.writeindex_ \in 0..Len(outbuffer_'.data)
        BY <3>6, BufferFields
      <3>10. TypeOK'
        BY <1>1, <2>2, <2>b, <3>2, <3>7, <3>8, <3>9 DEF TypeOK, U
      <3> QED
        BY <1>a, <2>b, <3>3, <3>5, <3>6, <3>7, <3>10 DEF TypeInv, U
    <2>3. CASE /\ peer = "reset" /\ peer' = "broken"
               /\ outbuffer_' = Written(outbuffer_, -1)
               /\ UNCHANGED <<channelvars, aborted, sndbuf>>
      <3>1. outbuffer_ \in BufferOf(U) /\ InRange(outbuffer_)
        BY <2>3 DEF TypeInv
      <3>2. -1 \in -1..readsize(outbuffer_)
        BY <2>a
      <3> HIDE DEF U
      <3>3. outbuffer_' \in BufferOf(U)
        BY <2>3, <2>a, <3>1, <3>2, WrittenKeeps
      <3>4. /\ outbuffer_'.data \in Seq(U)
            /\ outbuffer_'.readindex_ \in -1..outbuffer_'.writeindex_
            /\ outbuffer_'.writeindex_ \in 0..Len(outbuffer_'.data)
        BY <3>3, BufferFields
      <3>5. TypeOK'
        BY <1>1, <2>3, <2>b, <3>4 DEF TypeOK, U
      <3> QED
        BY <1>a, <2>3, <2>b, <3>3, <3>5 DEF TypeInv, Connected, U
    <2>4. CASE Abort /\ UNCHANGED peer
      <3>1. TypeOK'
        BY <1>1, <2>4, <2>b DEF Abort, TypeOK
      <3> QED
        BY <1>1, <1>a, <2>4, <2>b, <3>1, TypesKept DEF Abort, TypeOK, Connected
    <2> QED
      BY <1>11, <2>1, <2>2, <2>3, <2>4 DEF HandleWrite
  <1>12. ASSUME PeerSend PROVE TypeInv'
    <2>a. /\ peersent' \in 0..MaxIn /\ inq' \in 0..MaxIn
          /\ inq' <= peersent'
      BY <1>1, <1>2, <1>12, <1>a DEF PeerSend, TypeOK
    <2>1. TypeOK'
      BY <1>1, <1>12, <2>a DEF PeerSend, TypeOK
    <2> QED
      BY <1>1, <1>12, <2>1, <2>a, TypesKept DEF PeerSend, TypeOK, Connected
  <1>13. ASSUME PeerRead PROVE TypeInv'
    <2>1. /\ sndbuf \in Seq(Bytes) /\ sndbuf # <<>> /\ received \in Seq(Bytes)
          /\ Len(sndbuf) <= SockSize
      BY <1>1, <1>13 DEF PeerRead, TypeInv, TypeOK
    <2>2. /\ received' \in Seq(Bytes) /\ sndbuf' \in Seq(Bytes)
          /\ sndbuf' \in Seq(U) /\ Len(sndbuf') <= SockSize
      <3>1. /\ Head(sndbuf) \in Bytes /\ Tail(sndbuf) \in Seq(Bytes)
            /\ Tail(sndbuf) \in Seq(U) /\ Len(Tail(sndbuf)) <= SockSize
        BY <1>2, <2>1
      <3> QED
        BY <1>13, <2>1, <3>1 DEF PeerRead
    <2>3. TypeOK'
      BY <1>1, <1>13, <2>2 DEF PeerRead, TypeOK
    <2> QED
      BY <1>13, <2>2, <2>3 DEF PeerRead, TypeInv, Connected
  <1>14. ASSUME PeerClose PROVE TypeInv'
    <2>1. TypeOK'
      BY <1>1, <1>14 DEF PeerClose, TypeOK
    <2> QED
      BY <1>1, <1>14, <2>1, <1>a, TypesKept DEF PeerClose, TypeOK, Connected
  <1>15. ASSUME PeerReset PROVE TypeInv'
    <2>1. sndbuf' \in Seq(Bytes) /\ sndbuf' \in Seq(U) /\ Len(sndbuf') <= SockSize
      BY <1>2, <1>15 DEF PeerReset
    <2>2. TypeOK'
      BY <1>1, <1>15, <2>1 DEF PeerReset, TypeOK
    <2> QED
      BY <1>15, <2>1, <2>2 DEF PeerReset, TypeInv, Connected
  <1>16. CASE UNCHANGED vars
    <2>1. TypeOK'
      BY <1>1, <1>16 DEF vars, TypeOK
    <2> QED
      BY <1>1, <1>16, <2>1, <1>a, TypesKept DEF vars, TypeOK, Connected
  <1> QED
    BY <1>3, <1>4, <1>5, <1>6, <1>7, <1>8, <1>9, <1>10, <1>11, <1>12, <1>13,
       <1>14, <1>15, <1>16 DEF Next, LoopStep

\* Every variable keeps to its values: the indices of outbuffer_ to its vector,
\* what the socket holds to its size (TcpConnect.cc, buffer.cc).
THEOREM TypeCorrect == Spec => []TypeOK
  <1>1. TypeInv => TypeOK
    BY DEF TypeInv
  <1> QED
    BY <1>1, InitTypes, NextTypes, PTL DEF Spec
-----------------------------------------------------------------------------
(* The interest in writing.                                                *)

\* A connection that is not established has nothing to write; from then on
\* epoll watches the channel's input; and while an event is handled, a channel
\* that was reported writable asks for it still, as only handlewrite takes the
\* interest away.
WatchInv ==
    /\ looppc = "new" => events_ = {} /\ ~closed /\ readsize(outbuffer_) = 0
    /\ looppc # "new" /\ ~closed => polled /\ "read" \in events_
    /\ looppc \in {"read", "message", "write"} /\ "out" \in revents_ /\ ~closed
          => iswriting
    /\ OutputIsWatched

LEMMA AppendedSize ==
    ASSUME TypeInv, NEW s \in Seq(Bytes)
    PROVE  /\ readsize(Appended(outbuffer_, s)) = readsize(outbuffer_) + Len(s)
           /\ InRange(outbuffer_) =>
                 readable(Appended(outbuffer_, s)) = readable(outbuffer_) \o s
  <1> DEFINE U == Bytes \cup {Junk}
  <1>1. outbuffer_ \in BufferOf(U) /\ s \in Seq(U) /\ Junk \in U
    BY DEF TypeInv
  <1> HIDE DEF U
  <1> QED
    BY <1>1, AppendedKeeps

LEMMA SendKeepsWatch ==
    ASSUME TypeInv, WatchInv, looppc # "new",
           UNCHANGED <<looppc, closed, revents_>>,
           NEW m \in Msgs, SendInLoop(m)
    PROVE  WatchInv'
  <1> DEFINE B == BytesOf(m)
             k == readsize(outbuffer_)
  <1>1. B \in Seq(Bytes) /\ Len(B) \in Nat \ {0} /\ k \in Nat
    BY BytesOfMsg, BufferTypes
  <1>2. /\ ~closed => polled /\ "read" \in events_
        /\ looppc \in {"read", "message", "write"} /\ "out" \in revents_ /\ ~closed
              => "write" \in events_
        /\ k # 0 /\ ~closed => "write" \in events_ /\ polled
        /\ "write" \in events_ => k # 0
        /\ polled \in BOOLEAN
    BY DEF WatchInv, OutputIsWatched, iswriting, TypeInv, TypeOK
  <1> HIDE DEF B, k
  <1>3. SUFFICES /\ ~closed => polled' /\ "read" \in events_'
                 /\ looppc \in {"read", "message", "write"} /\ "out" \in revents_
                       /\ ~closed => "write" \in events_'
                 /\ readsize(outbuffer_') # 0 /\ ~closed
                       => "write" \in events_' /\ polled'
                 /\ "write" \in events_' => readsize(outbuffer_') # 0
    BY DEF WatchInv, OutputIsWatched, iswriting
  <1>4. CASE SentBehind(m)
    <2>1. readsize(outbuffer_') = k + Len(B)
      BY <1>1, <1>4, AppendedSize DEF SentBehind, B, k
    <2>2. readsize(outbuffer_') # 0
      BY <1>1, <2>1
    <2>3. events_' = events_ \cup {"write"} /\ polled' = (polled \/ ~iswriting)
      BY <1>4 DEF SentBehind
    <2> QED
      BY <1>2, <2>2, <2>3
  <1>5. CASE SentWhole(m)
    <2>1. UNCHANGED <<events_, polled, outbuffer_>>
      BY <1>5 DEF SentWhole, channelvars
    <2> QED
      BY <1>2, <2>1 DEF k
  <1>6. CASE SentInPart(m)
    <2>1. PICK n \in 1..(Len(B) - 1) :
             outbuffer_' = Appended(outbuffer_, Drop(B, n))
      BY <1>6 DEF SentInPart, B
    <2>2. n \in 0..Len(B) /\ Len(B) - n \in Nat \ {0}
      BY <1>1
    <2>3. Drop(B, n) \in Seq(Bytes) /\ Len(Drop(B, n)) = Len(B) - n
      BY <1>1, <2>2, SplitSeq
    <2>4. readsize(outbuffer_') = k + Len(Drop(B, n))
      BY <2>1, <2>3, AppendedSize DEF k
    <2>5. readsize(outbuffer_') # 0
      BY <1>1, <2>2, <2>3, <2>4
    <2>6. events_' = events_ \cup {"write"} /\ polled' = TRUE
      BY <1>6 DEF SentInPart
    <2> QED
      BY <1>2, <2>5, <2>6
  <1>7. CASE Abort
    <2>1. UNCHANGED <<events_, polled, outbuffer_>>
      BY <1>7 DEF Abort, channelvars
    <2> QED
      BY <1>2, <2>1 DEF k
  <1> QED
    BY <1>4, <1>5, <1>6, <1>7, SendOutcomes DEF SentOutcome

\* Steps that leave the channel, the buffer and the handling of events alone.
LEMMA WatchKept ==
    ASSUME WatchInv,
           UNCHANGED <<events_, polled, outbuffer_, revents_, looppc, closed>>
    PROVE  WatchInv'
  BY DEF WatchInv, OutputIsWatched, iswriting

LEMMA NextWatch ==
    TypeInv /\ WatchInv /\ [Next]_vars => WatchInv'
  <1> SUFFICES ASSUME TypeInv, WatchInv, [Next]_vars PROVE WatchInv'
    OBVIOUS
  <1> USE DEF channelvars, peervars, callvars, connectionvars
  <1>1. TypeOK
    BY DEF TypeInv
  <1>3. ASSUME NEW t \in Callers, Send(t) PROVE WatchInv'
    <2>1. /\ created + 1 \in Msgs /\ UNCHANGED <<looppc, closed, revents_>>
          /\ looppc # "new"
      BY <1>1, <1>3, TcpConnectAssumption DEF Send, InUserCode, TypeOK, Msgs
    <2>2. CASE t = Loop
      <3>1. SendInLoop(created + 1)
        BY <1>3, <2>2 DEF Send
      <3> QED
        BY <2>1, <3>1, SendKeepsWatch
    <2>3. CASE t # Loop
      BY <1>3, <2>3, WatchKept DEF Send
    <2> QED
      BY <2>2, <2>3
  <1>4. ASSUME NEW t \in Callers, TestConnected(t) PROVE WatchInv'
    BY <1>4, WatchKept DEF TestConnected
  <1>5. ASSUME NEW t \in Callers, Shutdown(t) PROVE WatchInv'
    BY <1>5, WatchKept DEF Shutdown
  <1>6. ASSUME Establish PROVE WatchInv'
    BY <1>1, <1>6 DEF Establish, UpEvent, WatchInv, OutputIsWatched, iswriting, TypeOK
  <1>7. ASSUME RunFunctor PROVE WatchInv'
    <2>1. /\ queue # <<>> /\ looppc = "idle" /\ looppc # "new"
          /\ UNCHANGED <<looppc, closed, revents_>>
      BY <1>7 DEF RunFunctor
    <2>2. CASE Head(queue).op = "send"
      <3>1. SendInLoop(Head(queue).msg)
        BY <1>7, <2>2 DEF RunFunctor
      <3>2. Head(queue).msg \in Msgs
        BY <2>1, <2>2, FunctorTypes
      <3> QED
        BY <2>1, <3>1, <3>2, SendKeepsWatch
    <2>3. CASE Head(queue).op # "send"
      BY <1>7, <2>1, <2>3, WatchKept DEF RunFunctor
    <2> QED
      BY <2>2, <2>3
  <1>8. ASSUME Poll PROVE WatchInv'
    <2>1. "out" \in revents_' => iswriting
      BY <1>8 DEF Poll, Reported
    <2> QED
      BY <1>8, <2>1 DEF Poll, WatchInv, OutputIsWatched, iswriting
  <1>9. ASSUME HandleRead PROVE WatchInv'
    <2>1. /\ looppc = "read" /\ looppc' \in {"message", "write"}
          /\ UNCHANGED <<outbuffer_, revents_>>
      BY <1>9 DEF HandleRead, ReadMessage, ReadEnd, ReadError
    <2>2. \/ UNCHANGED <<channelvars, closed>>
          \/ UpEvent({}) /\ closed' = TRUE
      BY <1>9 DEF HandleRead, ReadMessage, ReadEnd, ReadError
    <2>3. CASE UNCHANGED <<channelvars, closed>>
      BY <2>1, <2>3 DEF WatchInv, OutputIsWatched, iswriting
    <2>4. CASE UpEvent({}) /\ closed' = TRUE
      BY <2>1, <2>4 DEF UpEvent, WatchInv, OutputIsWatched, iswriting
    <2> QED
      BY <2>2, <2>3, <2>4
  <1>10. ASSUME MessageDone PROVE WatchInv'
    BY <1>10 DEF MessageDone, WatchInv, OutputIsWatched, iswriting
  <1>11. ASSUME HandleWrite PROVE WatchInv'
    <2> DEFINE k == readsize(outbuffer_)
    <2>a. k \in Nat /\ Room \in Nat
      BY BufferTypes
    <2>b. /\ looppc = "write" /\ looppc' = "idle" /\ revents_' = {}
          /\ closed' = closed
      BY <1>11 DEF HandleWrite
    <2>c. /\ ~closed => polled /\ "read" \in events_
          /\ "out" \in revents_ /\ ~closed => "write" \in events_
          /\ k # 0 /\ ~closed => "write" \in events_ /\ polled
          /\ "write" \in events_ => k # 0
      BY <2>b DEF WatchInv, OutputIsWatched, iswriting
    <2> HIDE DEF k
    <2>d. SUFFICES /\ ~closed => polled' /\ "read" \in events_'
                   /\ readsize(outbuffer_') # 0 /\ ~closed
                         => "write" \in events_' /\ polled'
                   /\ "write" \in events_' => readsize(outbuffer_') # 0
      BY <2>b DEF WatchInv, OutputIsWatched, iswriting
    <2>1. CASE UNCHANGED <<channelvars, outbuffer_>>
      BY <2>1, <2>c DEF k
    <2>2. CASE Connected /\ WriteOut
      <3> DEFINE n == Smaller(Room, k)
      <3>1. n \in 0..k /\ n \in -1..k
        BY <2>a DEF Smaller
      <3>2. /\ outbuffer_' = Written(outbuffer_, n)
            /\ IF n > 0 /\ readsize(outbuffer_') = 0
                 THEN UpEvent(events_ \ {"write"}) ELSE UNCHANGED channelvars
        BY <2>2 DEF WriteOut, k
      <3> HIDE DEF n
      <3>3. readsize(outbuffer_') = k - n
        <4>1. InRange(outbuffer_) /\ outbuffer_ \in BufferOf(Bytes \cup {Junk})
          BY <2>2 DEF TypeInv, Connected
        <4>2. Junk \in Bytes \cup {Junk}
          OBVIOUS
        <4> QED
          BY <3>1, <3>2, <4>1, <4>2, WrittenKeeps DEF k
      <3>4. CASE n > 0 /\ k - n = 0
        <4>1. events_' = events_ \ {"write"}
              /\ polled' = ~(polled /\ events_ \ {"write"} = {})
          BY <3>2, <3>3, <3>4 DEF UpEvent
        <4>2. "read" \in events_ => events_ \ {"write"} # {}
          OBVIOUS
        <4> QED
          BY <2>c, <3>3, <3>4, <4>1, <4>2
      <3>5. CASE ~(n > 0 /\ k - n = 0)
        <4>1. UNCHANGED <<events_, polled>>
          BY <3>2, <3>3, <3>5
        <4>2. k # 0 => k - n # 0
          BY <2>a, <3>1, <3>5
        <4>3. ASSUME k = 0 PROVE k - n = 0
          <5>1. n = 0
            BY <3>1, <4>3
          <5> QED
            BY <4>3, <5>1
        <4> QED
          BY <2>c, <3>3, <4>1, <4>2, <4>3
      <3> QED
        BY <3>4, <3>5
    <2>3. CASE /\ "out" \in revents_ /\ peer = "reset"
               /\ outbuffer_' = Written(outbuffer_, -1)
               /\ UNCHANGED channelvars
      <3>1. InRange(outbuffer_) /\ outbuffer_ \in BufferOf(Bytes \cup {Junk})
        BY <2>3 DEF TypeInv
      <3>2. Junk \in Bytes \cup {Junk} /\ -1 \in -1..k
        BY <2>a
      <3>3. readsize(outbuffer_') = k - (-1)
        BY <2>3, <3>1, <3>2, WrittenKeeps DEF k
      <3>4. readsize(outbuffer_') # 0
        BY <2>a, <3>3
      <3> QED
        BY <2>3, <2>c, <3>4
    <2> QED
      BY <1>11, <2>1, <2>2, <2>3 DEF HandleWrite, Abort
  <1>12. ASSUME PeerSend \/ PeerRead \/ PeerClose \/ PeerReset PROVE WatchInv'
    BY <1>12, WatchKept DEF PeerSend, PeerRead, PeerClose, PeerReset
  <1>16. CASE UNCHANGED vars
    BY <1>16, WatchKept DEF vars
  <1> QED
    BY <1>3, <1>4, <1>5, <1>6, <1>7, <1>8, <1>9, <1>10, <1>11, <1>12,
       <1>16 DEF Next, LoopStep

LEMMA InitWatch ==
    Init => WatchInv
  <1> SUFFICES ASSUME Init PROVE WatchInv
    OBVIOUS
  <1>1. readsize(outbuffer_) = 0
    <2>1. Junk \in {Junk} /\ BufSize \in Nat
      BY TcpConnectAssumption
    <2> QED
      BY <2>1, NewBufferIsEmpty DEF Init
  <1> QED
    BY <1>1 DEF Init, WatchInv, OutputIsWatched, iswriting

\* What is buffered is watched for by epoll until the connection is closed, and
\* a channel that asks for writability has something to write, whichever of
\* sendinloop and handlewrite changed the buffer last.
THEOREM BufferedOutputIsWatched == Spec => []OutputIsWatched
  <1>1. WatchInv => OutputIsWatched
    BY DEF WatchInv
  <1> QED
    BY <1>1, InitTypes, NextTypes, InitWatch, NextWatch, PTL DEF Spec
-----------------------------------------------------------------------------
(* FlattenSeq.                                                             *)

\* Every set of naturals has a least element: the form of induction used below.
LEMMA LeastNatural ==
    ASSUME NEW S, S \subseteq Nat, S # {}
    PROVE  \E x \in S : \A y \in S : x <= y
  <1>1. PICK x \in S : \A y \in S : ~ (<<y, x>> \in OpToRel(<, Nat))
    BY NatLessThanWellFounded, WFMin
  <1>2. \A y \in S : ~(y < x)
    BY <1>1 DEF OpToRel
  <1> QED
    BY <1>2

\* f holds the concatenations of the beginnings of ss, up to the n-th.
Flattens(f, ss, n) ==
    f = [i \in 1..n |-> IF i = 1 THEN ss[i] ELSE f[i - 1] \o ss[i]]

\* Such an f exists, as one for n extends to n + 1.
LEMMA FlattenExtends ==
    ASSUME NEW ss, NEW n \in Nat, NEW f, Flattens(f, ss, n)
    PROVE  \E g : Flattens(g, ss, n + 1)
  <1> DEFINE g == [i \in 1..(n + 1) |-> IF i = 1 THEN ss[i] ELSE f[i - 1] \o ss[i]]
             h == [i \in 1..(n + 1) |-> IF i = 1 THEN ss[i] ELSE g[i - 1] \o ss[i]]
  <1>1. \A i \in 1..n : g[i] = f[i]
    <2> SUFFICES ASSUME NEW i \in 1..n PROVE g[i] = f[i]
      OBVIOUS
    <2>1. i \in 1..(n + 1)
      OBVIOUS
    <2>2. f[i] = IF i = 1 THEN ss[i] ELSE f[i - 1] \o ss[i]
      BY Zenon DEF Flattens
    <2>3. g[i] = IF i = 1 THEN ss[i] ELSE f[i - 1] \o ss[i]
      BY <2>1, Zenon
    <2> QED
      BY <2>2, <2>3, Zenon
  <1>2. \A i \in 1..(n + 1) : i # 1 => i - 1 \in 1..n
    OBVIOUS
  <1>3. \A i \in 1..(n + 1) : g[i] = h[i]
    <2> SUFFICES ASSUME NEW i \in 1..(n + 1) PROVE g[i] = h[i]
      BY Zenon
    <2>1. CASE i = 1
      BY <2>1, Zenon
    <2>2. CASE i # 1
      <3>1. g[i - 1] = f[i - 1]
        BY <1>1, <1>2, <2>2, Zenon
      <3>2. g[i] = f[i - 1] \o ss[i]
        BY <2>2, Zenon
      <3>3. h[i] = g[i - 1] \o ss[i]
        BY <2>2, Zenon
      <3> QED
        BY <3>1, <3>2, <3>3, Zenon
    <2> QED
      BY <2>1, <2>2, Zenon
  <1>4. g = h
    BY <1>3, Zenon
  <1> QED
    BY <1>4, Zenon DEF Flattens

LEMMA FlattenExists ==
    ASSUME NEW ss, NEW n \in Nat
    PROVE  \E f : Flattens(f, ss, n)
  <1> DEFINE Bad == {k \in Nat : ~\E f : Flattens(f, ss, k)}
  <1>2. SUFFICES ASSUME Bad # {} PROVE FALSE
    OBVIOUS
  <1>3. PICK m \in Bad : \A k \in Bad : m <= k
    <2>1. Bad \subseteq Nat
      OBVIOUS
    <2> HIDE DEF Bad
    <2> QED
      BY <1>2, <2>1, LeastNatural
  <1>a. m \in Nat /\ ~\E f : Flattens(f, ss, m)
    OBVIOUS
  <1>b. m # 0
    <2> DEFINE g == [i \in 1..0 |-> {}]
    <2>1. g = [i \in 1..0 |-> IF i = 1 THEN ss[i] ELSE g[i - 1] \o ss[i]]
      <3>1. 1..0 = {}
        OBVIOUS
      <3> QED
        BY <3>1, Zenon
    <2>2. Flattens(g, ss, 0)
      BY <2>1, Zenon DEF Flattens
    <2> QED
      BY <1>a, <2>2
  <1>c. m - 1 \in Nat /\ ~(m <= m - 1) /\ (m - 1) + 1 = m
    BY <1>a, <1>b
  <1>d. m - 1 \notin Bad
    <2> HIDE DEF Bad
    <2> QED
      BY <1>3, <1>c
  <1>e. PICK f : Flattens(f, ss, m - 1)
    BY <1>c, <1>d
  <1>f. \E g : Flattens(g, ss, (m - 1) + 1)
    BY <1>c, <1>e, FlattenExtends
  <1> QED
    BY <1>a, <1>c, <1>f

\* FlattenSeq is the last element of one.
LEMMA FlattenAs ==
    ASSUME NEW ss, Len(ss) \in Nat, Len(ss) # 0
    PROVE  \E f : Flattens(f, ss, Len(ss)) /\ FlattenSeq(ss) = f[Len(ss)]
  <1> DEFINE f == CHOOSE f : f = [i \in 1..Len(ss) |-> IF i = 1 THEN ss[i] ELSE f[i - 1] \o ss[i]]
  <1>1. Flattens(f, ss, Len(ss))
    BY FlattenExists, Zenon DEF Flattens
  <1>3. FlattenSeq(ss) = f[Len(ss)]
    BY DEF FlattenSeq
  <1> QED
    BY <1>1, <1>3, Zenon

\* Two sequences that agree up to n flatten alike up to there.
LEMMA FlattensAgree ==
    ASSUME NEW s, NEW t, NEW m \in Nat, NEW n \in Nat, m <= n,
           NEW f, NEW g, Flattens(f, s, m), Flattens(g, t, n),
           \A i \in 1..m : s[i] = t[i]
    PROVE  \A i \in 1..m : f[i] = g[i]
  <1> DEFINE Bad == {k \in 1..m : f[k] # g[k]}
  <1>2. SUFFICES ASSUME Bad # {} PROVE FALSE
    OBVIOUS
  <1>3. PICK x \in Bad : \A k \in Bad : x <= k
    <2>1. Bad \subseteq Nat
      OBVIOUS
    <2> HIDE DEF Bad
    <2> QED
      BY <1>2, <2>1, LeastNatural
  <1>a. x \in 1..m /\ x \in 1..n /\ f[x] # g[x]
    OBVIOUS
  <1>b. f[x] = IF x = 1 THEN s[x] ELSE f[x - 1] \o s[x]
    BY <1>a, Zenon DEF Flattens
  <1>c. g[x] = IF x = 1 THEN t[x] ELSE g[x - 1] \o t[x]
    BY <1>a, Zenon DEF Flattens
  <1>d. x # 1
    BY <1>a, <1>b, <1>c
  <1>e. x - 1 \in 1..m /\ ~(x <= x - 1)
    BY <1>a, <1>d
  <1>f. x - 1 \notin Bad
    <2> HIDE DEF Bad
    <2> QED
      BY <1>3, <1>e
  <1>g. f[x - 1] = g[x - 1]
    BY <1>e, <1>f
  <1> QED
    BY <1>a, <1>b, <1>c, <1>d, <1>g, Zenon

\* Another sequence at the end is concatenated to the rest.
LEMMA FlattenAppend ==
    ASSUME NEW S, NEW ss \in Seq(Seq(S)), NEW x \in Seq(S)
    PROVE  FlattenSeq(Append(ss, x)) = FlattenSeq(ss) \o x
  <1> DEFINE tt == Append(ss, x)
             n == Len(ss)
  <1>1. /\ n \in Nat /\ Len(tt) = n + 1 /\ tt[n + 1] = x
        /\ \A i \in 1..n : ss[i] = tt[i]
    OBVIOUS
  <1> HIDE DEF tt, n
  <1>2. PICK g : Flattens(g, tt, n + 1) /\ FlattenSeq(tt) = g[n + 1]
    <2>1. Len(tt) \in Nat /\ Len(tt) # 0
      BY <1>1
    <2> QED
      BY <1>1, <2>1, FlattenAs
  <1>3. n + 1 \in 1..(n + 1)
    BY <1>1
  <1>4. g[n + 1] = IF n + 1 = 1 THEN tt[n + 1] ELSE g[(n + 1) - 1] \o tt[n + 1]
    BY <1>2, <1>3, Zenon DEF Flattens
  <1>5. CASE n = 0
    <2>1. ss = <<>> /\ g[n + 1] = x
      BY <1>1, <1>4, <1>5 DEF n
    <2>2. FlattenSeq(ss) = <<>>
      BY <2>1 DEF FlattenSeq
    <2> QED
      BY <1>2, <2>1, <2>2 DEF tt
  <1>6. CASE n # 0
    <2>1. PICK f : Flattens(f, ss, n) /\ FlattenSeq(ss) = f[n]
      <3>1. Len(ss) \in Nat /\ Len(ss) # 0
        BY <1>1, <1>6 DEF n
      <3> QED
        BY <3>1, FlattenAs DEF n
    <2>2. n \in 1..n /\ (n + 1) - 1 = n /\ n + 1 # 1 /\ n <= n + 1 /\ n + 1 \in Nat
      BY <1>1, <1>6
    <2>3. f[n] = g[n]
      BY <1>1, <1>2, <2>1, <2>2, FlattensAgree
    <2> QED
      BY <1>1, <1>2, <1>4, <2>1, <2>2, <2>3 DEF tt
  <1> QED
    BY <1>5, <1>6
-----------------------------------------------------------------------------
(* The stream.                                                             *)

LEMMA ConcatPrefix ==
    ASSUME NEW T, NEW a \in Seq(T), NEW b \in Seq(T), NEW s, a \o b = s
    PROVE  IsPrefix(a, s)
  <1>1. /\ Len(a) \in Nat /\ Len(s) \in Nat /\ Len(a) <= Len(s)
        /\ s \in Seq(T) /\ \A i \in 1..Len(a) : s[i] = a[i]
    <2> DEFINE c == a \o b
    <2>1. /\ c \in Seq(T) /\ Len(c) = Len(a) + Len(b)
          /\ \A i \in 1..(Len(a) + Len(b)) :
                c[i] = IF i <= Len(a) THEN a[i] ELSE b[i - Len(a)]
      BY ConcatProperties
    <2>2. c = s /\ Len(a) \in Nat /\ Len(b) \in Nat
      OBVIOUS
    <2> HIDE DEF c
    <2> QED
      BY <2>1, <2>2
  <1>2. SubSeq(a, 1, Len(a)) = SubSeq(s, 1, Len(a))
    BY <1>1
  <1> QED
    BY <1>1, <1>2 DEF IsPrefix

\* The stream as the concatenation of all that was handed over.
HandedBytes(h) == [i \in 1..Len(h) |-> BytesOf(h[i])]

LEMMA StreamFlattens ==
    ASSUME handed \in Seq(Msgs)
    PROVE  Stream = FlattenSeq(HandedBytes(handed))
  <1>1. Smaller(Len(handed), Len(handed)) = Len(handed)
    BY DEF Smaller
  <1> QED
    BY <1>1 DEF Stream, StreamOf, HandedBytes

LEMMA StreamGrows ==
    ASSUME handed \in Seq(Msgs), NEW m \in Msgs, handed' = Append(handed, m)
    PROVE  Stream' = Stream \o BytesOf(m)
  <1> DEFINE ss == HandedBytes(handed)
             tt == HandedBytes(handed')
             x == BytesOf(m)
  <1>1. /\ handed' \in Seq(Msgs) /\ Len(handed') = Len(handed) + 1
        /\ Len(handed) \in Nat /\ handed'[Len(handed) + 1] = m
        /\ \A i \in 1..Len(handed) : handed'[i] = handed[i]
    OBVIOUS
  <1>2. \A k \in Msgs : BytesOf(k) \in Seq(Bytes)
    BY BytesOfMsg
  <1>3. /\ ss \in Seq(Seq(Bytes)) /\ Len(ss) = Len(handed)
        /\ \A i \in 1..Len(handed) : ss[i] = BytesOf(handed[i])
    BY <1>2 DEF HandedBytes
  <1>4. /\ tt \in Seq(Seq(Bytes)) /\ Len(tt) = Len(handed) + 1
        /\ \A i \in 1..(Len(handed) + 1) : tt[i] = BytesOf(handed'[i])
    BY <1>1, <1>2 DEF HandedBytes
  <1>5. x \in Seq(Bytes)
    BY <1>2
  <1>a. Stream = FlattenSeq(ss)
    BY StreamFlattens
  <1>b. Stream' = FlattenSeq(tt)
    <2>1. Smaller(Len(handed'), Len(handed')) = Len(handed')
      BY DEF Smaller
    <2> QED
      BY <2>1 DEF Stream, StreamOf, HandedBytes
  <1> HIDE DEF ss, tt
  <1>6. tt = Append(ss, x)
    <2> DEFINE uu == Append(ss, x)
    <2>1. /\ uu \in Seq(Seq(Bytes)) /\ Len(uu) = Len(handed) + 1
          /\ uu[Len(handed) + 1] = x
          /\ \A i \in 1..Len(handed) : uu[i] = ss[i]
      BY <1>1, <1>3, <1>5
    <2> HIDE DEF uu
    <2>2. ASSUME NEW i \in 1..(Len(handed) + 1) PROVE tt[i] = uu[i]
      <3>1. CASE i = Len(handed) + 1
        BY <1>1, <1>4, <2>1, <3>1
      <3>2. CASE i # Len(handed) + 1
        <4>1. i \in 1..Len(handed)
          BY <1>1, <3>2
        <4> QED
          BY <1>1, <1>3, <1>4, <2>1, <4>1
      <3> QED
        BY <3>1, <3>2
    <2>3. tt = uu
      BY <1>1, <1>4, <2>1, <2>2
    <2> QED
      BY <2>3 DEF uu
  <1> HIDE DEF x
  <1>7. FlattenSeq(Append(ss, x)) = FlattenSeq(ss) \o x
    BY <1>3, <1>5, FlattenAppend
  <1> QED
    BY <1>a, <1>b, <1>6, <1>7 DEF x

\* What was handed over went through the socket, waits in outbuffer_, or was
\* lost with the connection; until the connection breaks, what the socket took
\* is the beginning of the stream.
StreamInv ==
    /\ Stream \in Seq(Bytes)
    /\ Connected /\ ~aborted
          => received \o sndbuf \o readable(outbuffer_) = Stream
    /\ Connected => \E rest \in Seq(Bytes) : received \o sndbuf \o rest = Stream
    /\ \E rest \in Seq(Bytes) : received \o rest = Stream

LEMMA StreamKept ==
    ASSUME StreamInv, TypeInv,
           UNCHANGED <<handed, received, sndbuf, outbuffer_>>,
           Connected' => Connected, ~aborted' => ~aborted
    PROVE  StreamInv'
  <1>1. Stream' = Stream
    BY DEF Stream, StreamOf
  <1> QED
    BY <1>1 DEF StreamInv

LEMMA SendKeepsStream ==
    ASSUME TypeInv, StreamInv, ~aborted, UNCHANGED <<received, peer>>,
           NEW m \in Msgs, SendInLoop(m)
    PROVE  StreamInv'
  <1> DEFINE B == BytesOf(m)
             r == readable(outbuffer_)
             q == received \o sndbuf
             s == Stream
  <1>1. handed' = Append(handed, m) /\ SentOutcome(m)
    BY SendOutcomes
  <1>2. /\ B \in Seq(Bytes) /\ Len(B) \in Nat \ {0}
        /\ received \in Seq(Bytes) /\ sndbuf \in Seq(Bytes)
        /\ handed \in Seq(Msgs) /\ s \in Seq(Bytes)
        /\ Connected => r \in Seq(Bytes) /\ InRange(outbuffer_)
    BY BytesOfMsg DEF TypeInv, TypeOK, StreamInv, Connected
  <1>3. Stream' = s \o B
    BY <1>1, <1>2, StreamGrows
  <1>4. (Connected' <=> Connected) /\ received' = received
    BY DEF Connected
  <1>5. q \in Seq(Bytes) /\ s \o B \in Seq(Bytes)
    BY <1>2
  <1>6. /\ Connected => q \o r = s
        /\ Connected => \E rest \in Seq(Bytes) : q \o rest = s
        /\ \E rest \in Seq(Bytes) : received \o rest = s
    BY DEF StreamInv
  <1> HIDE DEF B, r, q, s
  <1>7. \E rest \in Seq(Bytes) : received \o rest = s \o B
    <2>1. PICK u \in Seq(Bytes) : received \o u = s
      BY <1>6
    <2>2. (received \o u) \o B = received \o (u \o B) /\ u \o B \in Seq(Bytes)
      BY <1>2, ConcatAssociative, SMTT(30)
    <2> QED
      BY <2>1, <2>2
  <1>8. ASSUME Connected, ~aborted',
               (received \o sndbuf') \o readable(outbuffer_') = s \o B,
               readable(outbuffer_') \in Seq(Bytes)
        PROVE  StreamInv'
    BY <1>3, <1>4, <1>5, <1>7, <1>8 DEF StreamInv
  <1>9. CASE SentBehind(m) /\ Connected
    <2>1. sndbuf' = sndbuf /\ aborted' = aborted
          /\ outbuffer_' = Appended(outbuffer_, B)
      BY <1>9 DEF SentBehind, B
    <2>2. readable(outbuffer_') = r \o B
      BY <1>2, <1>9, <2>1, AppendedSize DEF r
    <2>a. q \in Seq(Bytes) /\ r \in Seq(Bytes) /\ B \in Seq(Bytes)
      BY <1>2, <1>5, <1>9
    <2>b. (q \o r) \o B = q \o (r \o B)
      BY <2>a, ConcatAssociative
    <2>3. q \o (r \o B) = (q \o r) \o B /\ r \o B \in Seq(Bytes)
      BY <2>a, <2>b
    <2>4. (received \o sndbuf') \o readable(outbuffer_') = s \o B
      BY <1>6, <1>9, <2>1, <2>2, <2>3 DEF q
    <2> QED
      BY <1>8, <1>9, <2>1, <2>2, <2>3, <2>4
  <1>10. CASE (SentWhole(m) \/ SentInPart(m)) /\ Connected
    <2>1. r = <<>> /\ q = s
      <3>1. readsize(outbuffer_) = 0 /\ Junk \in Bytes \cup {Junk}
        BY <1>10 DEF SentWhole, SentInPart
      <3>2. Len(r) = 0
        BY <3>1, ReadableIsSeq DEF TypeInv, r
      <3>3. r = <<>>
        BY <1>2, <1>10, <3>2
      <3> QED
        BY <1>5, <1>6, <1>10, <3>3
    <2>2. CASE SentWhole(m)
      <3>1. sndbuf' = sndbuf \o B /\ outbuffer_' = outbuffer_ /\ aborted' = aborted
        BY <2>2 DEF SentWhole, B
      <3>2. /\ readable(outbuffer_') = <<>>
            /\ readable(outbuffer_') \in Seq(Bytes)
        BY <2>1, <3>1 DEF r
      <3>3. received \o (sndbuf \o B) = q \o B
        BY <1>2, ConcatAssociative, SMTT(30) DEF q
      <3>4. (received \o sndbuf') \o readable(outbuffer_') = s \o B
        BY <1>5, <2>1, <3>1, <3>2, <3>3
      <3> QED
        BY <1>8, <1>10, <3>1, <3>2, <3>4
    <2>3. CASE SentInPart(m)
      <3>1. PICK n \in 1..(Len(B) - 1) :
               /\ sndbuf' = sndbuf \o Take(B, n)
               /\ outbuffer_' = Appended(outbuffer_, Drop(B, n))
        BY <2>3 DEF SentInPart, B
      <3>2. /\ Take(B, n) \in Seq(Bytes) /\ Drop(B, n) \in Seq(Bytes)
            /\ Take(B, n) \o Drop(B, n) = B
        <4>1. n \in 0..Len(B)
          BY <1>2
        <4> QED
          BY <1>2, <4>1, SplitSeq
      <3> DEFINE a == Take(B, n)
                 b == Drop(B, n)
      <3> HIDE DEF a, b
      <3>3. readable(outbuffer_') = r \o b
        BY <1>2, <1>10, <3>1, <3>2, AppendedSize DEF r, b
      <3>4. readable(outbuffer_') = b /\ b \in Seq(Bytes)
        BY <2>1, <3>2, <3>3 DEF b
      <3>a. a \in Seq(Bytes) /\ b \in Seq(Bytes) /\ q \in Seq(Bytes)
        BY <1>5, <3>2 DEF a, b
      <3>5. received \o (sndbuf \o a) = q \o a
        <4>a. received \in Seq(Bytes) /\ sndbuf \in Seq(Bytes)
              /\ a \in Seq(Bytes)
          BY <1>2, <3>a
        <4>1. (received \o sndbuf) \o a = received \o (sndbuf \o a)
          BY <4>a, ConcatAssociative
        <4> QED
          BY <4>1 DEF q
      <3>6. (q \o a) \o b = q \o (a \o b)
        BY <3>a, ConcatAssociative, SMTT(30)
      <3>7. (received \o sndbuf') \o readable(outbuffer_') = s \o B
        BY <2>1, <3>1, <3>2, <3>4, <3>5, <3>6 DEF a, b
      <3>8. ~aborted'
        BY <2>3 DEF SentInPart
      <3> QED
        BY <1>8, <1>10, <3>4, <3>7, <3>8
    <2> QED
      BY <1>10, <2>2, <2>3
  <1>11. CASE Abort
    <2>1. aborted' /\ UNCHANGED <<outbuffer_, sndbuf>>
      BY <1>11 DEF Abort
    <2>2. ASSUME Connected
          PROVE  \E rest \in Seq(Bytes) : q \o rest = s \o B
      <3>1. PICK u \in Seq(Bytes) : q \o u = s
        BY <1>6, <2>2
      <3>a. q \in Seq(Bytes) /\ u \in Seq(Bytes) /\ B \in Seq(Bytes)
        BY <1>2, <1>5
      <3>b. (q \o u) \o B = q \o (u \o B)
        BY <3>a, ConcatAssociative
      <3>2. (q \o u) \o B = q \o (u \o B) /\ u \o B \in Seq(Bytes)
        BY <3>a, <3>b
      <3> QED
        BY <3>1, <3>2
    <2> QED
      BY <1>3, <1>4, <1>5, <1>7, <2>1, <2>2 DEF StreamInv, q
  <1>12. CASE ~Connected
    BY <1>3, <1>4, <1>5, <1>7, <1>12 DEF StreamInv
  <1> QED
    BY <1>1, <1>9, <1>10, <1>11, <1>12 DEF SentOutcome

\* handlewrite moves bytes from the buffer to the socket.
LEMMA WriteOutKeepsStream ==
    ASSUME TypeInv, StreamInv, Connected, WriteOut, ~aborted,
           UNCHANGED <<received, peer, handed, aborted>>
    PROVE  StreamInv'
  <1> DEFINE k == readsize(outbuffer_)
             n == Smaller(Room, k)
             r == readable(outbuffer_)
             q == received \o sndbuf
             a == Take(r, n)
             b == Drop(r, n)
  <1>1. k \in Nat /\ Room \in Nat
    BY BufferTypes
  <1>2. n \in 0..k /\ n \in -1..k
    BY <1>1 DEF Smaller
  <1>3. /\ outbuffer_ \in BufferOf(Bytes \cup {Junk}) /\ InRange(outbuffer_)
        /\ r \in Seq(Bytes) /\ sndbuf \in Seq(Bytes) /\ received \in Seq(Bytes)
        /\ q \in Seq(Bytes) /\ Junk \in Bytes \cup {Junk}
        /\ handed \in Seq(Msgs)
    BY DEF TypeInv, TypeOK, Connected
  <1>4. Len(r) = k
    BY <1>3, ReadableIsSeq
  <1>5. sndbuf' = sndbuf \o a /\ outbuffer_' = Written(outbuffer_, n)
    BY DEF WriteOut
  <1>6. readable(outbuffer_') = b
    <2> HIDE DEF n
    <2> QED
      BY <1>2, <1>3, <1>5, WrittenKeeps
  <1>7. a \in Seq(Bytes) /\ b \in Seq(Bytes) /\ a \o b = r
    <2> HIDE DEF n, r
    <2>1. n \in 0..Len(r)
      BY <1>2, <1>4
    <2> QED
      BY <1>3, <2>1, SplitSeq
  <1>8. Stream' = Stream /\ (Connected' <=> Connected)
    BY DEF Stream, StreamOf, Connected
  <1> HIDE DEF k, n, r, a, b
  <1>9. received \o (sndbuf \o a) = q \o a
    <2>1. (received \o sndbuf) \o a = received \o (sndbuf \o a)
      <3>1. received \in Seq(Bytes) /\ sndbuf \in Seq(Bytes) /\ a \in Seq(Bytes)
        BY <1>3, <1>7
      <3> QED
        BY <3>1, ConcatAssociative
    <2> QED
      BY <2>1
  <1>10. (q \o a) \o b = q \o r
    <2>1. q \in Seq(Bytes) /\ a \in Seq(Bytes) /\ b \in Seq(Bytes)
      BY <1>3, <1>7
    <2> HIDE DEF q
    <2>2. (q \o a) \o b = q \o (a \o b)
      BY <2>1, ConcatAssociative
    <2> QED
      BY <1>7, <2>2
  <1>11. (received \o sndbuf') \o readable(outbuffer_') = Stream
    BY <1>5, <1>6, <1>9, <1>10 DEF StreamInv, r
  <1>12. \E rest \in Seq(Bytes) : (received \o sndbuf') \o rest = Stream
    BY <1>6, <1>7, <1>11
  <1> QED
    BY <1>8, <1>11, <1>12 DEF StreamInv

\* Moving the first element of a sequence to the end of one before it changes
\* nothing in the whole.
LEMMA HeadMoves ==
    ASSUME NEW T, NEW h \in Seq(T), NEW w \in Seq(T), w # <<>>
    PROVE  Append(h, Head(w)) \o Tail(w) = h \o w
  <1> DEFINE a == Append(h, Head(w))
             b == Tail(w)
             u == a \o b
             v == h \o w
  <1>1. /\ Head(w) \in T /\ Head(w) = w[1] /\ Len(h) \in Nat
        /\ Len(w) \in Nat \ {0}
        /\ b \in Seq(T) /\ Len(b) = Len(w) - 1
        /\ \A i \in 1..(Len(w) - 1) : b[i] = w[i + 1]
    OBVIOUS
  <1>2. /\ a \in Seq(T) /\ Len(a) = Len(h) + 1 /\ a[Len(h) + 1] = w[1]
        /\ \A i \in 1..Len(h) : a[i] = h[i]
    BY <1>1
  <1> HIDE DEF a, b
  <1>3. /\ u \in Seq(T) /\ Len(u) = Len(a) + Len(b)
        /\ \A i \in 1..(Len(a) + Len(b)) :
              u[i] = IF i <= Len(a) THEN a[i] ELSE b[i - Len(a)]
    BY <1>1, <1>2, ConcatProperties
  <1>4. /\ v \in Seq(T) /\ Len(v) = Len(h) + Len(w)
        /\ \A i \in 1..(Len(h) + Len(w)) :
              v[i] = IF i <= Len(h) THEN h[i] ELSE w[i - Len(h)]
    BY ConcatProperties
  <1> HIDE DEF u, v
  <1>5. Len(u) = Len(v) /\ Len(u) = Len(h) + Len(w)
    BY <1>1, <1>2, <1>3, <1>4
  <1>6. ASSUME NEW i \in 1..(Len(h) + Len(w)) PROVE u[i] = v[i]
    <2>1. u[i] = IF i <= Len(h) + 1 THEN a[i] ELSE b[i - (Len(h) + 1)]
      BY <1>1, <1>2, <1>3
    <2>2. CASE i <= Len(h)
      <3>1. i \in 1..Len(h) /\ i <= Len(h) + 1
        BY <1>1, <2>2
      <3> QED
        BY <1>2, <1>4, <2>1, <2>2, <3>1
    <2>3. CASE i = Len(h) + 1
      <3>1. ~(i <= Len(h)) /\ i <= Len(h) + 1 /\ i - Len(h) = 1
        BY <1>1, <2>3
      <3> QED
        BY <1>2, <1>4, <2>1, <2>3, <3>1
    <2>4. CASE i > Len(h) + 1
      <3>1. /\ ~(i <= Len(h)) /\ ~(i <= Len(h) + 1)
            /\ i - (Len(h) + 1) \in 1..(Len(w) - 1)
            /\ (i - (Len(h) + 1)) + 1 = i - Len(h)
        BY <1>1, <2>4
      <3> QED
        BY <1>1, <1>4, <2>1, <3>1
    <2> QED
      BY <1>1, <2>2, <2>3, <2>4
  <1>7. u = v
    BY <1>3, <1>4, <1>5, <1>6, SeqEqual
  <1> QED
    BY <1>7 DEF u, v, a, b

LEMMA NextStream ==
    TypeInv /\ StreamInv /\ [Next]_vars => StreamInv'
  <1> SUFFICES ASSUME TypeInv, StreamInv, [Next]_vars PROVE StreamInv'
    OBVIOUS
  <1> USE DEF channelvars, peervars, callvars, connectionvars
  <1>1. TypeOK
    BY DEF TypeInv
  <1>3. ASSUME NEW t \in Callers, Send(t) PROVE StreamInv'
    <2>1. /\ created + 1 \in Msgs /\ UNCHANGED <<peer, received>> /\ ~aborted
      BY <1>1, <1>3, TcpConnectAssumption DEF Send, InUserCode, TypeOK, Msgs
    <2>2. CASE t = Loop
      <3>1. SendInLoop(created + 1)
        BY <1>3, <2>2 DEF Send
      <3> QED
        BY <2>1, <3>1, SendKeepsStream
    <2>3. CASE t # Loop
      BY <1>3, <2>3, StreamKept DEF Send, Connected
    <2> QED
      BY <2>2, <2>3
  <1>4. ASSUME NEW t \in Callers, TestConnected(t) \/ Shutdown(t)
        PROVE  StreamInv'
    BY <1>4, StreamKept DEF TestConnected, Shutdown, Connected
  <1>6. ASSUME Establish \/ Poll \/ MessageDone PROVE StreamInv'
    BY <1>6, StreamKept DEF Establish, Poll, MessageDone, Connected
  <1>7. ASSUME RunFunctor PROVE StreamInv'
    <2>1. queue # <<>> /\ UNCHANGED <<peer, received>> /\ ~aborted
      BY <1>7 DEF RunFunctor, LoopFree
    <2>2. CASE Head(queue).op = "send"
      <3>1. SendInLoop(Head(queue).msg)
        BY <1>7, <2>2 DEF RunFunctor
      <3>2. Head(queue).msg \in Msgs
        BY <2>1, <2>2, FunctorTypes
      <3> QED
        BY <2>1, <3>1, <3>2, SendKeepsStream
    <2>3. CASE Head(queue).op # "send"
      BY <1>7, <2>1, <2>3, StreamKept DEF RunFunctor, Connected
    <2> QED
      BY <2>2, <2>3
  <1>9. ASSUME HandleRead PROVE StreamInv'
    <2>1. UNCHANGED <<handed, received, sndbuf, outbuffer_, aborted>>
      BY <1>9 DEF HandleRead
    <2>2. Connected' => Connected
      BY <1>9 DEF HandleRead, ReadMessage, ReadEnd, ReadError, Connected
    <2> QED
      BY <2>1, <2>2, StreamKept
  <1>11. ASSUME HandleWrite PROVE StreamInv'
    <2>1. /\ UNCHANGED <<handed, received>> /\ ~aborted
      BY <1>11 DEF HandleWrite
    <2>2. CASE Connected /\ WriteOut /\ UNCHANGED <<aborted, peer>>
      BY <2>1, <2>2, WriteOutKeepsStream
    <2>3. CASE peer = "reset" /\ peer' = "broken" /\ UNCHANGED sndbuf
      <3>1. ~Connected' /\ Stream' = Stream
        BY <2>1, <2>3 DEF Connected, Stream, StreamOf
      <3> QED
        BY <2>1, <3>1 DEF StreamInv
    <2>4. CASE UNCHANGED <<outbuffer_, sndbuf, peer>>
      BY <2>1, <2>4, StreamKept DEF Connected
    <2> QED
      BY <1>11, <2>2, <2>3, <2>4 DEF HandleWrite, Abort
  <1>12. ASSUME PeerSend \/ PeerClose PROVE StreamInv'
    BY <1>12, StreamKept DEF PeerSend, PeerClose, Connected
  <1>13. ASSUME PeerRead PROVE StreamInv'
    <2>1. /\ sndbuf \in Seq(Bytes) /\ received \in Seq(Bytes)
          /\ sndbuf # <<>>
          /\ received' = Append(received, Head(sndbuf))
          /\ sndbuf' = Tail(sndbuf)
          /\ UNCHANGED <<handed, outbuffer_, aborted, peer>>
          /\ Connected
      BY <1>1, <1>13 DEF PeerRead, TypeInv, TypeOK
    <2>2. received' \o sndbuf' = received \o sndbuf
      BY <2>1, HeadMoves
    <2>3. Stream' = Stream /\ (Connected' <=> Connected)
      BY <2>1 DEF Stream, StreamOf, Connected
    <2>4. \E rest \in Seq(Bytes) : received' \o rest = Stream
      <3>1. PICK u \in Seq(Bytes) : (received \o sndbuf) \o u = Stream
        BY <2>1 DEF StreamInv
      <3>2. /\ received' \in Seq(Bytes) /\ sndbuf' \in Seq(Bytes)
            /\ u \in Seq(Bytes)
        BY <2>1
      <3>3. (received' \o sndbuf') \o u = received' \o (sndbuf' \o u)
        BY <3>2, ConcatAssociative
      <3>4. sndbuf' \o u \in Seq(Bytes)
        BY <3>2
      <3> QED
        BY <2>2, <3>1, <3>3, <3>4
    <2> QED
      BY <2>1, <2>2, <2>3, <2>4 DEF StreamInv
  <1>15. ASSUME PeerReset PROVE StreamInv'
    <2>1. /\ UNCHANGED <<handed, received>> /\ ~Connected'
      BY <1>15 DEF PeerReset, Connected
    <2>2. Stream' = Stream
      BY <2>1 DEF Stream, StreamOf
    <2> QED
      BY <2>1, <2>2 DEF StreamInv
  <1>16. CASE UNCHANGED vars
    BY <1>16, StreamKept DEF vars, Connected
  <1> QED
    BY <1>3, <1>4, <1>6, <1>7, <1>9, <1>11, <1>12, <1>13, <1>15,
       <1>16 DEF Next, LoopStep

LEMMA InitStream ==
    Init => StreamInv
  <1> SUFFICES ASSUME Init PROVE StreamInv
    OBVIOUS
  <1>1. received = <<>> /\ sndbuf = <<>> /\ handed = <<>>
    BY DEF Init
  <1>2. readable(outbuffer_) = <<>>
    <2>1. Junk \in {Junk} /\ BufSize \in Nat
      BY TcpConnectAssumption
    <2> QED
      BY <2>1, NewBufferIsEmpty DEF Init
  <1>3. Stream = <<>>
    <2>1. HandedBytes(<<>>) = <<>>
      BY DEF HandedBytes
    <2>2. FlattenSeq(<<>>) = <<>>
      BY DEF FlattenSeq
    <2> QED
      BY <1>1, <2>1, <2>2, StreamFlattens
  <1>4. <<>> \o <<>> = <<>> /\ <<>> \in Seq(Bytes)
    OBVIOUS
  <1> QED
    BY <1>1, <1>2, <1>3, <1>4 DEF StreamInv
-----------------------------------------------------------------------------
(* The order of the messages.                                              *)

\* InSendersOrder for n messages of the senders f.
Ordered(s, n, f) ==
    /\ ToSet(s) \ {0} = 1..n
    /\ \A i, j \in 1..Len(s) :
          i < j /\ s[i] # 0 /\ s[j] # 0 /\ f[s[i]] = f[s[j]] => s[i] < s[j]

\* u is s with x put in at p.
Inserted(s, u, p, x) ==
    /\ Len(u) = Len(s) + 1 /\ p \in 1..Len(u) /\ u[p] = x
    /\ \A i \in 1..(p - 1) : u[i] = s[i]
    /\ \A i \in p..Len(s) : u[i + 1] = s[i]

LEMMA InsertedElements ==
    ASSUME NEW s \in Seq(Nat), NEW u \in Seq(Nat), NEW p, NEW x,
           Inserted(s, u, p, x)
    PROVE  /\ ToSet(u) = ToSet(s) \cup {x}
           /\ \A i \in 1..Len(u) : i # p =>
                 \E k \in 1..Len(s) :
                    /\ u[i] = s[k]
                    /\ k = IF i < p THEN i ELSE i - 1
  <1>1. /\ Len(s) \in Nat /\ Len(u) = Len(s) + 1 /\ p \in 1..(Len(s) + 1)
        /\ u[p] = x
        /\ \A i \in 1..(p - 1) : u[i] = s[i]
        /\ \A i \in p..Len(s) : u[i + 1] = s[i]
    BY SMTT(30) DEF Inserted
  <1>2. ASSUME NEW i \in 1..Len(u), i # p
        PROVE  \E k \in 1..Len(s) :
                  u[i] = s[k] /\ k = IF i < p THEN i ELSE i - 1
    <2>1. CASE i < p
      <3>1. i \in 1..(p - 1) /\ i \in 1..Len(s)
        BY <1>1, <2>1
      <3> QED
        BY <1>1, <2>1, <3>1
    <2>2. CASE ~(i < p)
      <3>1. i - 1 \in p..Len(s) /\ i - 1 \in 1..Len(s) /\ (i - 1) + 1 = i
        BY <1>1, <1>2, <2>2
      <3>2. u[i] = s[i - 1]
        BY <1>1, <3>1
      <3> QED
        BY <2>2, <3>1, <3>2
    <2> QED
      BY <2>1, <2>2
  <1>3. ASSUME NEW k \in 1..Len(s) PROVE \E i \in 1..Len(u) : u[i] = s[k]
    <2>1. CASE k < p
      <3>1. k \in 1..(p - 1) /\ k \in 1..Len(u)
        BY <1>1, <2>1
      <3> QED
        BY <1>1, <3>1
    <2>2. CASE ~(k < p)
      <3>1. k \in p..Len(s) /\ k + 1 \in 1..Len(u)
        BY <1>1, <2>2
      <3> QED
        BY <1>1, <3>1
    <2> QED
      BY <2>1, <2>2
  <1>4. ToSet(u) = ToSet(s) \cup {x}
    <2>1. /\ ToSet(u) = {u[i] : i \in 1..Len(u)}
          /\ ToSet(s) = {s[i] : i \in 1..Len(s)}
      BY DEF ToSet
    <2>2. p \in 1..Len(u) /\ x \in ToSet(u)
      BY <1>1, <2>1
    <2>3. ASSUME NEW i \in 1..Len(u) PROVE u[i] \in ToSet(s) \cup {x}
      <3>1. CASE i = p
        BY <1>1, <3>1
      <3>2. CASE i # p
        BY <1>2, <2>1, <3>2
      <3> QED
        BY <3>1, <3>2
    <2>4. ASSUME NEW k \in 1..Len(s) PROVE s[k] \in ToSet(u)
      BY <1>3, <2>1
    <2>5. ToSet(u) \subseteq ToSet(s) \cup {x}
      BY <2>1, <2>3
    <2>6. ToSet(s) \subseteq ToSet(u)
      BY <2>1, <2>4
    <2> QED
      BY <2>2, <2>5, <2>6
  <1> QED
    BY <1>2, <1>4

\* A shutdown in the queue makes no difference.
LEMMA ZeroInserted ==
    ASSUME NEW s \in Seq(Nat), NEW u \in Seq(Nat), NEW p, NEW n \in Nat, NEW f,
           Inserted(s, u, p, 0)
    PROVE  Ordered(s, n, f) <=> Ordered(u, n, f)
  <1>1. /\ ToSet(u) = ToSet(s) \cup {0}
        /\ \A i \in 1..Len(u) : i # p =>
              \E k \in 1..Len(s) :
                 u[i] = s[k] /\ k = IF i < p THEN i ELSE i - 1
    BY InsertedElements
  <1>2. /\ Len(s) \in Nat /\ Len(u) = Len(s) + 1 /\ p \in 1..(Len(s) + 1)
        /\ u[p] = 0
        /\ \A i \in 1..(p - 1) : u[i] = s[i]
        /\ \A i \in p..Len(s) : u[i + 1] = s[i]
    BY DEF Inserted
  <1>3. ToSet(u) \ {0} = ToSet(s) \ {0}
    BY <1>1
  <1>4. ASSUME Ordered(s, n, f) PROVE Ordered(u, n, f)
    <2>1. ASSUME NEW i \in 1..Len(u), NEW j \in 1..Len(u), i < j,
                 u[i] # 0, u[j] # 0, f[u[i]] = f[u[j]]
          PROVE  u[i] < u[j]
      <3>1. i # p /\ j # p
        BY <1>2, <2>1
      <3>2. PICK k \in 1..Len(s) : u[i] = s[k] /\ k = IF i < p THEN i ELSE i - 1
        BY <1>1, <3>1
      <3>3. PICK l \in 1..Len(s) : u[j] = s[l] /\ l = IF j < p THEN j ELSE j - 1
        BY <1>1, <3>1
      <3>4. k < l
        BY <1>2, <2>1, <3>1, <3>2, <3>3, SMTT(30)
      <3> QED
        BY <1>4, <2>1, <3>2, <3>3, <3>4 DEF Ordered
    <2> QED
      BY <1>3, <1>4, <2>1 DEF Ordered
  <1>5. ASSUME Ordered(u, n, f) PROVE Ordered(s, n, f)
    <2> DEFINE at(k) == IF k < p THEN k ELSE k + 1
    <2>1. ASSUME NEW k \in 1..Len(s) PROVE at(k) \in 1..Len(u) /\ u[at(k)] = s[k]
      <3>1. CASE k < p
        <4>1. k \in 1..(p - 1) /\ k \in 1..Len(u)
          BY <1>2, <3>1
        <4> QED
          BY <1>2, <3>1, <4>1
      <3>2. CASE ~(k < p)
        <4>1. k \in p..Len(s) /\ k + 1 \in 1..Len(u)
          BY <1>2, <3>2
        <4> QED
          BY <1>2, <3>2, <4>1
      <3> QED
        BY <3>1, <3>2
    <2>2. ASSUME NEW k \in 1..Len(s), NEW l \in 1..Len(s), k < l,
                 s[k] # 0, s[l] # 0, f[s[k]] = f[s[l]]
          PROVE  s[k] < s[l]
      <3>a. k \in Nat /\ l \in Nat /\ p \in Int /\ k < l
        BY <1>2, <2>2
      <3>1. at(k) < at(l)
        BY <3>a
      <3>2. /\ at(k) \in 1..Len(u) /\ u[at(k)] = s[k]
            /\ at(l) \in 1..Len(u) /\ u[at(l)] = s[l]
        BY <2>1
      <3> HIDE DEF at
      <3> QED
        BY <1>5, <2>2, <3>1, <3>2 DEF Ordered
    <2> QED
      BY <1>3, <1>5, <2>2 DEF Ordered
  <1> QED
    BY <1>4, <1>5

\* A new message goes behind all of its sender's.
LEMMA MessageInserted ==
    ASSUME NEW s \in Seq(Nat), NEW u \in Seq(Nat), NEW p, NEW n \in Nat,
           NEW f, NEW g, Inserted(s, u, p, n + 1), Ordered(s, n, f),
           \A m \in 1..n : g[m] = f[m],
           \A k \in p..Len(s) : s[k] # 0 => f[s[k]] # g[n + 1]
    PROVE  Ordered(u, n + 1, g)
  <1>1. /\ ToSet(u) = ToSet(s) \cup {n + 1}
        /\ \A i \in 1..Len(u) : i # p =>
              \E k \in 1..Len(s) :
                 u[i] = s[k] /\ k = IF i < p THEN i ELSE i - 1
    BY InsertedElements
  <1>2. /\ Len(s) \in Nat /\ Len(u) = Len(s) + 1 /\ p \in 1..(Len(s) + 1)
        /\ u[p] = n + 1
    BY DEF Inserted
  <1>3. \A k \in 1..Len(s) : s[k] # 0 => s[k] \in 1..n
    BY DEF Ordered, ToSet
  <1>4. ToSet(u) \ {0} = 1..(n + 1)
    BY <1>1 DEF Ordered
  <1>5. ASSUME NEW i \in 1..Len(u), NEW j \in 1..Len(u), i < j,
               u[i] # 0, u[j] # 0, g[u[i]] = g[u[j]]
        PROVE  u[i] < u[j]
    <2>1. CASE i # p /\ j # p
      <3>2. PICK k \in 1..Len(s) : u[i] = s[k] /\ k = IF i < p THEN i ELSE i - 1
        BY <1>1, <2>1
      <3>3. PICK l \in 1..Len(s) : u[j] = s[l] /\ l = IF j < p THEN j ELSE j - 1
        BY <1>1, <2>1
      <3>4. k < l
        BY <1>2, <1>5, <2>1, <3>2, <3>3, SMTT(30)
      <3>5. g[s[k]] = f[s[k]] /\ g[s[l]] = f[s[l]]
        BY <1>3, <1>5, <3>2, <3>3
      <3>6. s[k] # 0 /\ s[l] # 0 /\ f[s[k]] = f[s[l]]
        BY <1>5, <3>2, <3>3, <3>5
      <3>7. s[k] < s[l]
        BY <3>4, <3>6 DEF Ordered
      <3> QED
        BY <3>2, <3>3, <3>7
    <2>2. CASE j = p
      <3>1. i # p
        BY <1>2, <1>5, <2>2
      <3>2. PICK k \in 1..Len(s) : u[i] = s[k]
        BY <1>1, <3>1
      <3> QED
        <4>1. s[k] \in 1..n
          BY <1>3, <1>5, <3>2
        <4>2. s[k] < n + 1
          BY <4>1
        <4> QED
          BY <1>2, <2>2, <3>2, <4>2
    <2>3. CASE i = p
      <3>1. j # p
        BY <1>2, <1>5, <2>3
      <3>2. PICK l \in 1..Len(s) : u[j] = s[l] /\ l = IF j < p THEN j ELSE j - 1
        BY <1>1, <3>1
      <3>3. l \in p..Len(s)
        BY <1>2, <1>5, <2>3, <3>2
      <3>4. g[s[l]] = f[s[l]]
        BY <1>3, <1>5, <3>2
      <3>5. FALSE
        BY <1>2, <1>5, <2>3, <3>2, <3>3, <3>4
      <3> QED
        BY <3>5
    <2> QED
      BY <2>1, <2>2, <2>3
  <1> QED
    BY <1>4, <1>5 DEF Ordered

LEMMA AppendInserts ==
    ASSUME NEW s \in Seq(Nat), NEW x \in Nat
    PROVE  Append(s, x) \in Seq(Nat) /\ Inserted(s, Append(s, x), Len(s) + 1, x)
  <1> DEFINE u == Append(s, x)
             p == Len(s) + 1
  <1>1. /\ u \in Seq(Nat) /\ Len(u) = Len(s) + 1 /\ Len(s) \in Nat
        /\ u[Len(s) + 1] = x /\ \A i \in 1..Len(s) : u[i] = s[i]
    OBVIOUS
  <1> HIDE DEF u
  <1>2. /\ p \in 1..Len(u) /\ p - 1 = Len(s) /\ p..Len(s) = {}
    BY <1>1
  <1>3. Inserted(s, u, p, x)
    BY <1>1, <1>2 DEF Inserted
  <1> QED
    BY <1>1, <1>3 DEF u

LEMMA MiddleInserts ==
    ASSUME NEW h \in Seq(Nat), NEW w \in Seq(Nat), NEW x \in Nat
    PROVE  /\ h \o w \in Seq(Nat) /\ Append(h, x) \o w \in Seq(Nat)
           /\ Inserted(h \o w, Append(h, x) \o w, Len(h) + 1, x)
  <1> DEFINE a == Append(h, x)
             s == h \o w
             u == a \o w
             p == Len(h) + 1
  <1>1. /\ a \in Seq(Nat) /\ Len(a) = Len(h) + 1 /\ Len(h) \in Nat
        /\ Len(w) \in Nat
        /\ a[Len(h) + 1] = x /\ \A i \in 1..Len(h) : a[i] = h[i]
    OBVIOUS
  <1> HIDE DEF a
  <1>2. /\ s \in Seq(Nat) /\ Len(s) = Len(h) + Len(w)
        /\ \A i \in 1..(Len(h) + Len(w)) :
              s[i] = IF i <= Len(h) THEN h[i] ELSE w[i - Len(h)]
    BY ConcatProperties
  <1>3. /\ u \in Seq(Nat) /\ Len(u) = Len(a) + Len(w)
        /\ \A i \in 1..(Len(a) + Len(w)) :
              u[i] = IF i <= Len(a) THEN a[i] ELSE w[i - Len(a)]
    BY <1>1, ConcatProperties
  <1> HIDE DEF s, u
  <1>4. /\ Len(u) = Len(s) + 1 /\ p \in 1..Len(u) /\ p - 1 = Len(h)
        /\ Len(u) = (Len(h) + 1) + Len(w)
    BY <1>1, <1>2, <1>3
  <1>5. u[p] = x
    BY <1>1, <1>3, <1>4
  <1>6. ASSUME NEW i \in 1..Len(h) PROVE u[i] = s[i]
    <2>1. i <= Len(h) /\ i <= Len(a) /\ i \in 1..(Len(h) + Len(w))
          /\ i \in 1..(Len(a) + Len(w))
      BY <1>1
    <2> QED
      BY <1>1, <1>2, <1>3, <2>1
  <1>7. ASSUME NEW i \in p..Len(s) PROVE u[i + 1] = s[i]
    <2>1. /\ ~(i <= Len(h)) /\ ~(i + 1 <= Len(a)) /\ i \in 1..(Len(h) + Len(w))
          /\ i + 1 \in 1..(Len(a) + Len(w))
          /\ (i + 1) - Len(a) = i - Len(h)
      BY <1>1, <1>2
    <2> QED
      BY <1>2, <1>3, <2>1
  <1>8. Inserted(s, u, p, x)
    BY <1>4, <1>5, <1>6, <1>7 DEF Inserted
  <1> QED
    BY <1>2, <1>3, <1>8 DEF s, u, a

\* The messages of the functors q.
Wait(f) == IF f.op = "send" THEN f.msg ELSE 0
WaitingOf(q) == [i \in 1..Len(q) |-> Wait(q[i])]

LEMMA WaitingTypes ==
    ASSUME NEW q \in Seq(Functors)
    PROVE  /\ WaitingOf(q) \in Seq(Nat) /\ Len(WaitingOf(q)) = Len(q)
           /\ \A i \in 1..Len(q) : WaitingOf(q)[i] = Wait(q[i])
  <1>1. \A f \in Functors : Wait(f) \in Nat
    BY DEF Functors, Msgs, Wait
  <1>2. \A i \in 1..Len(q) : Wait(q[i]) \in Nat
    BY <1>1
  <1> QED
    BY <1>2 DEF WaitingOf

LEMMA WaitingAppend ==
    ASSUME NEW q \in Seq(Functors), NEW f \in Functors
    PROVE  WaitingOf(Append(q, f)) = Append(WaitingOf(q), Wait(f))
  <1> DEFINE r == Append(q, f)
             a == WaitingOf(r)
             w == WaitingOf(q)
             b == Append(w, Wait(f))
  <1>1. /\ r \in Seq(Functors) /\ Len(r) = Len(q) + 1 /\ Len(q) \in Nat
        /\ r[Len(q) + 1] = f /\ \A i \in 1..Len(q) : r[i] = q[i]
    OBVIOUS
  <1>a. Wait(f) \in Nat
    BY DEF Functors, Msgs, Wait
  <1> HIDE DEF r
  <1>2. /\ a \in Seq(Nat) /\ Len(a) = Len(q) + 1
        /\ \A i \in 1..(Len(q) + 1) : a[i] = Wait(r[i])
    BY <1>1, WaitingTypes
  <1>3. /\ w \in Seq(Nat) /\ Len(w) = Len(q)
        /\ \A i \in 1..Len(q) : w[i] = Wait(q[i])
    BY WaitingTypes
  <1> HIDE DEF a, w
  <1>4. /\ b \in Seq(Nat) /\ Len(b) = Len(q) + 1 /\ b[Len(q) + 1] = Wait(f)
        /\ \A i \in 1..Len(q) : b[i] = w[i]
    BY <1>1, <1>3, <1>a
  <1> HIDE DEF b
  <1>5. ASSUME NEW i \in 1..(Len(q) + 1) PROVE a[i] = b[i]
    <2>1. CASE i = Len(q) + 1
      BY <1>1, <1>2, <1>4, <2>1
    <2>2. CASE i # Len(q) + 1
      <3>1. i \in 1..Len(q)
        BY <1>1, <2>2
      <3> QED
        BY <1>1, <1>2, <1>3, <1>4, <3>1
    <2> QED
      BY <2>1, <2>2
  <1>6. a = b
    BY <1>2, <1>4, <1>5, SeqEqual
  <1> QED
    BY <1>6 DEF a, b, w, r

LEMMA WaitingTail ==
    ASSUME NEW q \in Seq(Functors), q # <<>>
    PROVE  /\ WaitingOf(q) # <<>> /\ Head(WaitingOf(q)) = Wait(Head(q))
           /\ WaitingOf(Tail(q)) = Tail(WaitingOf(q))
  <1> DEFINE r == Tail(q)
             a == WaitingOf(r)
             w == WaitingOf(q)
             b == Tail(w)
  <1>1. /\ r \in Seq(Functors) /\ Len(r) = Len(q) - 1 /\ Len(q) \in Nat \ {0}
        /\ \A i \in 1..(Len(q) - 1) : r[i] = q[i + 1]
        /\ Head(q) = q[1] /\ 1 \in 1..Len(q)
    OBVIOUS
  <1> HIDE DEF r
  <1>2. /\ a \in Seq(Nat) /\ Len(a) = Len(q) - 1
        /\ \A i \in 1..(Len(q) - 1) : a[i] = Wait(r[i])
    BY <1>1, WaitingTypes
  <1>3. /\ w \in Seq(Nat) /\ Len(w) = Len(q)
        /\ \A i \in 1..Len(q) : w[i] = Wait(q[i])
    BY WaitingTypes
  <1> HIDE DEF a, w
  <1>4. /\ w # <<>> /\ Head(w) = w[1]
        /\ b \in Seq(Nat) /\ Len(b) = Len(q) - 1
        /\ \A i \in 1..(Len(q) - 1) : b[i] = w[i + 1]
    BY <1>1, <1>3
  <1> HIDE DEF b
  <1>5. ASSUME NEW i \in 1..(Len(q) - 1) PROVE a[i] = b[i]
    <2>1. i + 1 \in 1..Len(q)
      BY <1>1
    <2> QED
      BY <1>1, <1>2, <1>3, <1>4, <2>1
  <1>6. a = b
    BY <1>2, <1>4, <1>5, SeqEqual
  <1> QED
    BY <1>1, <1>3, <1>4, <1>6 DEF a, b, w, r

\* Only other threads queue their messages.
OrderInv ==
    /\ Ordered(handed \o Waiting, created, sender)
    /\ \A i \in 1..Len(queue) :
          queue[i].op = "send" => sender[queue[i].msg] # Loop

LEMMA OrderTypes ==
    ASSUME TypeInv
    PROVE  /\ handed \in Seq(Nat) /\ Waiting \in Seq(Nat)
           /\ Len(handed) \in Nat /\ Len(Waiting) = Len(queue)
           /\ queue \in Seq(Functors) /\ Waiting = WaitingOf(queue)
           /\ created \in Nat /\ \A f \in Functors : Wait(f) \in Nat
  <1>1. /\ queue \in Seq(Functors) /\ handed \in Seq(Msgs)
        /\ Waiting = WaitingOf(queue) /\ created \in Nat
    BY TcpConnectAssumption
       DEF TypeInv, TypeOK, Waiting, WaitingOf, Wait
  <1>2. handed \in Seq(Nat) /\ Len(handed) \in Nat
    <2>1. Msgs \subseteq Nat
      BY TcpConnectAssumption DEF Msgs
    <2>2. handed \in Seq(Msgs)
      BY <1>1
    <2>3. handed \in Seq(Nat)
      BY <2>1, <2>2, SeqMonotonic
    <2> QED
      BY <2>3
  <1>3. Waiting \in Seq(Nat) /\ Len(Waiting) = Len(queue)
    BY <1>1, WaitingTypes
  <1>4. \A f \in Functors : Wait(f) \in Nat
    BY DEF Functors, Msgs, Wait
  <1> QED
    BY <1>1, <1>2, <1>3, <1>4

LEMMA OrderKept ==
    ASSUME OrderInv, UNCHANGED <<queue, handed, created, sender>>
    PROVE  OrderInv'
  <1>1. Waiting' = Waiting
    BY DEF Waiting
  <1> QED
    BY <1>1 DEF OrderInv

\* A send puts the new message behind the sender's others: the loop's own
\* between what was handed over and what waits, another thread's at the end.
LEMMA SendKeepsOrder ==
    ASSUME TypeInv, TypeInv', OrderInv, NEW t \in Callers, Send(t)
    PROVE  OrderInv'
  <1> DEFINE s == handed \o Waiting
             n == created
  <1>1. /\ handed \in Seq(Nat) /\ Waiting \in Seq(Nat)
        /\ Len(handed) \in Nat /\ Len(Waiting) = Len(queue)
        /\ queue \in Seq(Functors) /\ Waiting = WaitingOf(queue)
        /\ created \in Nat /\ \A f \in Functors : Wait(f) \in Nat
        /\ s \in Seq(Nat)
    BY OrderTypes
  <1>2. /\ created' = n + 1 /\ n + 1 \in Msgs
        /\ sender' = [sender EXCEPT ![n + 1] = t]
        /\ sender \in [Msgs -> Callers]
    BY TcpConnectAssumption DEF Send, TypeInv, TypeOK, Msgs
  <1>3. sender'[n + 1] = t /\ \A m \in 1..n : sender'[m] = sender[m]
    <2>1. \A m \in 1..n : m # n + 1 /\ m \in Msgs
      BY <1>1, <1>2, TcpConnectAssumption DEF Msgs
    <2> QED
      BY <1>2, <2>1
  <1>4. \A i \in 1..Len(queue) :
           queue[i].op = "send" => /\ sender[queue[i].msg] # Loop
                                   /\ sender'[queue[i].msg] # Loop
                                   /\ queue[i].msg = Waiting[i]
    <2> SUFFICES ASSUME NEW i \in 1..Len(queue), queue[i].op = "send"
                 PROVE  /\ sender[queue[i].msg] # Loop
                        /\ sender'[queue[i].msg] # Loop
                        /\ queue[i].msg = Waiting[i]
      OBVIOUS
    <2>1. queue[i].msg = Waiting[i]
      BY DEF Waiting
    <2>2. sender[queue[i].msg] # Loop /\ queue[i].msg \in Msgs
      BY FunctorTypes DEF OrderInv
    <2>3. s[Len(handed) + i] = Waiting[i] /\ Len(handed) + i \in 1..Len(s)
      BY <1>1
    <2>4. Waiting[i] \in ToSet(s)
      BY <2>3 DEF ToSet
    <2>5. Waiting[i] \in 1..n
      BY <2>1, <2>2, <2>4 DEF OrderInv, Ordered, Msgs
    <2> QED
      BY <1>3, <2>1, <2>2, <2>5
  <1>5. CASE t = Loop
    <2>1. SendInLoop(n + 1) /\ queue' = queue
      BY <1>5 DEF Send
    <2>2. handed' = Append(handed, n + 1) /\ Waiting' = Waiting
      BY <1>2, <2>1, SendOutcomes DEF Waiting
    <2> DEFINE u == handed' \o Waiting'
               p == Len(handed) + 1
    <2>3. u \in Seq(Nat) /\ Inserted(s, u, p, n + 1)
      BY <1>1, <2>2, MiddleInserts
    <2>4. ASSUME NEW k \in p..Len(s), s[k] # 0
          PROVE  sender[s[k]] # sender'[n + 1]
      <3>1. k - Len(handed) \in 1..Len(queue) /\ s[k] = Waiting[k - Len(handed)]
        BY <1>1
      <3>2. queue[k - Len(handed)].op = "send"
        BY <2>4, <3>1 DEF Waiting
      <3>3. sender[s[k]] # Loop
        BY <1>4, <3>1, <3>2
      <3> QED
        BY <1>3, <1>5, <3>3
    <2>5. Ordered(s, n, sender)
      BY DEF OrderInv
    <2> HIDE DEF s, u, p, n
    <2>6. Ordered(u, n + 1, sender')
      BY <1>1, <1>3, <2>3, <2>4, <2>5, MessageInserted DEF n
    <2>7. Ordered((handed \o Waiting)', created', sender')
      BY <1>2, <2>6 DEF u
    <2> QED
      BY <1>4, <2>1, <2>7 DEF OrderInv
  <1>6. CASE t # Loop
    <2> DEFINE f == [op |-> "send", msg |-> n + 1]
    <2>1. queue' = Append(queue, f) /\ handed' = handed
      BY <1>6 DEF Send
    <2>2. f \in Functors /\ Wait(f) = n + 1
      BY <1>2 DEF Functors, Wait
    <2>3. Waiting' = Append(Waiting, n + 1)
      <3>1. Waiting' = WaitingOf(queue')
        BY DEF Waiting, WaitingOf, Wait
      <3>2. WaitingOf(Append(queue, f)) = Append(WaitingOf(queue), Wait(f))
        BY <1>1, <2>2, WaitingAppend
      <3> QED
        BY <1>1, <2>1, <2>2, <3>1, <3>2
    <2> DEFINE u == handed' \o Waiting'
               p == Len(s) + 1
    <2>4. u = Append(s, n + 1)
      BY <1>1, <2>1, <2>3, SMTT(30)
    <2>5. u \in Seq(Nat) /\ Inserted(s, u, p, n + 1)
      <3> HIDE DEF s, u
      <3> QED
        BY <1>1, <2>4, AppendInserts
    <2>6. p..Len(s) = {}
      BY <1>1
    <2>7. Ordered(s, n, sender)
      BY DEF OrderInv
    <2> HIDE DEF s, u, p, n
    <2>8. Ordered(u, n + 1, sender')
      BY <1>1, <1>3, <2>5, <2>6, <2>7, MessageInserted DEF n
    <2>9. Ordered((handed \o Waiting)', created', sender')
      BY <1>2, <2>8 DEF u
    <2>10. ASSUME NEW i \in 1..Len(queue'), queue'[i].op = "send"
           PROVE  sender'[queue'[i].msg] # Loop
      <3>1. /\ Len(queue') = Len(queue) + 1 /\ queue'[Len(queue) + 1] = f
            /\ Len(queue) \in Nat
            /\ \A j \in 1..Len(queue) : queue'[j] = queue[j]
        BY <1>1, <2>1, <2>2
      <3>2. CASE i = Len(queue) + 1
        <4>1. queue'[i].msg = n + 1
          BY <3>1, <3>2
        <4> QED
          BY <1>3, <1>6, <4>1
      <3>3. CASE i # Len(queue) + 1
        <4>1. i \in 1..Len(queue) /\ queue'[i] = queue[i]
          BY <3>1, <3>3
        <4> QED
          BY <1>4, <2>10, <4>1
      <3> QED
        BY <3>2, <3>3
    <2> QED
      BY <2>9, <2>10 DEF OrderInv
  <1> QED
    BY <1>5, <1>6

\* The loop hands over its first functor's message, or a shutdown.
LEMMA RunKeepsOrder ==
    ASSUME TypeInv, OrderInv, RunFunctor
    PROVE  OrderInv'
  <1>1. /\ handed \in Seq(Nat) /\ Waiting \in Seq(Nat)
        /\ Len(handed) \in Nat /\ Len(Waiting) = Len(queue)
        /\ queue \in Seq(Functors) /\ Waiting = WaitingOf(queue)
        /\ created \in Nat
    BY OrderTypes
  <1>2. /\ queue # <<>> /\ queue' = Tail(queue)
        /\ created' = created /\ sender' = sender
    BY DEF RunFunctor
  <1>3. /\ Waiting # <<>> /\ Head(Waiting) = Wait(Head(queue))
        /\ Waiting' = Tail(Waiting)
    <2>1. Waiting' = WaitingOf(queue')
      BY DEF Waiting, WaitingOf, Wait
    <2> QED
      BY <1>1, <1>2, <2>1, WaitingTail
  <1>4. Append(handed, Head(Waiting)) \o Tail(Waiting) = handed \o Waiting
    BY <1>1, <1>3, HeadMoves
  <1>5. ASSUME NEW i \in 1..Len(queue'), queue'[i].op = "send"
        PROVE  sender'[queue'[i].msg] # Loop
    <2>1. i + 1 \in 1..Len(queue) /\ queue'[i] = queue[i + 1]
      BY <1>1, <1>2
    <2> QED
      BY <1>2, <1>5, <2>1 DEF OrderInv
  <1>6. Ordered(handed \o Waiting, created, sender)
    BY DEF OrderInv
  <1>7. CASE Head(queue).op = "send"
    <2>1. SendInLoop(Head(queue).msg) /\ Wait(Head(queue)) = Head(queue).msg
      BY <1>7 DEF RunFunctor, Wait
    <2>2. Head(queue).msg \in Msgs
      BY <1>2, <1>7, FunctorTypes
    <2>3. handed' = Append(handed, Head(Waiting))
      BY <1>3, <2>1, <2>2, SendOutcomes
    <2>4. handed' \o Waiting' = handed \o Waiting
      BY <1>3, <1>4, <2>3
    <2> QED
      BY <1>2, <1>5, <1>6, <2>4 DEF OrderInv
  <1>8. CASE Head(queue).op # "send"
    <2>1. handed' = handed /\ Head(Waiting) = 0
      BY <1>3, <1>8 DEF RunFunctor, Wait
    <2> DEFINE w == Waiting'
               s == handed \o w
               u == handed \o Waiting
    <2>2. w \in Seq(Nat)
      BY <1>1, <1>3
    <2>3. u = Append(handed, 0) \o w
      BY <1>3, <1>4, <2>1
    <2> HIDE DEF w
    <2>4. /\ s \in Seq(Nat) /\ u \in Seq(Nat)
          /\ Inserted(s, u, Len(handed) + 1, 0)
      BY <1>1, <2>2, <2>3, MiddleInserts
    <2>5. Ordered(u, created, sender)
      BY <1>6
    <2> HIDE DEF s, u
    <2>6. Ordered(s, created, sender)
      BY <1>1, <2>4, <2>5, ZeroInserted
    <2>7. Ordered((handed \o Waiting)', created', sender')
      BY <1>2, <2>1, <2>6 DEF s, w
    <2> QED
      BY <1>5, <2>7 DEF OrderInv
  <1> QED
    BY <1>7, <1>8

LEMMA ShutdownKeepsOrder ==
    ASSUME TypeInv, OrderInv, NEW t \in Callers, Shutdown(t)
    PROVE  OrderInv'
  <1>1. /\ handed \in Seq(Nat) /\ Waiting \in Seq(Nat)
        /\ queue \in Seq(Functors) /\ Waiting = WaitingOf(queue)
        /\ created \in Nat /\ handed \o Waiting \in Seq(Nat)
    BY OrderTypes
  <1>2. UNCHANGED <<handed, created, sender>>
    BY DEF Shutdown
  <1>3. CASE t = Loop
    BY <1>2, <1>3, OrderKept DEF Shutdown
  <1>4. CASE t # Loop
    <2> DEFINE f == [op |-> "shutdown"]
               s == handed \o Waiting
               u == handed \o Waiting'
    <2>1. queue' = Append(queue, f) /\ f \in Functors /\ Wait(f) = 0
      BY <1>4 DEF Shutdown, Functors, Wait
    <2>2. Waiting' = Append(Waiting, 0)
      <3>1. Waiting' = WaitingOf(queue')
        BY DEF Waiting, WaitingOf, Wait
      <3>2. WaitingOf(Append(queue, f)) = Append(WaitingOf(queue), Wait(f))
        BY <1>1, <2>1, WaitingAppend
      <3> QED
        BY <1>1, <2>1, <3>1, <3>2
    <2>3. u = Append(s, 0)
      BY <1>1, <2>2, SMTT(30)
    <2>4. s \in Seq(Nat) /\ Ordered(s, created, sender)
      BY <1>1 DEF OrderInv
    <2>5. u \in Seq(Nat) /\ Inserted(s, u, Len(s) + 1, 0)
      <3> HIDE DEF s, u
      <3> QED
        BY <2>3, <2>4, AppendInserts
    <2>6. Ordered(u, created, sender)
      <3> HIDE DEF s, u
      <3> QED
        BY <1>1, <2>4, <2>5, ZeroInserted
    <2>7. ASSUME NEW i \in 1..Len(queue'), queue'[i].op = "send"
          PROVE  sender'[queue'[i].msg] # Loop
      <3>1. /\ Len(queue') = Len(queue) + 1 /\ queue'[Len(queue) + 1] = f
            /\ Len(queue) \in Nat /\ f.op = "shutdown"
            /\ \A j \in 1..Len(queue) : queue'[j] = queue[j]
        BY <1>1, <2>1
      <3>2. i # Len(queue) + 1
        BY <2>7, <3>1
      <3>3. i \in 1..Len(queue) /\ queue'[i] = queue[i]
        BY <3>1, <3>2
      <3> QED
        BY <1>2, <2>7, <3>3 DEF OrderInv
    <2>8. Ordered((handed \o Waiting)', created', sender')
      BY <1>2, <2>6
    <2> QED
      BY <2>7, <2>8 DEF OrderInv
  <1> QED
    BY <1>3, <1>4

LEMMA NextOrder ==
    TypeInv /\ OrderInv /\ [Next]_vars => OrderInv'
  <1> SUFFICES ASSUME TypeInv, OrderInv, [Next]_vars PROVE OrderInv'
    OBVIOUS
  <1> USE DEF channelvars, peervars, callvars, connectionvars
  <1>1. TypeInv'
    BY NextTypes
  <1>2. ASSUME NEW t \in Callers, Send(t) PROVE OrderInv'
    BY <1>1, <1>2, SendKeepsOrder
  <1>3. ASSUME NEW t \in Callers, TestConnected(t) PROVE OrderInv'
    BY <1>3, OrderKept DEF TestConnected
  <1>4. ASSUME NEW t \in Callers, Shutdown(t) PROVE OrderInv'
    BY <1>4, ShutdownKeepsOrder
  <1>5. CASE RunFunctor
    BY <1>5, RunKeepsOrder
  <1>6. CASE Establish \/ Poll \/ HandleRead \/ MessageDone \/ HandleWrite
    BY <1>6, OrderKept DEF Establish, Poll, HandleRead, MessageDone, HandleWrite
  <1>7. CASE PeerSend \/ PeerRead \/ PeerClose \/ PeerReset
    BY <1>7, OrderKept DEF PeerSend, PeerRead, PeerClose, PeerReset
  <1>8. CASE UNCHANGED vars
    BY <1>8, OrderKept DEF vars
  <1> QED
    BY <1>2, <1>3, <1>4, <1>5, <1>6, <1>7, <1>8 DEF Next, LoopStep

LEMMA InitOrder ==
    Init => OrderInv
  <1> SUFFICES ASSUME Init PROVE OrderInv
    OBVIOUS
  <1>1. queue = <<>> /\ handed = <<>> /\ created = 0
    BY DEF Init
  <1>2. handed \o Waiting = <<>>
    BY <1>1 DEF Waiting
  <1>3. ToSet(<<>>) = {} /\ 1..0 = {} /\ 1..Len(<<>>) = {}
    BY DEF ToSet
  <1> QED
    BY <1>1, <1>2, <1>3 DEF OrderInv, Ordered

\* What the peer has read, what the socket holds and what outbuffer_ holds are
\* together the messages handed to sendinloop, whole and in that order, after a
\* reset the beginning of them; and each sender's messages are handed over in
\* the order it sent them, through the loop's queue or not.
THEOREM TheStreamIsIntact == Spec => []StreamIntact
  <1>1. TypeInv /\ StreamInv /\ OrderInv => StreamIntact
    <2> SUFFICES ASSUME TypeInv, StreamInv, OrderInv PROVE StreamIntact
      OBVIOUS
    <2>1. IsPrefix(received, Stream)
      <3>1. received \in Seq(Bytes)
        BY DEF TypeInv, TypeOK
      <3> QED
        BY <3>1, ConcatPrefix DEF StreamInv
    <2>2. InSendersOrder(handed \o Waiting)
      BY DEF OrderInv, Ordered, InSendersOrder
    <2> QED
      BY <2>1, <2>2 DEF StreamInv, StreamIntact
  <1> QED
    BY <1>1, InitTypes, NextTypes, InitStream, NextStream, InitOrder, NextOrder,
       PTL DEF Spec

-----------------------------------------------------------------------------
(***************************************************************************)
(* HttpServer.                                                             *)
(***************************************************************************)
Symbols == RequestLines \cup Headers \cup {"bad", "text", "CR", "LF"}

\* What is retrieved is the beginning of what was to be read.
LEMMA RetrievedKeeps ==
    ASSUME NEW S, Junk \in S, NEW b \in BufferOf(S), InRange(b),
           NEW n \in 0..readsize(b)
    PROVE  /\ Retrieved(b, n) \in BufferOf(S) /\ InRange(Retrieved(b, n))
           /\ readable(Retrieved(b, n)) = SubSeq(readable(b), n + 1, readsize(b))
  <1>1. /\ readsize(b) \in Nat
        /\ readable(b) \in Seq(S) /\ Len(readable(b)) = readsize(b)
    BY ReadableIsSeq
  <1>2. CASE n < readsize(b)
    <2>1. Retrieved(b, n) = Written(b, n)
      BY <1>2 DEF Retrieved, Written
    <2>2. n \in -1..readsize(b) /\ n >= 0
      BY <1>1
    <2>3. Drop(readable(b), n) = SubSeq(readable(b), n + 1, readsize(b))
      BY <1>1 DEF Drop
    <2> QED
      BY <2>1, <2>2, <2>3, WrittenKeeps
  <1>3. CASE ~(n < readsize(b))
    <2> DEFINE e == b.data
               d == [k \in 1..Len(e) |-> IF k \in (0 + 1)..0 THEN e[k] ELSE Junk]
               c == Retrieved(b, n)
    <2>1. e \in Seq(S)
      BY DEF BufferOf
    <2>2. [b EXCEPT !.readindex_ = 0, !.writeindex_ = 0]
             = [data |-> e, readindex_ |-> 0, writeindex_ |-> 0]
      <3> DEFINE x == b.readindex_
                 w == b.writeindex_
      <3>1. b \in [data : Seq(S), readindex_ : Int, writeindex_ : Int]
        BY DEF BufferOf
      <3>2. b = [data |-> e, readindex_ |-> x, writeindex_ |-> w]
        BY <3>1
      <3> HIDE DEF e, x, w
      <3>3. [b EXCEPT !.readindex_ = 0] = [data |-> e, readindex_ |-> 0, writeindex_ |-> w]
        BY <3>2
      <3>4. [[data |-> e, readindex_ |-> 0, writeindex_ |-> w] EXCEPT !.writeindex_ = 0]
               = [data |-> e, readindex_ |-> 0, writeindex_ |-> 0]
        OBVIOUS
      <3> QED
        BY <3>3, <3>4
    <2> DEFINE a == [data |-> e, readindex_ |-> 0, writeindex_ |-> 0]
    <2>3. c = Forget(a)
      BY <1>3, <2>2 DEF Retrieved
    <2>4. a.data = e /\ a.readindex_ = 0 /\ a.writeindex_ = 0
      OBVIOUS
    <2> HIDE DEF d, e
    <2>5. [a EXCEPT !.data = d] = [data |-> d, readindex_ |-> 0, writeindex_ |-> 0]
      OBVIOUS
    <2> HIDE DEF a
    <2>6. Forget(a) = [a EXCEPT !.data = d]
      BY <2>4 DEF Forget, d
    <2>7. d \in Seq(S) /\ Len(d) = Len(e) /\ Len(e) \in Nat
      BY <2>1 DEF d
    <2> HIDE DEF c
    <2>8. /\ c.data = d /\ c.readindex_ = 0 /\ c.writeindex_ = 0
          /\ c \in [data : Seq(S), readindex_ : Int, writeindex_ : Int]
      BY <2>3, <2>5, <2>6, <2>7
    <2>9. c \in BufferOf(S) /\ InRange(c) /\ readsize(c) = 0
      BY <2>7, <2>8 DEF BufferOf, InRange, readsize
    <2>10. readable(c) \in Seq(S) /\ Len(readable(c)) = 0
      BY <2>9, ReadableIsSeq
    <2>11. SubSeq(readable(b), n + 1, readsize(b)) = <<>>
      BY <1>1, <1>3
    <2>12. readable(c) = <<>>
      BY <2>10
    <2> QED
      BY <2>9, <2>11, <2>12 DEF c
  <1> QED
    BY <1>2, <1>3

\* What was read follows what was to be read, if it fits the vector or none of
\* it does (buffer.cc, read).
LEMMA ReadKeeps ==
    ASSUME NEW S, Junk \in S, NEW b \in BufferOf(S), InRange(b),
           NEW s \in Seq(S)
    PROVE  /\ ReadV(b, s) \in BufferOf(S) /\ InRange(ReadV(b, s))
           /\ writesize(b) \notin 1..(Len(s) - 1) =>
                 readable(ReadV(b, s)) = readable(b) \o s
  <1>1. /\ writesize(b) \in Nat /\ Len(s) \in Nat /\ b.readindex_ \in Int
        /\ b.data \in Seq(S) /\ Len(b.data) \in Nat /\ b.writeindex_ \in Nat
        /\ b.writeindex_ <= Len(b.data) /\ b.readindex_ <= b.writeindex_
        /\ b.readindex_ >= 0
        /\ writesize(b) = Len(b.data) - b.writeindex_
    BY DEF writesize, BufferOf, InRange
  <1>2. CASE Len(s) <= writesize(b)
    <2>1. ReadV(b, s) = CopiedIn(b, s)
      BY <1>2 DEF ReadV, CopiedIn
    <2> QED
      BY <1>2, <2>1, CopyAppends DEF InRange
  <1>3. CASE ~(Len(s) <= writesize(b))
    <2> DEFINE n == writesize(b)
               temp == [i \in 1..Len(s) |->
                           IF n + i <= Len(s) THEN s[n + i] ELSE Junk]
               d == Copy(b.data, b.writeindex_, s)
               filled == [b EXCEPT !.data = Copy(@, b.writeindex_, s),
                                   !.writeindex_ = Len(b.data)]
    <2>1. ReadV(b, s) = Appended(filled, temp)
      BY <1>3 DEF ReadV
    <2>2. temp \in Seq(S) /\ Len(temp) = Len(s)
      <3>1. \A i \in 1..Len(s) : (IF n + i <= Len(s) THEN s[n + i] ELSE Junk) \in S
        <4> SUFFICES ASSUME NEW i \in 1..Len(s), n + i <= Len(s)
                     PROVE  s[n + i] \in S
          OBVIOUS
        <4>1. n + i \in 1..Len(s)
          BY <1>1
        <4> HIDE DEF n
        <4> QED
          BY <4>1
      <3> QED
        BY <1>1, <3>1
    <2>3. /\ d \in Seq(S) /\ Len(d) = Len(b.data)
          /\ \A k \in 1..Len(b.data) :
                d[k] = IF k - b.writeindex_ \in 1..Len(s)
                         THEN s[k - b.writeindex_] ELSE b.data[k]
      <3> DEFINE e == b.data
                 w == b.writeindex_
      <3>1. e \in Seq(S) /\ w \in Nat /\ d = Copy(e, w, s)
        BY <1>1
      <3> HIDE DEF d, e, w
      <3>2. /\ Copy(e, w, s) \in Seq(S) /\ Len(Copy(e, w, s)) = Len(e)
            /\ \A k \in 1..Len(e) :
                  Copy(e, w, s)[k] = IF k - w \in 1..Len(s)
                                       THEN s[k - w] ELSE e[k]
        BY <3>1, CopyIsSeq
      <3> QED
        BY <3>1, <3>2 DEF e, w
    <2>4. filled = [data |-> d, readindex_ |-> b.readindex_,
                    writeindex_ |-> Len(b.data)]
      <3>1. b \in [data : Seq(S), readindex_ : Int, writeindex_ : Int]
        BY DEF BufferOf
      <3>2. filled = [b EXCEPT !.data = d, !.writeindex_ = Len(b.data)]
        OBVIOUS
      <3> HIDE DEF d, filled
      <3> QED
        BY <3>1, <3>2
    <2> HIDE DEF temp, d, filled
    <2>5. /\ filled.data = d /\ filled.readindex_ = b.readindex_
          /\ filled.writeindex_ = Len(b.data)
          /\ filled \in [data : Seq(S), readindex_ : Int, writeindex_ : Int]
      BY <1>1, <2>3, <2>4
    <2>6. filled \in BufferOf(S) /\ InRange(filled)
      BY <1>1, <2>3, <2>5 DEF BufferOf, InRange
    <2>7. /\ ReadV(b, s) \in BufferOf(S) /\ InRange(ReadV(b, s))
          /\ readable(ReadV(b, s)) = readable(filled) \o temp
      BY <2>1, <2>2, <2>6, AppendedKeeps
    <2>8. ASSUME n \notin 1..(Len(s) - 1)
          PROVE  temp = s /\ filled = b
      <3>1. n = 0 /\ b.writeindex_ = Len(b.data)
        BY <1>1, <1>3, <2>8
      <3>2. temp = s
        <4>1. \A i \in 1..Len(s) : n + i <= Len(s) /\ n + i = i
          BY <1>1, <3>1
        <4>2. \A i \in 1..Len(s) : temp[i] = s[i]
          BY <4>1, Zenon DEF temp
        <4> QED
          BY <2>2, <4>2
      <3>3. \A k \in 1..Len(b.data) : k - b.writeindex_ \notin 1..Len(s)
        BY <1>1, <3>1
      <3>4. d = b.data
        <4>1. \A k \in 1..Len(b.data) : d[k] = b.data[k]
          BY <2>3, <3>3, Zenon
        <4> QED
          BY <1>1, <2>3, <4>1, SMTT(30)
      <3>5. b = [data |-> b.data, readindex_ |-> b.readindex_,
                 writeindex_ |-> b.writeindex_]
        BY DEF BufferOf
      <3> QED
        BY <2>4, <3>1, <3>2, <3>4, <3>5
    <2> QED
      BY <2>7, <2>8
  <1> QED
    BY <1>2, <1>3

-----------------------------------------------------------------------------
(* The input.                                                              *)

\* The concatenation of sequences is a sequence of their elements.
LEMMA FlattenTyped ==
    ASSUME NEW S, NEW ss \in Seq(Seq(S))
    PROVE  FlattenSeq(ss) \in Seq(S)
  <1> DEFINE n == Len(ss)
  <1>1. n \in Nat
    OBVIOUS
  <1>2. CASE n = 0
    <2>1. ss = <<>>
      BY <1>2
    <2>2. FlattenSeq(ss) = <<>>
      BY <2>1 DEF FlattenSeq
    <2> QED
      BY <2>2
  <1>3. CASE n # 0
    <2>1. PICK f : Flattens(f, ss, n) /\ FlattenSeq(ss) = f[n]
      BY <1>1, <1>3, FlattenAs
    <2> DEFINE Bad == {k \in 1..n : f[k] \notin Seq(S)}
    <2>2. Bad = {}
      <3> SUFFICES ASSUME Bad # {} PROVE FALSE
        OBVIOUS
      <3>1. PICK x \in Bad : \A k \in Bad : x <= k
        <4>1. Bad \subseteq Nat
          OBVIOUS
        <4> HIDE DEF Bad
        <4> QED
          BY <4>1, LeastNatural
      <3>2. x \in 1..n /\ f[x] \notin Seq(S) /\ ss[x] \in Seq(S)
        OBVIOUS
      <3>3. f[x] = IF x = 1 THEN ss[x] ELSE f[x - 1] \o ss[x]
        BY <2>1, <3>2, Zenon DEF Flattens
      <3>4. x # 1
        BY <3>2, <3>3
      <3>5. x - 1 \in 1..n /\ ~(x <= x - 1)
        BY <1>1, <3>2, <3>4
      <3>6. x - 1 \notin Bad
        <4> HIDE DEF Bad
        <4> QED
          BY <3>1, <3>5
      <3>7. f[x - 1] \in Seq(S)
        BY <3>5, <3>6
      <3> QED
        BY <3>2, <3>3, <3>4, <3>7
    <2>3. n \in 1..n
      BY <1>1, <1>3
    <2> QED
      BY <2>1, <2>2, <2>3
  <1> QED
    BY <1>2, <1>3

\* A client sends symbols.
LEMMA StreamTyped ==
    ASSUME NEW c \in Seq(Requests)
    PROVE  EncodeAll(c) \in Seq(Symbols)
  <1>1. ASSUME NEW r \in Requests PROVE Encode(r) \in Seq(Symbols)
    <2>1. /\ r.line \in Symbols /\ r.headers \in Seq(Symbols)
          /\ r.body \in Seq(Symbols) /\ DOMAIN r.headers = 1..Len(r.headers)
          /\ Len(r.headers) \in Nat
      BY DEF Requests, Symbols
    <2>2. \A s \in Seq(Symbols) : Line(s) \in Seq(Symbols)
      BY DEF Line, Symbols
    <2>a. <<>> \in Seq(Symbols) /\ \A x \in Symbols : <<x>> \in Seq(Symbols)
      OBVIOUS
    <2>3. \A i \in DOMAIN r.headers : Line(<<r.headers[i]>>) \in Seq(Symbols)
      <3>1. \A i \in DOMAIN r.headers : r.headers[i] \in Symbols
        BY <2>1
      <3> QED
        BY <2>2, <2>a, <3>1
    <2> DEFINE hs == [i \in DOMAIN r.headers |-> Line(<<r.headers[i]>>)]
    <2>4. hs \in Seq(Seq(Symbols))
      BY <2>1, <2>3
    <2> HIDE DEF hs
    <2>5. FlattenSeq(hs) \in Seq(Symbols)
      BY <2>4, FlattenTyped
    <2>6. Line(<<r.line>>) \in Seq(Symbols) /\ Line(<<>>) \in Seq(Symbols)
      BY <2>1, <2>2, <2>a
    <2> QED
      BY <2>1, <2>5, <2>6 DEF Encode, hs
  <1> DEFINE es == [i \in DOMAIN c |-> Encode(c[i])]
  <1>2. es \in Seq(Seq(Symbols))
    <2>1. \A i \in 1..Len(c) : Encode(c[i]) \in Seq(Symbols)
      BY <1>1
    <2>2. DOMAIN c = 1..Len(c) /\ Len(c) \in Nat
      OBVIOUS
    <2> QED
      BY <2>1, <2>2
  <1> HIDE DEF es
  <1>3. FlattenSeq(es) \in Seq(Symbols)
    BY <1>2, FlattenTyped
  <1> QED
    BY <1>3 DEF EncodeAll, es

\* The invariant: InputIntact, with the types of what it speaks of.
InputInv ==
    /\ stream \in Seq(Symbols)
    /\ sent \in Nat /\ taken \in Nat /\ consumed \in Nat
    /\ consumed <= taken /\ taken <= sent /\ sent <= Len(stream)
    /\ garbled \in BOOLEAN
    /\ inbuffer_ \in BufferOf(Symbols \cup {Junk}) /\ InRange(inbuffer_)
    /\ ~garbled => readable(inbuffer_) = SubSeq(stream, consumed + 1, taken)

\* An empty line has no position beyond what is to be read.
LEMMA findCRLFInRange ==
    ASSUME NEW S, Junk \in S, NEW b \in BufferOf(S)
    PROVE  findCRLF(b) \in 0..readsize(b)
  <1> DEFINE s == readable(b)
             crlfs == {i \in 2..Len(s) : s[i - 1] = "CR" /\ s[i] = "LF"}
  <1>1. readsize(b) \in Nat /\ Len(s) = readsize(b)
    BY ReadableIsSeq
  <1>2. findCRLF(b) = IF crlfs = {} THEN 0 ELSE Min(crlfs)
    BY DEF findCRLF
  <1>3. crlfs \subseteq 2..readsize(b)
    BY <1>1
  <1> HIDE DEF s, crlfs
  <1>4. ASSUME crlfs # {} PROVE Min(crlfs) \in crlfs
    <2>1. crlfs \subseteq Nat
      BY <1>1, <1>3
    <2> QED
      BY <1>4, <2>1, LeastNatural DEF Min
  <1> DEFINE m == Min(crlfs)
             size == readsize(b)
  <1>5. CASE crlfs = {}
    BY <1>1, <1>2, <1>5
  <1>6. CASE crlfs # {}
    <2>1. findCRLF(b) = m /\ m \in 2..size /\ size \in Nat
      BY <1>1, <1>2, <1>3, <1>4, <1>6
    <2> HIDE DEF m, size
    <2>2. findCRLF(b) \in 0..size
      BY <2>1
    <2> QED
      BY <2>2 DEF size
  <1> QED
    BY <1>5, <1>6

LEMMA InputInit == HttpInit => InputInv
  <1> SUFFICES ASSUME HttpInit PROVE InputInv
    OBVIOUS
  <1>1. conversation \in Seq(Requests) /\ InputSize \in Nat
    BY HttpServerAssumption DEF HttpServerAssumption, HttpInit
  <1>2. stream \in Seq(Symbols)
    BY <1>1, StreamTyped DEF HttpInit
  <1> DEFINE U == Symbols \cup {Junk}
  <1>3. Junk \in U
    OBVIOUS
  <1> HIDE DEF U
  <1>4. /\ inbuffer_ \in BufferOf(U) /\ InRange(inbuffer_)
        /\ readable(inbuffer_) = <<>>
    BY <1>1, <1>3, NewBufferIsEmpty DEF HttpInit
  <1>5. SubSeq(stream, 1, 0) = <<>>
    BY <1>2
  <1>6. /\ sent = 0 /\ taken = 0 /\ consumed = 0 /\ garbled = FALSE
        /\ Len(stream) \in Nat /\ 0 + 1 = 1
    BY <1>2 DEF HttpInit
  <1>7. readable(inbuffer_) = SubSeq(stream, consumed + 1, taken)
    BY <1>4, <1>5, <1>6
  <1>8. consumed <= taken /\ taken <= sent /\ sent <= Len(stream)
    BY <1>6
  <1> QED
    BY <1>2, <1>4, <1>6, <1>7, <1>8 DEF InputInv, U

LEMMA RetrieveKeepsInput ==
    ASSUME InputInv, ~garbled, NEW n \in 0..readsize(inbuffer_), Retrieve(n),
           UNCHANGED <<stream, sent, taken, garbled>>
    PROVE  InputInv'
  <1> DEFINE U == Symbols \cup {Junk}
             r == readable(inbuffer_)
             size == readsize(inbuffer_)
  <1>1. Junk \in U /\ inbuffer_ \in BufferOf(U) /\ InRange(inbuffer_)
    BY DEF InputInv
  <1> HIDE DEF U
  <1>2. /\ inbuffer_' \in BufferOf(U) /\ InRange(inbuffer_')
        /\ readable(inbuffer_') = SubSeq(r, n + 1, size)
    BY <1>1, RetrievedKeeps DEF Retrieve
  <1>3. r \in Seq(U) /\ Len(r) = size /\ size \in Nat
    BY <1>1, ReadableIsSeq
  <1>4. /\ stream \in Seq(Symbols) /\ consumed \in Nat /\ taken \in Nat
        /\ Len(stream) \in Nat /\ consumed <= taken /\ taken <= Len(stream)
        /\ r = SubSeq(stream, consumed + 1, taken)
    BY DEF InputInv
  <1>5. size = taken - consumed
    BY <1>3, <1>4
  <1>6. consumed' = consumed + n
    BY DEF Retrieve
  <1>7. n \in Nat /\ n <= size
    BY <1>3
  <1> HIDE DEF size, r
  <1>8. consumed' \in Nat /\ consumed' <= taken
    BY <1>4, <1>5, <1>6, <1>7
  <1>9. SubSeq(r, n + 1, size) = SubSeq(stream, consumed' + 1, taken)
    <2>1. /\ SubSeq(r, n + 1, size) \in Seq(U)
          /\ Len(SubSeq(r, n + 1, size)) = size - n
          /\ \A i \in 1..(size - n) : SubSeq(r, n + 1, size)[i] = r[n + i]
      BY <1>3, <1>7
    <2>2. /\ SubSeq(stream, consumed' + 1, taken) \in Seq(Symbols)
          /\ Len(SubSeq(stream, consumed' + 1, taken)) = size - n
          /\ \A i \in 1..(size - n) :
                SubSeq(stream, consumed' + 1, taken)[i] = stream[consumed' + i]
      BY <1>4, <1>5, <1>6, <1>7, <1>8
    <2>3. \A i \in 1..(size - n) : r[n + i] = stream[consumed' + i]
      BY <1>3, <1>4, <1>5, <1>6, <1>7
    <2>4. size - n \in Nat
      BY <1>3, <1>7
    <2> DEFINE a == SubSeq(r, n + 1, size)
               b == SubSeq(stream, consumed' + 1, taken)
               k == size - n
    <2>5. /\ a \in Seq(U) /\ Len(a) = k /\ b \in Seq(Symbols) /\ Len(b) = k
          /\ k \in Nat /\ \A i \in 1..k : a[i] = b[i]
      BY <2>1, <2>2, <2>3, <2>4
    <2> HIDE DEF a, b, k
    <2>6. a = b
      BY <2>5
    <2> QED
      BY <2>6 DEF a, b
  <1> QED
    BY <1>2, <1>4, <1>8, <1>9 DEF InputInv, U

\* Every step keeps the invariant.
LEMMA InputStep == InputInv /\ [HttpNext]_httpvars => InputInv'
  <1> SUFFICES ASSUME InputInv, [HttpNext]_httpvars PROVE InputInv'
    OBVIOUS
  <1>1. ASSUME UNCHANGED <<stream, sent, taken, consumed, garbled, inbuffer_>>
        PROVE  InputInv'
    BY <1>1 DEF InputInv
  <1>2. findCRLF(inbuffer_) \in 0..readsize(inbuffer_)
        /\ readsize(inbuffer_) \in 0..readsize(inbuffer_)
    <2> DEFINE U == Symbols \cup {Junk}
    <2>1. Junk \in U /\ inbuffer_ \in BufferOf(U)
      BY DEF InputInv
    <2> HIDE DEF U
    <2>2. readsize(inbuffer_) \in Nat
      BY <2>1, ReadableIsSeq
    <2> QED
      BY <2>1, <2>2, findCRLFInRange
  <1>3. CASE ClientSends
    BY <1>3 DEF ClientSends, InputInv, parser, socket
  <1>4. CASE Read
    <2> DEFINE U == Symbols \cup {Junk}
               s == SubSeq(stream, taken + 1, sent)
    <2>1. Junk \in U /\ inbuffer_ \in BufferOf(U) /\ InRange(inbuffer_)
      BY DEF InputInv
    <2>2. /\ stream \in Seq(Symbols) /\ consumed \in Nat /\ taken \in Nat
          /\ sent \in Nat /\ Len(stream) \in Nat
          /\ consumed <= taken /\ taken < sent /\ sent <= Len(stream)
          /\ readable(inbuffer_) = SubSeq(stream, consumed + 1, taken)
      BY <1>4 DEF InputInv, Read, At
    <2>3. s \in Seq(U) /\ Len(s) = sent - taken
      <3>1. s \in Seq(Symbols) /\ Len(s) = sent - taken
        BY <2>2
      <3> HIDE DEF s
      <3> QED
        BY <3>1
    <2>4. /\ inbuffer_' = ReadV(inbuffer_, s)
          /\ garbled' = (writesize(inbuffer_) \in 1..((sent - taken) - 1))
          /\ taken' = sent /\ UNCHANGED <<stream, sent, consumed>>
      BY <1>4 DEF Read, client, parser
    <2>a. garbled' \in BOOLEAN
      BY <2>4
    <2> HIDE DEF U, s
    <2>5. /\ inbuffer_' \in BufferOf(U) /\ InRange(inbuffer_')
          /\ ~garbled' => readable(inbuffer_') = readable(inbuffer_) \o s
      BY <2>1, <2>3, <2>4, ReadKeeps
    <2>6. readable(inbuffer_) \o s = SubSeq(stream, consumed + 1, sent)
      BY <2>2 DEF s
    <2>7. /\ consumed' = consumed /\ sent' = sent /\ stream' = stream
          /\ consumed <= sent
      BY <2>2, <2>4
    <2>8. ~garbled' => readable(inbuffer_') = SubSeq(stream', consumed' + 1, taken')
      BY <2>4, <2>5, <2>6, <2>7
    <2>9. /\ stream' \in Seq(Symbols)
          /\ sent' \in Nat /\ taken' \in Nat /\ consumed' \in Nat
          /\ consumed' <= taken' /\ taken' <= sent' /\ sent' <= Len(stream')
      BY <2>2, <2>4, <2>7
    <2> QED
      BY <2>a, <2>5, <2>8, <2>9 DEF InputInv, U
  <1>5. CASE ReadEof
    BY <1>1, <1>5 DEF ReadEof, client, parser
  <1>6. CASE NeedMore \/ BadRequest \/ Answer \/ NotAll
    BY <1>1, <1>6 DEF NeedMore, BadRequest, Answer, NotAll, client, parser, socket
  <1>7. CASE ParseRequestLine \/ ParseHeader \/ ParseEmptyLine
    <2>1. /\ ~garbled /\ Retrieve(findCRLF(inbuffer_))
          /\ UNCHANGED <<stream, sent, taken, garbled>>
      BY <1>7 DEF ParseRequestLine, ParseHeader, ParseEmptyLine, Parsing, At,
                  client, socket
    <2> QED
      BY <1>2, <2>1, RetrieveKeepsInput
  <1>8. CASE ParseBody
    <2>1. /\ ~garbled /\ Retrieve(readsize(inbuffer_))
          /\ UNCHANGED <<stream, sent, taken, garbled>>
      BY <1>8 DEF ParseBody, Parsing, At, client, socket
    <2> QED
      BY <1>2, <2>1, RetrieveKeepsInput
  <1>9. CASE UNCHANGED httpvars
    BY <1>1, <1>9 DEF httpvars, client, parser, socket
  <1> QED
    BY <1>3, <1>4, <1>5, <1>6, <1>7, <1>8, <1>9 DEF HttpNext, HttpLoop, onMessage

\* What waits to be parsed is what was received and not yet retrieved, for any
\* conversation, any cuts of it, and any size of the vector, until a read
\* overruns the vector with bytes nobody sent.
THEOREM TheInputIsIntact == HttpSpec => []InputIntact
  <1>1. InputInv => InputIntact
    <2> SUFFICES ASSUME InputInv PROVE InputIntact
      OBVIOUS
    <2>1. /\ inbuffer_.readindex_ \in 0..inbuffer_.writeindex_
          /\ inbuffer_.writeindex_ \in 0..Len(inbuffer_.data)
      BY DEF InputInv, BufferOf, InRange
    <2> QED
      BY <2>1 DEF InputInv, InputIntact
  <1> QED
    BY <1>1, InputInit, InputStep, PTL DEF HttpSpec

-----------------------------------------------------------------------------
(* How a conversation is laid out in the stream.                           *)

LEMMA ConcatAt ==
    ASSUME NEW S, NEW a \in Seq(S), NEW b \in Seq(S)
    PROVE  /\ a \o b \in Seq(S) /\ Len(a) \in Nat /\ Len(b) \in Nat
           /\ Len(a \o b) = Len(a) + Len(b)
           /\ \A i \in 1..Len(a) : (a \o b)[i] = a[i]
           /\ \A i \in 1..Len(b) : (a \o b)[Len(a) + i] = b[i]
  OBVIOUS

\* s holds the first n headers, a line each.
HeaderLines(s, headers, n) ==
    /\ s \in Seq(Symbols) /\ Len(s) = 3 * n
    /\ \A j \in 1..n : /\ s[3 * j - 2] = headers[j]
                       /\ s[3 * j - 1] = "CR" /\ s[3 * j] = "LF"

LEMMA LineOfOne ==
    ASSUME NEW x \in Symbols
    PROVE  /\ Line(<<x>>) \in Seq(Symbols) /\ Len(Line(<<x>>)) = 3
           /\ Line(<<x>>)[1] = x /\ Line(<<x>>)[2] = "CR" /\ Line(<<x>>)[3] = "LF"
  <1>1. "CR" \in Symbols /\ "LF" \in Symbols
    BY DEF Symbols
  <1> DEFINE a == <<x>>
             b == <<"CR", "LF">>
  <1>2. /\ a \in Seq(Symbols) /\ Len(a) = 1 /\ a[1] = x
        /\ b \in Seq(Symbols) /\ Len(b) = 2 /\ b[1] = "CR" /\ b[2] = "LF"
    BY <1>1
  <1>3. Line(<<x>>) = a \o b
    BY DEF Line
  <1> HIDE DEF a, b
  <1>4. /\ a \o b \in Seq(Symbols) /\ Len(a \o b) = 3
        /\ (a \o b)[1] = a[1] /\ (a \o b)[2] = b[1] /\ (a \o b)[3] = b[2]
    BY <1>2, ConcatProperties, SMTT(30)
  <1> QED
    BY <1>2, <1>3, <1>4

LEMMA HeaderAdded ==
    ASSUME NEW s, NEW headers, NEW n \in Nat, HeaderLines(s, headers, n),
           headers[n + 1] \in Symbols
    PROVE  HeaderLines(s \o Line(<<headers[n + 1]>>), headers, n + 1)
  <1> DEFINE t == Line(<<headers[n + 1]>>)
             u == s \o t
  <1>1. /\ t \in Seq(Symbols) /\ Len(t) = 3
        /\ t[1] = headers[n + 1] /\ t[2] = "CR" /\ t[3] = "LF"
    BY LineOfOne
  <1>2. /\ s \in Seq(Symbols) /\ Len(s) = 3 * n
        /\ \A j \in 1..n : /\ s[3 * j - 2] = headers[j]
                           /\ s[3 * j - 1] = "CR" /\ s[3 * j] = "LF"
    BY DEF HeaderLines
  <1> HIDE DEF t
  <1>3. /\ u \in Seq(Symbols) /\ Len(u) = 3 * n + 3
        /\ \A i \in 1..(3 * n) : u[i] = s[i]
        /\ u[3 * n + 1] = t[1] /\ u[3 * n + 2] = t[2] /\ u[3 * n + 3] = t[3]
    <2>1. /\ u \in Seq(Symbols) /\ Len(u) = Len(s) + Len(t)
          /\ \A i \in 1..Len(s) : u[i] = s[i]
          /\ \A i \in 1..Len(t) : u[Len(s) + i] = t[i]
      <3>1. s \in Seq(Symbols) /\ t \in Seq(Symbols)
        BY <1>1, <1>2
      <3> QED
        BY <3>1, ConcatAt
    <2> HIDE DEF u
    <2> QED
      BY <1>1, <1>2, <2>1
  <1> HIDE DEF u
  <1>4. ASSUME NEW j \in 1..(n + 1)
        PROVE  /\ u[3 * j - 2] = headers[j]
               /\ u[3 * j - 1] = "CR" /\ u[3 * j] = "LF"
    <2>1. CASE j = n + 1
      BY <1>1, <1>3, <2>1
    <2>2. CASE j # n + 1
      <3>1. /\ j \in 1..n /\ 3 * j - 2 \in 1..(3 * n)
            /\ 3 * j - 1 \in 1..(3 * n) /\ 3 * j \in 1..(3 * n)
        BY <2>2
      <3> QED
        BY <1>2, <1>3, <3>1
    <2> QED
      BY <2>1, <2>2
  <1>5. Len(u) = 3 * (n + 1)
    BY <1>3
  <1>6. HeaderLines(u, headers, n + 1)
    BY <1>3, <1>4, <1>5 DEF HeaderLines
  <1> QED
    BY <1>6 DEF u, t

LEMMA HeadersLaid ==
    ASSUME NEW headers \in Seq(Headers)
    PROVE  HeaderLines(FlattenSeq([i \in DOMAIN headers |-> Line(<<headers[i]>>)]),
                       headers, Len(headers))
  <1> DEFINE hs == [i \in DOMAIN headers |-> Line(<<headers[i]>>)]
             n == Len(headers)
  <1>1. /\ n \in Nat /\ DOMAIN headers = 1..n
        /\ \A i \in 1..n : headers[i] \in Symbols
    BY DEF Symbols
  <1>2. \A i \in 1..n : hs[i] = Line(<<headers[i]>>)
    BY <1>1
  <1>3. hs \in Seq(Seq(Symbols)) /\ Len(hs) = n
    <2>1. \A i \in 1..n : Line(<<headers[i]>>) \in Seq(Symbols)
      BY <1>1, LineOfOne
    <2> QED
      BY <1>1, <2>1
  <1> HIDE DEF hs, n
  <1>4. HeaderLines(<<>>, headers, 0)
    BY DEF HeaderLines
  <1>5. CASE n = 0
    <2>1. FlattenSeq(hs) = <<>>
      BY <1>3, <1>5 DEF FlattenSeq
    <2> QED
      BY <1>4, <1>5, <2>1 DEF hs, n
  <1>6. CASE n # 0
    <2>1. PICK f : Flattens(f, hs, n) /\ FlattenSeq(hs) = f[n]
      BY <1>1, <1>3, <1>6, FlattenAs
    <2> DEFINE Bad == {k \in 1..n : ~HeaderLines(f[k], headers, k)}
    <2>2. Bad = {}
      <3>1. SUFFICES ASSUME Bad # {} PROVE FALSE
        OBVIOUS
      <3>2. PICK x \in Bad : \A k \in Bad : x <= k
        <4>1. Bad \subseteq Nat
          OBVIOUS
        <4> HIDE DEF Bad
        <4> QED
          BY <3>1, <4>1, LeastNatural
      <3>3. x \in 1..n /\ ~HeaderLines(f[x], headers, x)
        OBVIOUS
      <3>4. f[x] = IF x = 1 THEN hs[x] ELSE f[x - 1] \o hs[x]
        BY <2>1, <3>3, Zenon DEF Flattens
      <3>5. \A k \in 1..n : k < x => HeaderLines(f[k], headers, k)
        <4>1. \A k \in 1..n : k < x => k \notin Bad
          <5> HIDE DEF Bad
          <5> QED
            BY <1>1, <3>2, <3>3
        <4> QED
          BY <4>1
      <3> HIDE DEF Bad
      <3> DEFINE before == IF x = 1 THEN <<>> ELSE f[x - 1]
                 y == x - 1
      <3>6. y \in Nat /\ y + 1 = x /\ headers[y + 1] \in Symbols
        BY <1>1, <3>3
      <3>7. HeaderLines(before, headers, y)
        <4>1. CASE x = 1
          BY <1>4, <4>1
        <4>2. CASE x # 1
          <5>1. y \in 1..n /\ y < x
            BY <1>1, <3>3, <4>2
          <5> QED
            BY <3>5, <4>2, <5>1
        <4> QED
          BY <4>1, <4>2
      <3>8. f[x] = before \o Line(<<headers[y + 1]>>)
        <4>1. Line(<<headers[x]>>) \in Seq(Symbols) /\ hs[x] = Line(<<headers[x]>>)
          BY <1>1, <1>2, <3>3, LineOfOne
        <4>2. \A s \in Seq(Symbols) : <<>> \o s = s
          OBVIOUS
        <4> QED
          BY <3>4, <3>6, <4>1, <4>2
      <3> HIDE DEF before, y
      <3>9. HeaderLines(before \o Line(<<headers[y + 1]>>), headers, y + 1)
        BY <3>6, <3>7, HeaderAdded
      <3> QED
        BY <3>3, <3>6, <3>8, <3>9
    <2>3. n \in 1..n
      BY <1>1, <1>6
    <2> QED
      BY <2>1, <2>2, <2>3 DEF hs, n
  <1> QED
    BY <1>5, <1>6

\* The request r is in s, behind its first a symbols.
RequestAt(s, a, r) ==
    LET heads == a + 3
        empty == heads + 3 * Len(r.headers)
    IN  /\ s[a + 1] = r.line /\ s[a + 2] = "CR" /\ s[a + 3] = "LF"
        /\ \A j \in 1..Len(r.headers) :
              /\ s[heads + 3 * j - 2] = r.headers[j]
              /\ s[heads + 3 * j - 1] = "CR" /\ s[heads + 3 * j] = "LF"
        /\ s[empty + 1] = "CR" /\ s[empty + 2] = "LF"
        /\ \A i \in 1..Len(r.body) : s[empty + 2 + i] = r.body[i]

SizeOf(r) == 3 * Len(r.headers) + 5 + Len(r.body)

LEMMA RequestTypes ==
    ASSUME NEW r \in Requests
    PROVE  /\ r.line \in Symbols /\ r.line \in RequestLines \cup {"bad"}
           /\ r.headers \in Seq(Headers) /\ Len(r.headers) \in Nat
           /\ \A j \in 1..Len(r.headers) : r.headers[j] \in Headers
           /\ r.body \in Seq(Symbols) /\ Len(r.body) \in Nat
           /\ SizeOf(r) \in Nat
  <1>1. /\ r.line \in Symbols /\ r.line \in RequestLines \cup {"bad"}
        /\ r.headers \in Seq(Headers) /\ r.body \in Seq({"text"})
    BY DEF Requests, Symbols
  <1>2. Len(r.headers) \in Nat /\ Len(r.body) \in Nat
        /\ \A j \in 1..Len(r.headers) : r.headers[j] \in Headers
    BY <1>1
  <1>3. r.body \in Seq(Symbols)
    BY DEF Requests, Symbols
  <1>4. SizeOf(r) \in Nat
    <2> DEFINE h == Len(r.headers)
               b == Len(r.body)
    <2>1. h \in Nat /\ b \in Nat /\ SizeOf(r) = 3 * h + 5 + b
      BY <1>2 DEF SizeOf
    <2> HIDE DEF h, b
    <2> QED
      BY <2>1
  <1> QED
    BY <1>1, <1>2, <1>3, <1>4

LEMMA EncodeLaid ==
    ASSUME NEW r \in Requests
    PROVE  /\ Encode(r) \in Seq(Symbols) /\ Len(Encode(r)) = SizeOf(r)
           /\ RequestAt(Encode(r), 0, r)
  <1> DEFINE w == Line(<<r.line>>)
             x == FlattenSeq([i \in DOMAIN r.headers |-> Line(<<r.headers[i]>>)])
             y == Line(<<>>)
             z == r.body
             h == Len(r.headers)
  <1>1. /\ w \in Seq(Symbols) /\ Len(w) = 3
        /\ w[1] = r.line /\ w[2] = "CR" /\ w[3] = "LF"
    BY RequestTypes, LineOfOne
  <1>2. HeaderLines(x, r.headers, h)
    BY RequestTypes, HeadersLaid
  <1>3. y \in Seq(Symbols) /\ Len(y) = 2 /\ y[1] = "CR" /\ y[2] = "LF"
    BY DEF Line, Symbols
  <1>4. z \in Seq(Symbols) /\ Len(z) \in Nat /\ h \in Nat
    BY RequestTypes
  <1>5. Encode(r) = ((w \o x) \o y) \o z
    BY DEF Encode
  <1> HIDE DEF w, x, y
  <1>6. /\ x \in Seq(Symbols) /\ Len(x) = 3 * h
        /\ \A j \in 1..h : /\ x[3 * j - 2] = r.headers[j]
                           /\ x[3 * j - 1] = "CR" /\ x[3 * j] = "LF"
    BY <1>2 DEF HeaderLines
  <1> HIDE DEF h, z
  <1> DEFINE u == w \o x
  <1>7. /\ u \in Seq(Symbols) /\ Len(u) = 3 + 3 * h
        /\ u[1] = w[1] /\ u[2] = w[2] /\ u[3] = w[3]
        /\ \A i \in 1..(3 * h) : u[3 + i] = x[i]
    <2>1. /\ u \in Seq(Symbols) /\ Len(u) = Len(w) + Len(x)
          /\ \A i \in 1..Len(w) : u[i] = w[i]
          /\ \A i \in 1..Len(x) : u[Len(w) + i] = x[i]
      <3>1. w \in Seq(Symbols) /\ x \in Seq(Symbols)
        BY <1>1, <1>3, <1>4, <1>6
      <3> QED
        BY <3>1, ConcatAt
    <2> HIDE DEF u
    <2> QED
      BY <1>1, <1>4, <1>6, <2>1
  <1> HIDE DEF u
  <1> DEFINE v == u \o y
  <1>8. /\ v \in Seq(Symbols) /\ Len(v) = 5 + 3 * h
        /\ \A i \in 1..(3 + 3 * h) : v[i] = u[i]
        /\ v[4 + 3 * h] = y[1] /\ v[5 + 3 * h] = y[2]
    <2>1. /\ v \in Seq(Symbols) /\ Len(v) = Len(u) + Len(y)
          /\ \A i \in 1..Len(u) : v[i] = u[i]
          /\ \A i \in 1..Len(y) : v[Len(u) + i] = y[i]
      <3>1. u \in Seq(Symbols) /\ y \in Seq(Symbols)
        BY <1>1, <1>3, <1>4, <1>6, <1>7
      <3> QED
        BY <3>1, ConcatAt
    <2> HIDE DEF v
    <2> QED
      BY <1>3, <1>4, <1>7, <2>1
  <1> HIDE DEF v
  <1> DEFINE e == v \o z
  <1>9. /\ e \in Seq(Symbols) /\ Len(e) = 5 + 3 * h + Len(z)
        /\ \A i \in 1..(5 + 3 * h) : e[i] = v[i]
        /\ \A i \in 1..Len(z) : e[5 + 3 * h + i] = z[i]
    <2>1. /\ e \in Seq(Symbols) /\ Len(e) = Len(v) + Len(z)
          /\ \A i \in 1..Len(v) : e[i] = v[i]
          /\ \A i \in 1..Len(z) : e[Len(v) + i] = z[i]
      <3>1. v \in Seq(Symbols) /\ z \in Seq(Symbols)
        BY <1>1, <1>3, <1>4, <1>6, <1>8
      <3> QED
        BY <3>1, ConcatAt
    <2> HIDE DEF e
    <2> QED
      BY <1>4, <1>8, <2>1
  <1> HIDE DEF e
  <1>10. e[1] = r.line /\ e[2] = "CR" /\ e[3] = "LF"
    BY <1>1, <1>4, <1>7, <1>8, <1>9
  <1>11. ASSUME NEW j \in 1..h
         PROVE  /\ e[3 + 3 * j - 2] = r.headers[j]
                /\ e[3 + 3 * j - 1] = "CR" /\ e[3 + 3 * j] = "LF"
    <2>1. /\ 3 * j - 2 \in 1..(3 * h) /\ 3 * j - 1 \in 1..(3 * h)
          /\ 3 * j \in 1..(3 * h)
      BY <1>4
    <2>2. \A i \in 1..(3 * h) : e[3 + i] = x[i]
      <3>1. \A i \in 1..(3 * h) : 3 + i \in 1..(3 + 3 * h) /\ 3 + i \in 1..(5 + 3 * h)
        BY <1>4
      <3> QED
        BY <1>7, <1>8, <1>9, <3>1
    <2>3. /\ 3 + 3 * j - 2 = 3 + (3 * j - 2) /\ 3 + 3 * j - 1 = 3 + (3 * j - 1)
      BY <1>4
    <2> QED
      BY <1>6, <2>1, <2>2, <2>3
  <1>12. e[3 + 3 * h + 1] = "CR" /\ e[3 + 3 * h + 2] = "LF"
    BY <1>3, <1>4, <1>8, <1>9
  <1>13. \A i \in 1..Len(z) : e[3 + 3 * h + 2 + i] = z[i]
    BY <1>4, <1>9
  <1>14. RequestAt(e, 0, r)
    BY <1>10, <1>11, <1>12, <1>13 DEF RequestAt, h, z
  <1>15. Len(e) = SizeOf(r)
    <2>1. SizeOf(r) = 3 * h + 5 + Len(z)
      BY DEF SizeOf, h, z
    <2> QED
      BY <1>4, <1>9, <2>1
  <1> QED
    BY <1>5, <1>9, <1>14, <1>15 DEF e, v, u

-----------------------------------------------------------------------------
\* What has been sent when the first n requests of c have.
Sent(c, n) == EncodeAll(SubSeq(c, 1, n))

LEMMA SentNext ==
    ASSUME NEW c \in Seq(Requests), NEW n \in 0..(Len(c) - 1)
    PROVE  Sent(c, n + 1) = Sent(c, n) \o Encode(c[n + 1])
  <1> DEFINE ss == [i \in 1..n |-> Encode(c[i])]
             x == Encode(c[n + 1])
  <1>1. Len(c) \in Nat /\ n \in Nat /\ n + 1 \in 1..Len(c)
    OBVIOUS
  <1>2. \A i \in 1..Len(c) : Encode(c[i]) \in Seq(Symbols)
    BY EncodeLaid
  <1>3. ss \in Seq(Seq(Symbols)) /\ x \in Seq(Symbols) /\ Len(ss) = n
    BY <1>1, <1>2
  <1>4. Sent(c, n) = FlattenSeq(ss)
    <2>1. DOMAIN SubSeq(c, 1, n) = 1..n
          /\ \A i \in 1..n : SubSeq(c, 1, n)[i] = c[i]
      BY <1>1
    <2> QED
      BY <2>1 DEF Sent, EncodeAll
  <1>5. Sent(c, n + 1) = FlattenSeq(Append(ss, x))
    <2>1. DOMAIN SubSeq(c, 1, n + 1) = 1..(n + 1)
          /\ \A i \in 1..(n + 1) : SubSeq(c, 1, n + 1)[i] = c[i]
      BY <1>1
    <2>2. Append(ss, x) = [i \in 1..(n + 1) |-> Encode(c[i])]
      <3>1. Append(ss, x) = [i \in 1..(n + 1) |-> IF i = n + 1 THEN x ELSE ss[i]]
        BY <1>1, <1>3
      <3> QED
        BY <1>1, <3>1
    <2> QED
      BY <2>1, <2>2 DEF Sent, EncodeAll
  <1> HIDE DEF ss, x
  <1>6. FlattenSeq(Append(ss, x)) = FlattenSeq(ss) \o x
    BY <1>3, FlattenAppend
  <1> QED
    BY <1>4, <1>5, <1>6 DEF x

LEMMA SentTyped ==
    ASSUME NEW c \in Seq(Requests), NEW n \in 0..Len(c)
    PROVE  Sent(c, n) \in Seq(Symbols)
  <1>1. SubSeq(c, 1, n) \in Seq(Requests)
    OBVIOUS
  <1> QED
    BY <1>1, StreamTyped DEF Sent

\* s begins with t.
Begins(t, s) == Len(t) <= Len(s) /\ \A i \in 1..Len(t) : s[i] = t[i]

LEMMA SentBegins ==
    ASSUME NEW c \in Seq(Requests)
    PROVE  \A n \in 0..Len(c) : Begins(Sent(c, n), EncodeAll(c))
  <1> DEFINE N == Len(c)
             s == EncodeAll(c)
             Bad == {k \in 0..N : ~Begins(Sent(c, N - k), s)}
  <1>1. N \in Nat /\ Sent(c, N) = s
    <2>1. SubSeq(c, 1, Len(c)) = c /\ Len(c) \in Nat
      OBVIOUS
    <2>2. Sent(c, Len(c)) = EncodeAll(c)
      BY <2>1 DEF Sent
    <2> QED
      BY <2>1, <2>2
  <1>2. s \in Seq(Symbols) /\ \A n \in 0..N : Sent(c, n) \in Seq(Symbols)
    BY StreamTyped, SentTyped
  <1>3. Bad = {}
    <2>1. SUFFICES ASSUME Bad # {} PROVE FALSE
      OBVIOUS
    <2>2. PICK k \in Bad : \A m \in Bad : k <= m
      <3>1. Bad \subseteq Nat
        OBVIOUS
      <3> HIDE DEF Bad
      <3> QED
        BY <2>1, <3>1, LeastNatural
    <2>3. k \in 0..N /\ ~Begins(Sent(c, N - k), s)
      OBVIOUS
    <2>4. \A m \in 0..N : m < k => Begins(Sent(c, N - m), s)
      <3>1. \A m \in 0..N : m < k => m \notin Bad
        <4> HIDE DEF Bad
        <4> QED
          BY <1>1, <2>2, <2>3
      <3> QED
        BY <3>1
    <2> HIDE DEF Bad, N, s
    <2>5. k # 0
      <3>1. Begins(s, s)
        BY <1>2 DEF Begins
      <3>2. N - 0 = N
        BY <1>1
      <3> QED
        BY <1>1, <2>3, <3>1, <3>2
    <2> DEFINE n == N - k
               t == Sent(c, n)
               x == Encode(c[n + 1])
    <2>6. n \in 0..(N - 1) /\ n \in 0..N /\ n + 1 = N - (k - 1)
          /\ k - 1 \in 0..N /\ k - 1 < k /\ n + 1 \in 1..N
      BY <1>1, <2>3, <2>5
    <2>7. Begins(Sent(c, n + 1), s) /\ Sent(c, n + 1) = t \o x
      BY <2>4, <2>6, SentNext DEF N
    <2>8. t \in Seq(Symbols) /\ x \in Seq(Symbols)
      BY <1>2, <2>6, EncodeLaid DEF N
    <2> HIDE DEF t, x, n
    <2>9. /\ Len(t \o x) = Len(t) + Len(x) /\ Len(t) \in Nat /\ Len(x) \in Nat
          /\ \A i \in 1..Len(t) : (t \o x)[i] = t[i]
      BY <2>8, ConcatAt
    <2>10. Len(s) \in Nat
      BY <1>2
    <2>11. Begins(t, s)
      BY <2>7, <2>9, <2>10 DEF Begins
    <2> QED
      BY <2>3, <2>11 DEF t, n
  <1>4. \A n \in 0..N : N - n \in 0..N /\ N - (N - n) = n
    BY <1>1
  <1> HIDE DEF N, s
  <1>5. \A k \in 0..N : Begins(Sent(c, N - k), s)
    BY <1>3
  <1> QED
    BY <1>4, <1>5 DEF N, s

\* Where the n-th request begins, or the stream ends.
StartOf(n) == IF n = 1 THEN 0 ELSE ends[n - 1]

Laid ==
    /\ conversation \in Conversations /\ conversation \in Seq(Requests)
    /\ Len(ends) = Len(conversation)
    /\ StartOf(Len(conversation) + 1) = Len(stream)
    /\ \A n \in 1..Len(conversation) :
          /\ StartOf(n) \in Nat
          /\ ends[n] = StartOf(n) + SizeOf(conversation[n])
          /\ ends[n] <= Len(stream)
          /\ RequestAt(stream, StartOf(n), conversation[n])

LEMMA InitLaid == HttpInit => Laid
  <1> SUFFICES ASSUME HttpInit PROVE Laid
    OBVIOUS
  <1> DEFINE c == conversation
             N == Len(c)
  <1>1. /\ c \in Conversations /\ c \in Seq(Requests) /\ N \in Nat
        /\ stream = EncodeAll(c)
    BY HttpServerAssumption DEF HttpServerAssumption, HttpInit
  <1>2. Len(ends) = N /\ \A n \in 1..N : ends[n] = Len(Sent(c, n))
    BY <1>1 DEF HttpInit, Sent
  <1>3. stream \in Seq(Symbols) /\ Len(stream) \in Nat
    BY <1>1, StreamTyped
  <1>4. Len(Sent(c, 0)) = 0
    <2>1. SubSeq(c, 1, 0) = <<>>
      BY <1>1
    <2>2. [i \in DOMAIN <<>> |-> Encode(<<>>[i])] = <<>>
      OBVIOUS
    <2>3. EncodeAll(<<>>) = <<>>
      BY <2>2 DEF EncodeAll, FlattenSeq
    <2>4. Sent(c, 0) = <<>>
      BY <2>1, <2>3 DEF Sent
    <2> QED
      BY <2>4
  <1>5. \A n \in 1..(N + 1) : StartOf(n) = Len(Sent(c, n - 1))
    BY <1>1, <1>2, <1>4 DEF StartOf
  <1>6. StartOf(N + 1) = Len(stream)
    <2>1. SubSeq(c, 1, N) = c /\ (N + 1) - 1 = N /\ N + 1 \in 1..(N + 1)
      BY <1>1
    <2> QED
      BY <1>1, <1>5, <2>1 DEF Sent
  <1>7. ASSUME NEW n \in 1..N
        PROVE  /\ StartOf(n) \in Nat
               /\ ends[n] = StartOf(n) + SizeOf(c[n])
               /\ ends[n] <= Len(stream)
               /\ RequestAt(stream, StartOf(n), c[n])
    <2> DEFINE m == n - 1
               t == Sent(c, m)
               r == c[n]
               x == Encode(r)
    <2>1. /\ m \in 0..(N - 1) /\ m \in 0..N /\ m + 1 = n /\ n \in 0..N
          /\ n \in 1..(N + 1)
      BY <1>1
    <2>2. r \in Requests
      BY <1>1
    <2>3. /\ x \in Seq(Symbols) /\ Len(x) = SizeOf(r) /\ RequestAt(x, 0, r)
          /\ SizeOf(r) \in Nat
      BY <2>2, EncodeLaid, RequestTypes
    <2>4. Sent(c, n) = t \o x /\ t \in Seq(Symbols)
      BY <1>1, <2>1, SentNext, SentTyped
    <2>5. Begins(Sent(c, n), stream)
      BY <1>1, <2>1, SentBegins
    <2> HIDE DEF t, x
    <2>6. /\ Len(t \o x) = Len(t) + Len(x) /\ Len(t) \in Nat
          /\ \A i \in 1..Len(x) : (t \o x)[Len(t) + i] = x[i]
      <3>1. t \in Seq(Symbols) /\ x \in Seq(Symbols)
        BY <2>3, <2>4
      <3> QED
        BY <3>1, ConcatAt
    <2>7. /\ ends[n] = Len(t) + SizeOf(r) /\ ends[n] <= Len(stream)
          /\ \A i \in 1..SizeOf(r) : stream[Len(t) + i] = x[i]
      <3>1. \A i \in 1..SizeOf(r) : Len(t) + i \in 1..(Len(t) + SizeOf(r))
        BY <2>3, <2>6
      <3> QED
        BY <1>2, <2>3, <2>4, <2>5, <2>6, <3>1 DEF Begins
    <2>8. StartOf(n) = Len(t)
      BY <1>5, <2>1 DEF t
    <2> DEFINE a == Len(t)
    <2> HIDE DEF m, N
    <2>9. RequestAt(stream, a, r)
      <3> DEFINE h == Len(r.headers)
                 b == Len(r.body)
                 size == SizeOf(r)
      <3>1. h \in Nat /\ b \in Nat /\ size = 3 * h + 5 + b /\ a \in Nat
        BY <2>2, <2>6, RequestTypes DEF SizeOf
      <3>2. \A i \in 1..size : stream[a + i] = x[i]
        BY <2>7
      <3> HIDE DEF a, size, h, b
      <3>3. stream[a + 1] = r.line /\ stream[a + 2] = "CR" /\ stream[a + 3] = "LF"
        <4>1. x[1] = r.line /\ x[2] = "CR" /\ x[3] = "LF"
          BY <2>3 DEF RequestAt
        <4>2. 1 \in 1..size /\ 2 \in 1..size /\ 3 \in 1..size
          BY <3>1
        <4> QED
          BY <3>2, <4>1, <4>2
      <3>4. ASSUME NEW j \in 1..h
            PROVE  /\ stream[a + 3 + 3 * j - 2] = r.headers[j]
                   /\ stream[a + 3 + 3 * j - 1] = "CR"
                   /\ stream[a + 3 + 3 * j] = "LF"
        <4>1. /\ 0 + 3 + 3 * j - 2 \in 1..size /\ 0 + 3 + 3 * j - 1 \in 1..size
              /\ 0 + 3 + 3 * j \in 1..size
              /\ a + 3 + 3 * j - 2 = a + (0 + 3 + 3 * j - 2)
              /\ a + 3 + 3 * j - 1 = a + (0 + 3 + 3 * j - 1)
              /\ a + 3 + 3 * j = a + (0 + 3 + 3 * j)
          BY <3>1
        <4>2. /\ x[0 + 3 + 3 * j - 2] = r.headers[j]
              /\ x[0 + 3 + 3 * j - 1] = "CR" /\ x[0 + 3 + 3 * j] = "LF"
          BY <2>3 DEF RequestAt, h
        <4> QED
          BY <3>2, <4>1, <4>2
      <3>5. stream[a + 3 + 3 * h + 1] = "CR" /\ stream[a + 3 + 3 * h + 2] = "LF"
        <4>1. x[0 + 3 + 3 * h + 1] = "CR" /\ x[0 + 3 + 3 * h + 2] = "LF"
          BY <2>3 DEF RequestAt, h, b
        <4>2. /\ 0 + 3 + 3 * h + 1 \in 1..size /\ 0 + 3 + 3 * h + 2 \in 1..size
              /\ a + 3 + 3 * h + 1 = a + (0 + 3 + 3 * h + 1)
              /\ a + 3 + 3 * h + 2 = a + (0 + 3 + 3 * h + 2)
          BY <3>1
        <4> QED
          BY <3>2, <4>1, <4>2
      <3>6. ASSUME NEW i \in 1..b
            PROVE  stream[a + 3 + 3 * h + 2 + i] = r.body[i]
        <4>1. x[0 + 3 + 3 * h + 2 + i] = r.body[i]
          BY <2>3 DEF RequestAt, h, b
        <4>2. /\ 0 + 3 + 3 * h + 2 + i \in 1..size
              /\ a + 3 + 3 * h + 2 + i = a + (0 + 3 + 3 * h + 2 + i)
          BY <3>1
        <4> QED
          BY <3>2, <4>1, <4>2
      <3> QED
        BY <3>3, <3>4, <3>5, <3>6 DEF RequestAt, h, b
    <2> QED
      BY <2>6, <2>7, <2>8, <2>9
  <1> QED
    BY <1>1, <1>2, <1>6, <1>7 DEF Laid

-----------------------------------------------------------------------------
(* What the parser finds.                                                  *)

LEMMA FirstOfSeq ==
    ASSUME NEW S, NEW s \in Seq(S), Len(s) >= 1
    PROVE  SubSeq(s, 1, 1) = <<s[1]>>
  <1> DEFINE a == SubSeq(s, 1, 1)
             b == <<s[1]>>
  <1>1. /\ a \in Seq(S) /\ Len(a) = 1 /\ a[1] = s[1]
        /\ b \in Seq(S) /\ Len(b) = 1 /\ b[1] = s[1]
    OBVIOUS
  <1>2. \A i \in 1..1 : i = 1
    OBVIOUS
  <1> HIDE DEF a, b
  <1>3. a = b
    BY <1>1, <1>2
  <1> QED
    BY <1>3 DEF a, b

\* The next line is whole: it is the one the client sent.
LEMMA NextLine ==
    ASSUME InputInv, ~garbled, findCRLF(inbuffer_) # 0
    PROVE  /\ consumed < taken
           /\ stream[consumed + 1] # "CR" /\ stream[consumed + 2] = "CR"
              /\ stream[consumed + 3] = "LF"
                 => /\ findCRLF(inbuffer_) = 3
                    /\ FirstLine(inbuffer_) = <<stream[consumed + 1]>>
           /\ stream[consumed + 1] = "CR" /\ stream[consumed + 2] = "LF"
                 => findCRLF(inbuffer_) = 2 /\ FirstLine(inbuffer_) = <<>>
  <1> DEFINE s == readable(inbuffer_)
             crlfs == {i \in 2..Len(s) : s[i - 1] = "CR" /\ s[i] = "LF"}
             size == taken - consumed
             m == Min(crlfs)
  <1>1. /\ stream \in Seq(Symbols) /\ consumed \in Nat /\ taken \in Nat
        /\ Len(stream) \in Nat /\ consumed <= taken /\ taken <= Len(stream)
        /\ s = SubSeq(stream, consumed + 1, taken) /\ size \in Nat
    BY DEF InputInv
  <1>2. /\ s \in Seq(Symbols) /\ Len(s) = size
        /\ \A i \in 1..size : s[i] = stream[consumed + i]
    <2> DEFINE u == SubSeq(stream, consumed + 1, taken)
    <2>1. /\ u \in Seq(Symbols) /\ Len(u) = size
          /\ \A i \in 1..size : u[i] = stream[consumed + i]
      BY <1>1
    <2> HIDE DEF u, s
    <2>2. s = u
      BY <1>1 DEF u
    <2> QED
      BY <2>1, <2>2
  <1>3. /\ findCRLF(inbuffer_) = m /\ crlfs # {}
        /\ FirstLine(inbuffer_) = SubSeq(s, 1, m - 2)
    BY DEF findCRLF, FirstLine
  <1>4. m \in crlfs /\ \A i \in crlfs : m <= i
    <2>1. crlfs \subseteq Nat
      OBVIOUS
    <2> HIDE DEF crlfs
    <2> QED
      BY <1>3, <2>1, LeastNatural DEF Min
  <1> HIDE DEF s, m
  <1>5. m \in 2..size /\ s[m - 1] = "CR" /\ s[m] = "LF"
    BY <1>2, <1>4
  <1>6. \A i \in 2..size : s[i - 1] = "CR" /\ s[i] = "LF" => m <= i
    BY <1>2, <1>4
  <1> HIDE DEF crlfs, size
  <1>7. consumed < taken
    BY <1>1, <1>5 DEF size
  <1>8. ASSUME stream[consumed + 1] # "CR", stream[consumed + 2] = "CR",
               stream[consumed + 3] = "LF"
        PROVE  m = 3 /\ SubSeq(s, 1, m - 2) = <<stream[consumed + 1]>>
    <2>1. m # 2
      <3>1. 1 \in 1..size
        BY <1>1, <1>5
      <3> QED
        BY <1>2, <1>5, <1>8, <3>1
    <2>2. 3 \in 2..size /\ 3 - 1 \in 1..size /\ 3 \in 1..size /\ 1 \in 1..size
      BY <1>1, <1>5, <2>1
    <2>3. s[3 - 1] = "CR" /\ s[3] = "LF" /\ s[1] = stream[consumed + 1]
      BY <1>2, <1>8, <2>2
    <2>4. m <= 3
      BY <1>6, <2>2, <2>3
    <2>5. m = 3
      BY <1>1, <1>5, <2>1, <2>4
    <2>6. SubSeq(s, 1, 1) = <<s[1]>>
      <3>1. s \in Seq(Symbols) /\ Len(s) >= 1
        BY <1>1, <1>2, <1>5
      <3> QED
        BY <3>1, FirstOfSeq
    <2> QED
      BY <2>3, <2>5, <2>6
  <1>9. ASSUME stream[consumed + 1] = "CR", stream[consumed + 2] = "LF"
        PROVE  m = 2 /\ SubSeq(s, 1, m - 2) = <<>>
    <2>1. 2 \in 2..size /\ 2 - 1 \in 1..size /\ 2 \in 1..size
      BY <1>1, <1>5
    <2>2. s[2 - 1] = "CR" /\ s[2] = "LF"
      BY <1>2, <1>9, <2>1
    <2>a. m <= 2
      BY <1>6, <2>1, <2>2
    <2>3. m = 2
      BY <1>1, <1>5, <2>a
    <2>4. SubSeq(s, 1, 0) = <<>>
      BY <1>2
    <2> QED
      BY <2>3, <2>4
  <1> QED
    BY <1>3, <1>7, <1>8, <1>9

LEMMA LineTyped ==
    ASSUME InputInv, findCRLF(inbuffer_) # 0
    PROVE  FirstLine(inbuffer_) \in Seq(Symbols \cup {Junk})
  <1> DEFINE U == Symbols \cup {Junk}
             s == readable(inbuffer_)
             m == findCRLF(inbuffer_)
  <1>1. Junk \in U /\ inbuffer_ \in BufferOf(U)
    BY DEF InputInv
  <1> HIDE DEF U
  <1>2. /\ s \in Seq(U) /\ Len(s) \in Nat /\ Len(s) = readsize(inbuffer_)
        /\ m \in 0..Len(s)
    BY <1>1, ReadableIsSeq, findCRLFInRange
  <1> HIDE DEF s, m
  <1>3. SubSeq(s, 1, m - 2) \in Seq(U)
    BY <1>2
  <1> QED
    BY <1>3 DEF FirstLine, s, m, U

LEMMA OptionOfNone ==
    ASSUME NEW h PROVE Option(h, 0) = "none"
  <1>1. {i \in 1..0 : h[i] # "host"} = {}
    OBVIOUS
  <1> QED
    BY <1>1 DEF Option

LEMMA OptionNext ==
    ASSUME NEW h, NEW j \in Nat
    PROVE  Option(h, j + 1) = IF h[j + 1] = "host" THEN Option(h, j) ELSE h[j + 1]
  <1> DEFINE A == {i \in 1..j : h[i] # "host"}
             B == {i \in 1..(j + 1) : h[i] # "host"}
  <1>1. CASE h[j + 1] = "host"
    <2>1. A = B
      BY <1>1
    <2> QED
      BY <1>1, <2>1 DEF Option
  <1>2. CASE h[j + 1] # "host"
    <2>1. j + 1 \in B /\ \A i \in B : i \in Nat /\ i <= j + 1
      BY <1>2
    <2> HIDE DEF B
    <2>2. \A x \in B : (\A y \in B : x >= y) => x = j + 1
      BY <2>1
    <2>3. \A y \in B : j + 1 >= y
      BY <2>1
    <2>4. Max(B) = j + 1
      BY <2>1, <2>2, <2>3 DEF Max
    <2> QED
      BY <1>2, <2>1, <2>4 DEF Option, B
  <1> QED
    BY <1>1, <1>2

-----------------------------------------------------------------------------
(* The parser's place in the conversation.                                 *)

Refused == \E n \in DOMAIN replies : replies[n].status = "400"

\* Requests are parsed one after the other: while the n-th is, what has been
\* retrieved ends where it begins, or behind one of its lines, or at its end.
Place ==
    LET n == Len(replies) + 1
        r == conversation[n]
        heads == StartOf(n) + 3
    IN  /\ n <= Len(conversation) + 1
        /\ parsestate_ = "kExpectRequestLine" =>
              consumed = StartOf(n) /\ request_.connection = "none"
        /\ parsestate_ # "kExpectRequestLine" =>
              /\ n <= Len(conversation) /\ r.line # "bad"
              /\ request_.method = Method(<<r.line>>)
              /\ request_.version = Version(<<r.line>>)
        /\ parsestate_ = "kExpectHeaders" =>
              \E j \in 0..Len(r.headers) :
                 /\ consumed = heads + 3 * j
                 /\ request_.connection = Option(r.headers, j)
        /\ parsestate_ = "kExpectBody" =>
              /\ r.line = "post" /\ consumed = heads + 3 * Len(r.headers) + 2
              /\ request_.connection = Option(r.headers, Len(r.headers))
        /\ parsestate_ = "kGotAll" =>
              /\ consumed = ends[n]
              /\ request_.connection = Option(r.headers, Len(r.headers))
              /\ r.line = "post" => request_.body = r.body

Parsed ==
    [method : {"kInvalid", "kPost", "kGet"}, version : {"kHttp10", "kHttp11"},
     connection : Symbols \cup {Junk, "none"}, body : Seq(Symbols \cup {Junk})]
Replies == [status : {"400"}] \cup [status : {"200"}, request : Parsed]

AnswerTypes == request_ \in Parsed /\ replies \in Seq(Replies)

InTurn ==
    ~torn => \A n \in DOMAIN replies :
       \/ \E k \in 1..(n - 1) : replies[k].status = "400"
       \/ /\ n <= Len(conversation)
          /\ AnswerTo(replies[n], conversation[n])
          /\ taken >= EndOf(n) \/ replies[n].status = "400"

ShutByAnswer ==
    inputshut => \E n \in DOMAIN replies :
       replies[n].status = "400" \/ Closes(replies[n].request)

AnswerInv ==
    /\ Laid /\ AnswerTypes /\ InTurn /\ ShutByAnswer
    /\ ~torn /\ ~Refused => Place

\* Where the parser is in the n-th request, and that there is one.
LEMMA PlaceTypes ==
    ASSUME InputInv, AnswerInv, ~torn, ~Refused
    PROVE  LET n == Len(replies) + 1 IN
           /\ Place /\ n \in Nat \ {0} /\ Len(conversation) \in Nat
           /\ n <= Len(conversation) + 1
           /\ StartOf(Len(conversation) + 1) = Len(stream)
           /\ n <= Len(conversation) =>
                 /\ n \in 1..Len(conversation) /\ conversation[n] \in Requests
                 /\ StartOf(n) \in Nat
                 /\ ends[n] = StartOf(n) + SizeOf(conversation[n])
                 /\ RequestAt(stream, StartOf(n), conversation[n])
                 /\ EndOf(n) = ends[n] /\ StartOf(n + 1) = ends[n]
  <1> DEFINE n == Len(replies) + 1
             N == Len(conversation)
  <1>1. Place
    BY DEF AnswerInv
  <1>2. n \in Nat \ {0} /\ N \in Nat
    BY DEF AnswerInv, AnswerTypes, Laid
  <1>3. n <= N + 1
    BY <1>1 DEF Place
  <1>4. ASSUME n <= N
        PROVE  /\ n \in 1..N /\ conversation[n] \in Requests
               /\ StartOf(n) \in Nat
               /\ ends[n] = StartOf(n) + SizeOf(conversation[n])
               /\ RequestAt(stream, StartOf(n), conversation[n])
               /\ EndOf(n) = ends[n] /\ StartOf(n + 1) = ends[n]
    <2>1. n \in 1..N
      BY <1>2, <1>4
    <2>2. conversation[n] \in Requests
      BY <2>1 DEF AnswerInv, Laid
    <2> HIDE DEF n, N
    <2>3. Len(ends) = N
      BY DEF AnswerInv, Laid, N
    <2>4. EndOf(n) = ends[n] /\ StartOf(n + 1) = ends[n]
      BY <1>2, <1>4, <2>3 DEF EndOf, StartOf
    <2> QED
      BY <2>1, <2>2, <2>4 DEF AnswerInv, Laid, N
  <1>5. StartOf(N + 1) = Len(stream)
    BY DEF AnswerInv, Laid
  <1> QED
    BY <1>1, <1>2, <1>3, <1>4, <1>5

\* A line that is whole is one of a request the client sent.
LEMMA RequestThere ==
    ASSUME InputInv, AnswerInv, ~torn, ~Refused, consumed < taken,
           parsestate_ = "kExpectRequestLine"
    PROVE  Len(replies) + 1 <= Len(conversation)
  <1> DEFINE n == Len(replies) + 1
             N == Len(conversation)
  <1>1. /\ Place /\ n \in Nat /\ N \in Nat /\ n <= N + 1
        /\ StartOf(N + 1) = Len(stream)
    BY PlaceTypes
  <1>2. consumed = StartOf(n)
    BY <1>1 DEF Place
  <1>3. taken <= Len(stream) /\ taken \in Nat /\ Len(stream) \in Nat
    BY DEF InputInv
  <1> HIDE DEF n, N
  <1>4. n # N + 1
    BY <1>1, <1>2, <1>3
  <1>5. n <= N
    BY <1>1, <1>4
  <1> QED
    BY <1>5 DEF n, N

\* Nothing happens to the conversation but that more of it arrives.
LEMMA AnswersKept ==
    ASSUME InputInv, AnswerInv, taken' \in Nat, taken' >= taken,
           UNCHANGED <<conversation, stream, ends, consumed, parsestate_,
                       request_, replies, inputshut, torn>>
    PROVE  AnswerInv'
  <1>1. Laid'
    BY DEF AnswerInv, Laid, StartOf
  <1>2. AnswerTypes' /\ ShutByAnswer'
    BY DEF AnswerInv, AnswerTypes, ShutByAnswer
  <1>3. InTurn'
    <2>1. \A n \in Nat : EndOf(n)' = EndOf(n)
      BY DEF EndOf
    <2>2. ASSUME NEW n \in DOMAIN replies, taken >= EndOf(n) PROVE taken' >= EndOf(n)
      <3>1. EndOf(n) \in Nat
        <4>1. n \in Nat
          BY DEF AnswerInv, AnswerTypes
        <4>2. Len(stream) \in Nat /\ Len(ends) = Len(conversation)
              /\ Len(conversation) \in Nat
          BY DEF AnswerInv, Laid, InputInv
        <4>3. CASE n > Len(ends)
          BY <4>2, <4>3 DEF EndOf
        <4>4. CASE ~(n > Len(ends))
          <5>1. n \in 1..Len(conversation)
            BY <4>1, <4>2, <4>4 DEF AnswerInv, AnswerTypes
          <5>2. SizeOf(conversation[n]) \in Nat
            BY <5>1, RequestTypes DEF AnswerInv, Laid
          <5> QED
            BY <4>4, <5>1, <5>2 DEF AnswerInv, Laid, EndOf
        <4> QED
          BY <4>3, <4>4
      <3>2. taken \in Nat
        BY DEF InputInv
      <3> QED
        BY <2>2, <3>1, <3>2
    <2> QED
      BY <2>1, <2>2 DEF AnswerInv, InTurn, AnswerTypes
  <1>4. ~torn' /\ ~Refused' => Place'
    BY DEF AnswerInv, Refused, Place, StartOf
  <1> QED
    BY <1>1, <1>2, <1>3, <1>4 DEF AnswerInv

\* The parser goes on: what was answered stays as it is.
LEMMA ParserGoesOn ==
    ASSUME InputInv, AnswerInv, request_' \in Parsed, torn => torn',
           ~torn' /\ ~Refused => Place',
           UNCHANGED <<conversation, stream, ends, taken, replies, inputshut>>
    PROVE  AnswerInv'
  <1>1. Laid'
    BY DEF AnswerInv, Laid, StartOf
  <1>2. AnswerTypes' /\ ShutByAnswer'
    BY DEF AnswerInv, AnswerTypes, ShutByAnswer
  <1>3. InTurn'
    <2>1. \A n : EndOf(n)' = EndOf(n)
      BY DEF EndOf
    <2> QED
      BY <2>1 DEF AnswerInv, InTurn
  <1>4. Refused' <=> Refused
    BY DEF Refused
  <1> QED
    BY <1>1, <1>2, <1>3, <1>4 DEF AnswerInv

\* A reply is sent.
LEMMA ReplySent ==
    ASSUME InputInv, AnswerInv, request_' \in Parsed, NEW x \in Replies,
           replies' = Append(replies, x),
           UNCHANGED <<conversation, stream, ends, taken, torn>>,
           ~torn /\ ~Refused =>
              LET n == Len(replies) + 1 IN
              /\ n <= Len(conversation)
              /\ AnswerTo(x, conversation[n])
              /\ taken >= EndOf(n) \/ x.status = "400",
           ~torn /\ ~Refused' => Place',
           inputshut' => inputshut \/ x.status = "400" \/ Closes(x.request)
    PROVE  AnswerInv'
  <1> DEFINE n == Len(replies) + 1
  <1>1. Laid'
    BY DEF AnswerInv, Laid, StartOf
  <1>2. /\ replies' \in Seq(Replies) /\ n \in Nat /\ Len(replies') = n
        /\ replies'[n] = x /\ DOMAIN replies = 1..(n - 1) /\ DOMAIN replies' = 1..n
        /\ \A i \in 1..(n - 1) : replies'[i] = replies[i]
    BY DEF AnswerInv, AnswerTypes
  <1> HIDE DEF n
  <1>3. ShutByAnswer'
    <2>1. \A i \in 1..(n - 1) : i \in 1..n
      BY <1>2
    <2>2. n \in 1..n
      <3>1. n >= 1
        BY DEF AnswerInv, AnswerTypes, n
      <3> QED
        BY <1>2, <3>1
    <2> QED
      BY <1>2, <2>1, <2>2 DEF AnswerInv, ShutByAnswer
  <1>4. InTurn'
    <2>1. \A i : EndOf(i)' = EndOf(i)
      BY DEF EndOf
    <2>2. SUFFICES ASSUME ~torn, NEW i \in 1..n
                   PROVE  \/ \E k \in 1..(i - 1) : replies'[k].status = "400"
                          \/ /\ i <= Len(conversation)
                             /\ AnswerTo(replies'[i], conversation[i])
                             /\ taken >= EndOf(i) \/ replies'[i].status = "400"
      BY <1>2, <2>1 DEF InTurn
    <2>3. \A k \in 1..(i - 1) : k \in 1..(n - 1)
      BY <1>2
    <2>4. CASE i = n
      <3>1. CASE Refused
        BY <1>2, <2>4, <3>1 DEF Refused
      <3>2. CASE ~Refused
        BY <1>2, <2>2, <2>4, <3>2 DEF n
      <3> QED
        BY <3>1, <3>2
    <2>5. CASE i # n
      <3>1. i \in 1..(n - 1)
        BY <1>2, <2>5
      <3> QED
        BY <1>2, <2>2, <2>3, <3>1 DEF AnswerInv, InTurn
    <2> QED
      BY <2>4, <2>5
  <1>5. AnswerTypes'
    BY <1>2 DEF AnswerTypes
  <1> QED
    BY <1>1, <1>3, <1>4, <1>5 DEF AnswerInv

LEMMA ParseLineStep ==
    ASSUME InputInv, AnswerInv, ParseRequestLine
    PROVE  AnswerInv'
  <1> DEFINE line == FirstLine(inbuffer_)
             U == Symbols \cup {Junk}
  <1>1. /\ ~garbled /\ parsestate_ = "kExpectRequestLine"
        /\ findCRLF(inbuffer_) # 0 /\ IsRequestLine(line)
        /\ request_' = [request_ EXCEPT !.method = Method(line),
                                        !.version = Version(line)]
        /\ consumed' = consumed + findCRLF(inbuffer_)
        /\ parsestate_' = "kExpectHeaders"
        /\ UNCHANGED <<conversation, stream, ends, taken, replies, inputshut, torn>>
    BY DEF ParseRequestLine, Parsing, At, Retrieve, client, socket, output
  <1>2. request_ \in Parsed
    BY DEF AnswerInv, AnswerTypes
  <1>3. request_' \in Parsed
    <2>1. /\ Method(line) \in {"kInvalid", "kPost", "kGet"}
          /\ Version(line) \in {"kHttp10", "kHttp11"}
      BY DEF Method, Version
    <2> HIDE DEF line
    <2> QED
      BY <1>1, <1>2, <2>1 DEF Parsed
  <1>4. ASSUME ~torn, ~Refused PROVE Place'
    <2> DEFINE n == Len(replies) + 1
               r == conversation[n]
               a == StartOf(n)
    <2>1. n <= Len(conversation)
      BY <1>1, <1>4, NextLine, RequestThere
    <2>2. /\ Place /\ r \in Requests /\ a \in Nat
          /\ RequestAt(stream, a, r)
      BY <1>4, <2>1, PlaceTypes
    <2>3. consumed = a /\ request_.connection = "none"
      BY <1>1, <2>2 DEF Place
    <2>4. /\ stream[consumed + 1] = r.line /\ stream[consumed + 2] = "CR"
          /\ stream[consumed + 3] = "LF" /\ r.line # "CR"
      <3>1. r.line # "CR"
        BY <2>2, RequestTypes DEF RequestLines
      <3> QED
        BY <2>2, <2>3, <3>1 DEF RequestAt
    <2>5. findCRLF(inbuffer_) = 3 /\ line = <<r.line>>
      BY <1>1, <2>4, NextLine
    <2> HIDE DEF line
    <2>6. r.line # "bad"
      <3>1. Last(<<r.line>>) = r.line
        BY DEF Last
      <3> QED
        BY <1>1, <2>5, <3>1 DEF IsRequestLine, RequestLines
    <2>7. /\ request_'.method = Method(<<r.line>>)
          /\ request_'.version = Version(<<r.line>>)
          /\ request_'.connection = request_.connection
      BY <1>1, <1>2, <2>5 DEF Parsed
    <2>8. /\ 0 \in 0..Len(r.headers) /\ Option(r.headers, 0) = "none"
          /\ consumed' = a + 3 + 3 * 0
      <3>1. 0 \in 0..Len(r.headers)
        BY <2>2, RequestTypes
      <3>2. consumed' = a + 3 + 3 * 0
        BY <1>1, <2>2, <2>3, <2>5
      <3> QED
        BY <3>1, <3>2, OptionOfNone
    <2>9. n' = n /\ r' = r /\ a' = a /\ (Len(conversation))' = Len(conversation)
      BY <1>1 DEF StartOf
    <2>10. \E j \in 0..Len(r.headers) :
              /\ consumed' = a + 3 + 3 * j
              /\ request_'.connection = Option(r.headers, j)
      BY <2>3, <2>7, <2>8
    <2>11. n <= Len(conversation) + 1
      BY <2>2 DEF Place
    <2> HIDE DEF n, r, a
    <2> QED
      BY <1>1, <2>1, <2>6, <2>7, <2>9, <2>10, <2>11 DEF Place, n, r, a
  <1> HIDE DEF line
  <1> QED
    BY <1>1, <1>3, <1>4, ParserGoesOn

\* Among the headers the next line is a header, or the empty one behind them.
LEMMA HeaderNext ==
    ASSUME InputInv, AnswerInv, ~torn, ~Refused, ~garbled,
           parsestate_ = "kExpectHeaders", findCRLF(inbuffer_) # 0
    PROVE  LET n == Len(replies) + 1
               r == conversation[n]
               heads == StartOf(n) + 3
           IN  \E j \in 0..Len(r.headers) :
                  /\ consumed = heads + 3 * j
                  /\ request_.connection = Option(r.headers, j)
                  /\ j < Len(r.headers) =>
                        /\ findCRLF(inbuffer_) = 3
                        /\ FirstLine(inbuffer_) = <<r.headers[j + 1]>>
                        /\ r.headers[j + 1] \in Headers
                  /\ j = Len(r.headers) =>
                        findCRLF(inbuffer_) = 2 /\ FirstLine(inbuffer_) = <<>>
  <1> DEFINE n == Len(replies) + 1
             r == conversation[n]
             a == StartOf(n)
             h == Len(r.headers)
  <1>1. n <= Len(conversation)
    BY PlaceTypes DEF Place
  <1>2. Place /\ r \in Requests /\ a \in Nat /\ RequestAt(stream, a, r)
    BY <1>1, PlaceTypes
  <1>3. h \in Nat /\ \A j \in 1..h : r.headers[j] \in Headers
    BY <1>2, RequestTypes
  <1>4. PICK j \in 0..h : /\ consumed = a + 3 + 3 * j
                          /\ request_.connection = Option(r.headers, j)
    BY <1>2 DEF Place
  <1>5. ASSUME j < h
        PROVE  /\ findCRLF(inbuffer_) = 3
               /\ FirstLine(inbuffer_) = <<r.headers[j + 1]>>
               /\ r.headers[j + 1] \in Headers
    <2>1. j + 1 \in 1..h
      BY <1>3, <1>5
    <2>2. r.headers[j + 1] \in Headers /\ r.headers[j + 1] # "CR"
      BY <1>3, <2>1 DEF Headers
    <2> DEFINE k == j + 1
    <2>3. /\ stream[a + 3 + 3 * k - 2] = r.headers[k]
          /\ stream[a + 3 + 3 * k - 1] = "CR" /\ stream[a + 3 + 3 * k] = "LF"
      BY <1>2, <2>1 DEF RequestAt
    <2>4. /\ a + 3 + 3 * k - 2 = consumed + 1
          /\ a + 3 + 3 * k - 1 = consumed + 2
          /\ a + 3 + 3 * k = consumed + 3
      <3> HIDE DEF n, r, a, h
      <3> QED
        BY <1>2, <1>3, <1>4, SMTT(30)
    <2>5. /\ stream[consumed + 1] = r.headers[k]
          /\ stream[consumed + 2] = "CR" /\ stream[consumed + 3] = "LF"
      BY <2>3, <2>4
    <2> QED
      BY <2>2, <2>5, NextLine
  <1>6. ASSUME j = h
        PROVE  findCRLF(inbuffer_) = 2 /\ FirstLine(inbuffer_) = <<>>
    <2>1. /\ stream[a + 3 + 3 * h + 1] = "CR" /\ stream[a + 3 + 3 * h + 2] = "LF"
      BY <1>2 DEF RequestAt
    <2>2. stream[consumed + 1] = "CR" /\ stream[consumed + 2] = "LF"
      BY <1>4, <1>6, <2>1
    <2> QED
      BY <2>2, NextLine
  <1> QED
    BY <1>4, <1>5, <1>6

LEMMA ParseHeaderStep ==
    ASSUME InputInv, AnswerInv, ParseHeader
    PROVE  AnswerInv'
  <1> DEFINE line == FirstLine(inbuffer_)
             U == Symbols \cup {Junk}
  <1>1. /\ ~garbled /\ parsestate_ = "kExpectHeaders"
        /\ findCRLF(inbuffer_) # 0 /\ IsHeader(line)
        /\ request_' = AddHeader(request_, line)
        /\ consumed' = consumed + findCRLF(inbuffer_)
        /\ UNCHANGED <<conversation, stream, ends, taken, replies, inputshut,
                       torn, parsestate_>>
    BY DEF ParseHeader, Parsing, At, Retrieve, client, socket, output
  <1>2. request_ \in Parsed
    BY DEF AnswerInv, AnswerTypes
  <1>3. request_' \in Parsed
    <2>1. line \in Seq(U)
      BY <1>1, LineTyped
    <2> HIDE DEF line, U
    <2>2. Last(line) \in U
      <3>1. Len(line) \in 1..Len(line)
        BY <1>1, <2>1 DEF IsHeader
      <3> QED
        BY <2>1, <3>1 DEF Last
    <2>3. Last(line) \in Symbols \cup {Junk, "none"}
      BY <2>2 DEF U
    <2> QED
      BY <1>1, <1>2, <2>3 DEF Parsed, AddHeader
  <1>4. ASSUME ~torn, ~Refused PROVE Place'
    <2> DEFINE n == Len(replies) + 1
               r == conversation[n]
               a == StartOf(n)
               h == Len(r.headers)
    <2>1. n <= Len(conversation)
      BY <1>1, <1>4, PlaceTypes DEF Place
    <2>2. Place /\ r \in Requests /\ a \in Nat
      BY <1>4, <2>1, PlaceTypes
    <2>3. h \in Nat
      BY <2>2, RequestTypes
    <2>4. PICK j \in 0..h :
             /\ consumed = a + 3 + 3 * j
             /\ request_.connection = Option(r.headers, j)
             /\ j < h => /\ findCRLF(inbuffer_) = 3
                         /\ line = <<r.headers[j + 1]>>
             /\ j = h => line = <<>>
      BY <1>1, <1>4, HeaderNext
    <2>5. j # h
      <3>1. line # <<>>
        BY <1>1 DEF IsHeader
      <3> QED
        BY <2>4, <3>1
    <2>6. j \in Nat /\ j < h /\ j + 1 \in 0..h
      BY <2>3, <2>4, <2>5
    <2> HIDE DEF line
    <2>7. consumed' = a + 3 + 3 * (j + 1)
      BY <1>1, <2>2, <2>4, <2>6
    <2>8. /\ request_'.connection = Option(r.headers, j + 1)
          /\ request_'.method = request_.method
          /\ request_'.version = request_.version
      <3> DEFINE x == r.headers[j + 1]
      <3>a. \A y : Last(<<y>>) = y
        BY DEF Last
      <3>1. Last(line) = x
        BY <2>4, <2>6, <3>a
      <3>2. Option(r.headers, j + 1) = IF x = "host" THEN Option(r.headers, j) ELSE x
        BY <2>6, OptionNext
      <3> HIDE DEF x
      <3> QED
        BY <1>1, <1>2, <2>4, <3>1, <3>2 DEF AddHeader, Parsed
    <2>9. n' = n /\ r' = r /\ a' = a /\ (Len(conversation))' = Len(conversation)
      BY <1>1 DEF StartOf
    <2>10. \E i \in 0..h :
              /\ consumed' = a + 3 + 3 * i
              /\ request_'.connection = Option(r.headers, i)
      BY <2>6, <2>7, <2>8
    <2>11. /\ n <= Len(conversation) + 1 /\ r.line # "bad"
           /\ request_.method = Method(<<r.line>>)
           /\ request_.version = Version(<<r.line>>)
      BY <1>1, <2>2 DEF Place
    <2> HIDE DEF n, r, a
    <2> QED
      BY <1>1, <2>1, <2>8, <2>9, <2>10, <2>11 DEF Place, n, r, a
  <1> HIDE DEF line
  <1> QED
    BY <1>1, <1>3, <1>4, ParserGoesOn

LEMMA ParseEmptyLineStep ==
    ASSUME OnlyPostsHaveBodies, InputInv, AnswerInv, ParseEmptyLine
    PROVE  AnswerInv'
  <1> DEFINE line == FirstLine(inbuffer_)
  <1>1. /\ ~garbled /\ parsestate_ = "kExpectHeaders"
        /\ findCRLF(inbuffer_) # 0 /\ ~IsHeader(line)
        /\ consumed' = consumed + findCRLF(inbuffer_)
        /\ parsestate_' = IF request_.method = "kPost" THEN "kExpectBody"
                                                       ELSE "kGotAll"
        /\ UNCHANGED <<conversation, stream, ends, taken, replies, inputshut,
                       torn, request_>>
    BY DEF ParseEmptyLine, Parsing, At, Retrieve, client, socket, output
  <1>2. request_' \in Parsed
    BY <1>1 DEF AnswerInv, AnswerTypes
  <1>3. ASSUME ~torn, ~Refused PROVE Place'
    <2> DEFINE n == Len(replies) + 1
               r == conversation[n]
               a == StartOf(n)
               h == Len(r.headers)
    <2>1. n <= Len(conversation)
      BY <1>1, <1>3, PlaceTypes DEF Place
    <2>2. /\ Place /\ r \in Requests /\ a \in Nat /\ n \in 1..Len(conversation)
          /\ ends[n] = a + SizeOf(r)
      BY <1>3, <2>1, PlaceTypes
    <2>3. h \in Nat
      BY <2>2, RequestTypes
    <2>4. PICK j \in 0..h :
             /\ consumed = a + 3 + 3 * j
             /\ request_.connection = Option(r.headers, j)
             /\ j < h => line = <<r.headers[j + 1]>> /\ r.headers[j + 1] \in Headers
             /\ j = h => findCRLF(inbuffer_) = 2
      BY <1>1, <1>3, HeaderNext
    <2> HIDE DEF line
    <2>5. j = h
      <3>1. SUFFICES ASSUME j < h PROVE FALSE
        BY <2>3
      <3>2. DOMAIN line = {1} /\ line[1] \in Headers
        BY <2>4, <3>1
      <3> QED
        BY <1>1, <3>2 DEF IsHeader
    <2>6. /\ consumed' = a + 3 + 3 * h + 2
          /\ request_.connection = Option(r.headers, h)
      BY <1>1, <2>2, <2>3, <2>4, <2>5
    <2>7. /\ n <= Len(conversation) + 1 /\ r.line # "bad"
          /\ request_.method = Method(<<r.line>>)
          /\ request_.version = Version(<<r.line>>)
      BY <1>1, <2>2 DEF Place
    <2>8. request_.method = "kPost" <=> r.line = "post"
      <3>1. Method(<<r.line>>) = IF r.line = "post" THEN "kPost" ELSE "kGet"
        <4>1. Len(<<r.line>>) = 1 /\ (<<r.line>> = <<"post">> <=> r.line = "post")
          OBVIOUS
        <4> QED
          BY <4>1 DEF Method
      <3> QED
        BY <2>7, <3>1
    <2>9. r.line # "post" => ends[n] = consumed'
      <3>1. r.line # "post" => Len(r.body) = 0
        BY <2>2 DEF OnlyPostsHaveBodies, AnswerInv, Laid
      <3> DEFINE b == Len(r.body)
                 z == SizeOf(r)
                 e == ends[n]
      <3>2. z = 3 * h + 5 + b
        BY DEF SizeOf
      <3>3. e = a + z /\ (r.line # "post" => b = 0)
        BY <2>2, <3>1
      <3>4. r.line # "post" => e = consumed'
        <4> HIDE DEF h, a, b, z, e
        <4> QED
          BY <2>2, <2>3, <2>6, <3>2, <3>3
      <3> QED
        BY <3>4
    <2>10. /\ n' = n /\ r' = r /\ a' = a /\ (Len(conversation))' = Len(conversation)
           /\ ends' = ends
      BY <1>1 DEF StartOf
    <2> HIDE DEF n, r, a
    <2> QED
      BY <1>1, <2>1, <2>6, <2>7, <2>8, <2>9, <2>10 DEF Place, n, r, a
  <1> HIDE DEF line
  <1> QED
    BY <1>1, <1>2, <1>3, ParserGoesOn

LEMMA ParseBodyStep ==
    ASSUME InputInv, AnswerInv, ParseBody
    PROVE  AnswerInv'
  <1> DEFINE U == Symbols \cup {Junk}
             s == readable(inbuffer_)
  <1>1. /\ ~garbled /\ parsestate_ = "kExpectBody"
        /\ request_' = [request_ EXCEPT !.body = s]
        /\ consumed' = consumed + readsize(inbuffer_)
        /\ parsestate_' = "kGotAll"
        /\ torn' = (torn \/ consumed' # EndOf(Len(replies) + 1))
        /\ UNCHANGED <<conversation, stream, ends, taken, replies, inputshut>>
    BY DEF ParseBody, Parsing, At, Retrieve, client, socket, output
  <1>2. request_ \in Parsed
    BY DEF AnswerInv, AnswerTypes
  <1>3. s \in Seq(U) /\ Len(s) = readsize(inbuffer_) /\ readsize(inbuffer_) \in Nat
    <2>1. Junk \in U /\ inbuffer_ \in BufferOf(U)
      BY DEF InputInv
    <2> HIDE DEF U
    <2> QED
      BY <2>1, ReadableIsSeq
  <1>4. request_' \in Parsed
    <2> HIDE DEF s
    <2> QED
      BY <1>1, <1>2, <1>3 DEF Parsed
  <1>5. /\ stream \in Seq(Symbols) /\ consumed \in Nat /\ taken \in Nat
        /\ Len(stream) \in Nat /\ consumed <= taken /\ taken <= Len(stream)
        /\ s = SubSeq(stream, consumed + 1, taken)
    BY <1>1 DEF InputInv
  <1>6. Len(s) = taken - consumed /\ \A i \in 1..Len(s) : s[i] = stream[consumed + i]
    <2> DEFINE u == SubSeq(stream, consumed + 1, taken)
    <2>1. /\ Len(u) = taken - consumed
          /\ \A i \in 1..(taken - consumed) : u[i] = stream[consumed + i]
      BY <1>5
    <2> HIDE DEF u, s
    <2>2. s = u
      BY <1>5 DEF u
    <2> QED
      BY <2>1, <2>2
  <1> HIDE DEF s
  <1>7. ASSUME ~torn', ~Refused PROVE Place'
    <2> DEFINE n == Len(replies) + 1
               r == conversation[n]
               a == StartOf(n)
               h == Len(r.headers)
               b == Len(r.body)
    <2>a. ~torn
      BY <1>1, <1>7
    <2>1. n <= Len(conversation)
      BY <1>1, <1>7, <2>a, PlaceTypes DEF Place
    <2>2. /\ Place /\ r \in Requests /\ a \in Nat
          /\ ends[n] = a + SizeOf(r) /\ EndOf(n) = ends[n]
          /\ RequestAt(stream, a, r)
      BY <1>7, <2>a, <2>1, PlaceTypes
    <2>3. h \in Nat /\ b \in Nat /\ SizeOf(r) = 3 * h + 5 + b /\ r.body \in Seq(Symbols)
      BY <2>2, RequestTypes DEF SizeOf
    <2>4. /\ r.line = "post" /\ r.line # "bad" /\ consumed = a + 3 + 3 * h + 2
          /\ request_.connection = Option(r.headers, h)
          /\ request_.method = Method(<<r.line>>)
          /\ request_.version = Version(<<r.line>>)
      BY <1>1, <2>2 DEF Place
    <2>5. consumed' = ends[n]
      BY <1>1, <1>7, <2>2
    <2>6. s = r.body
      <3>1. \A i \in 1..b : stream[a + 3 + 3 * h + 2 + i] = r.body[i]
        BY <2>2 DEF RequestAt
      <3> DEFINE e == r.body
      <3>2. e \in Seq(Symbols) /\ Len(e) = b /\ \A i \in 1..b : stream[consumed + i] = e[i]
        BY <2>3, <2>4, <3>1
      <3>3. Len(s) = b
        <4> DEFINE z == SizeOf(r)
                   m == readsize(inbuffer_)
                   k == Len(s)
                   v == ends[n]
        <4>1. z = 3 * h + 5 + b /\ v = a + z /\ consumed' = v
          BY <2>2, <2>3, <2>5
        <4>2. k = m /\ m \in Nat /\ consumed' = consumed + m
          BY <1>1, <1>3
        <4>3. h \in Nat /\ b \in Nat /\ a \in Nat /\ consumed = a + 3 + 3 * h + 2
          BY <2>2, <2>3, <2>4
        <4>4. k = b
          <5> HIDE DEF z, m, k, v, h, b, a
          <5> QED
            BY <4>1, <4>2, <4>3
        <4> QED
          BY <4>4
      <3> HIDE DEF h, b, a, n, r
      <3> HIDE DEF e, U
      <3>4. \A i \in 1..b : s[i] = e[i]
        BY <1>6, <3>2, <3>3
      <3>5. s = e
        BY <1>3, <3>2, <3>3, <3>4
      <3> QED
        BY <3>5 DEF e, r, n
    <2>7. /\ request_'.connection = request_.connection
          /\ request_'.method = request_.method
          /\ request_'.version = request_.version /\ request_'.body = s
      BY <1>1, <1>2 DEF Parsed
    <2>8. /\ n' = n /\ r' = r /\ a' = a /\ (Len(conversation))' = Len(conversation)
          /\ ends' = ends
      BY <1>1 DEF StartOf
    <2>9. n <= Len(conversation) + 1
      BY <2>2 DEF Place
    <2> HIDE DEF n, r, a
    <2> QED
      BY <1>1, <2>1, <2>4, <2>5, <2>6, <2>7, <2>8, <2>9 DEF Place, n, r, a
  <1>8. torn => torn'
    BY <1>1
  <1> QED
    BY <1>1, <1>4, <1>7, <1>8, ParserGoesOn

LEMMA BadRequestStep ==
    ASSUME InputInv, AnswerInv, BadRequest
    PROVE  AnswerInv'
  <1> DEFINE x == [status |-> "400"]
  <1>1. /\ ~garbled /\ parsestate_ = "kExpectRequestLine"
        /\ findCRLF(inbuffer_) # 0 /\ ~IsRequestLine(FirstLine(inbuffer_))
        /\ replies' = Append(replies, x)
        /\ UNCHANGED <<conversation, stream, ends, taken, consumed, torn,
                       parsestate_, request_>>
    BY DEF BadRequest, Parsing, At, client, socket, parser
  <1>2. x \in Replies /\ x.status = "400"
    BY DEF Replies
  <1>3. request_' \in Parsed
    BY <1>1 DEF AnswerInv, AnswerTypes
  <1> HIDE DEF x
  <1>4. Refused'
    <2>1. Len(replies) + 1 \in DOMAIN replies' /\ replies'[Len(replies) + 1] = x
      BY <1>1, <1>2 DEF AnswerInv, AnswerTypes
    <2> QED
      BY <1>2, <2>1 DEF Refused
  <1>5. ASSUME ~torn, ~Refused
        PROVE  LET n == Len(replies) + 1 IN
               /\ n <= Len(conversation)
               /\ AnswerTo(x, conversation[n])
    <2> DEFINE n == Len(replies) + 1
               r == conversation[n]
               a == StartOf(n)
    <2>1. n <= Len(conversation)
      BY <1>1, <1>5, NextLine, RequestThere
    <2>2. Place /\ r \in Requests /\ RequestAt(stream, a, r)
      BY <1>5, <2>1, PlaceTypes
    <2>3. consumed = a
      BY <1>1, <2>2 DEF Place
    <2>4. /\ stream[consumed + 1] = r.line /\ stream[consumed + 2] = "CR"
          /\ stream[consumed + 3] = "LF" /\ r.line # "CR"
      <3>1. r.line # "CR"
        BY <2>2, RequestTypes DEF RequestLines
      <3> QED
        BY <2>2, <2>3, <3>1 DEF RequestAt
    <2>5. FirstLine(inbuffer_) = <<r.line>>
      BY <1>1, <2>4, NextLine
    <2>6. r.line = "bad"
      <3>1. SUFFICES ASSUME r.line \in RequestLines PROVE FALSE
        BY <2>2, RequestTypes
      <3> DEFINE l == r.line
                 t == <<l>>
      <3>2. t # <<>> /\ Last(t) = l /\ Len(t) - 1 = 0
        BY DEF Last
      <3> HIDE DEF t
      <3>3. IsRequestLine(t)
        BY <3>1, <3>2 DEF IsRequestLine
      <3> QED
        BY <1>1, <2>5, <3>3 DEF t
    <2>7. AnswerTo(x, r)
      BY <1>2, <2>6 DEF AnswerTo
    <2> QED
      BY <2>1, <2>7
  <1> QED
    BY <1>1, <1>2, <1>3, <1>4, <1>5, ReplySent

LEMMA AnswerStep ==
    ASSUME InputInv, AnswerInv, Answer
    PROVE  AnswerInv'
  <1> DEFINE x == [status |-> "200", request |-> request_]
  <1>1. /\ parsestate_ = "kGotAll"
        /\ replies' = Append(replies, x)
        /\ parsestate_' = "kExpectRequestLine"
        /\ request_' = [NewRequest EXCEPT !.body = request_.body]
        /\ UNCHANGED <<conversation, stream, ends, taken, consumed, torn>>
        /\ ~Closes(request_) => inputshut' = inputshut
    BY DEF Answer, At, client, socket, reset
  <1>2. request_ \in Parsed
    BY DEF AnswerInv, AnswerTypes
  <1>3. x \in Replies /\ x.status = "200" /\ x.request = request_
    BY <1>2 DEF Replies
  <1>4. request_' \in Parsed /\ request_'.connection = "none"
    BY <1>1, <1>2 DEF Parsed, NewRequest
  <1> HIDE DEF x
  <1>5. inputshut' => inputshut \/ x.status = "400" \/ Closes(x.request)
    BY <1>1, <1>3
  <1>6. ASSUME ~torn, ~Refused
        PROVE  LET n == Len(replies) + 1 IN
               /\ n <= Len(conversation)
               /\ AnswerTo(x, conversation[n])
               /\ taken >= EndOf(n)
    <2> DEFINE n == Len(replies) + 1
               r == conversation[n]
    <2>1. n <= Len(conversation)
      BY <1>1, <1>6, PlaceTypes DEF Place
    <2>2. Place /\ EndOf(n) = ends[n]
      BY <1>6, <2>1, PlaceTypes
    <2>3. /\ r.line # "bad" /\ consumed = ends[n]
          /\ request_.method = Method(<<r.line>>)
          /\ request_.version = Version(<<r.line>>)
          /\ request_.connection = Option(r.headers, Len(r.headers))
          /\ r.line = "post" => request_.body = r.body
      BY <1>1, <2>2 DEF Place
    <2>4. \A f \in {"method", "version", "connection"} : request_[f] = Meaning(r)[f]
      BY <2>3 DEF Meaning
    <2>5. AnswerTo(x, r)
      BY <1>3, <2>3, <2>4 DEF AnswerTo
    <2>6. taken >= EndOf(n)
      BY <2>2, <2>3 DEF InputInv
    <2> QED
      BY <2>1, <2>5, <2>6
  <1>7. ASSUME ~torn, ~Refused' PROVE Place'
    <2> DEFINE n == Len(replies) + 1
               N == Len(conversation)
    <2>1. /\ replies \in Seq(Replies) /\ n \in Nat /\ N \in Nat
          /\ DOMAIN replies = 1..(n - 1) /\ DOMAIN replies' = 1..n
          /\ \A i \in 1..(n - 1) : replies'[i] = replies[i]
          /\ Len(replies') = n
      BY <1>1, <1>3 DEF AnswerInv, AnswerTypes, Laid
    <2>2. ~Refused
      <3>1. \A i \in 1..(n - 1) : i \in 1..n
        BY <2>1
      <3> QED
        BY <1>7, <2>1, <3>1 DEF Refused
    <2>3. n <= N
      BY <1>6, <1>7, <2>2
    <2>4. Place /\ StartOf(n + 1) = ends[n]
      BY <1>7, <2>2, <2>3, PlaceTypes
    <2>5. consumed = ends[n]
      BY <1>1, <2>4 DEF Place
    <2>6. Len(replies') + 1 = n + 1 /\ n + 1 <= N + 1
      BY <2>1, <2>3
    <2>7. (\A i : StartOf(i)' = StartOf(i)) /\ N' = N
      BY <1>1 DEF StartOf
    <2> HIDE DEF n, N
    <2> QED
      BY <1>1, <1>4, <2>4, <2>5, <2>6, <2>7 DEF Place, N
  <1> QED
    BY <1>1, <1>3, <1>4, <1>5, <1>6, <1>7, ReplySent

LEMMA AnswerInit == HttpInit => AnswerInv
  <1> SUFFICES ASSUME HttpInit PROVE AnswerInv
    OBVIOUS
  <1>1. Laid
    BY InitLaid
  <1>2. /\ replies = <<>> /\ request_ = NewRequest /\ consumed = 0
        /\ parsestate_ = "kExpectRequestLine" /\ inputshut = FALSE
    BY DEF HttpInit
  <1>3. NewRequest \in Parsed /\ NewRequest.connection = "none"
    BY DEF NewRequest, Parsed
  <1>4. /\ <<>> \in Seq(Replies) /\ DOMAIN replies = {} /\ Len(replies) = 0
    BY <1>2
  <1>5. AnswerTypes /\ InTurn /\ ShutByAnswer
    BY <1>2, <1>3, <1>4 DEF AnswerTypes, InTurn, ShutByAnswer
  <1>6. Place
    <2>1. Len(conversation) \in Nat
      BY <1>1 DEF Laid
    <2> QED
      BY <1>2, <1>3, <1>4, <2>1 DEF Place, StartOf
  <1> QED
    BY <1>1, <1>5, <1>6 DEF AnswerInv

LEMMA AnswersStep ==
    ASSUME OnlyPostsHaveBodies, InputInv, AnswerInv, [HttpNext]_httpvars
    PROVE  AnswerInv'
  <1>1. taken \in Nat /\ sent \in Nat
    BY DEF InputInv
  <1>2. CASE ClientSends \/ ReadEof \/ NeedMore \/ NotAll
    <2>1. UNCHANGED <<conversation, stream, ends, consumed, parsestate_,
                      request_, replies, inputshut, torn, taken>>
      BY <1>2 DEF ClientSends, ReadEof, NeedMore, NotAll, client, parser,
                  socket, output
    <2> QED
      BY <1>1, <2>1, AnswersKept
  <1>3. CASE Read
    <2>1. /\ taken' = sent /\ sent > taken
          /\ UNCHANGED <<conversation, stream, ends, consumed, parsestate_,
                         request_, replies, inputshut, torn>>
      BY <1>3 DEF Read, client, parser, output
    <2> QED
      BY <1>1, <2>1, AnswersKept
  <1>4. CASE UNCHANGED httpvars
    <2>1. UNCHANGED <<conversation, stream, ends, consumed, parsestate_,
                      request_, replies, inputshut, torn, taken>>
      BY <1>4 DEF httpvars, client, parser, socket, output
    <2> QED
      BY <1>1, <2>1, AnswersKept
  <1> QED
    BY <1>2, <1>3, <1>4, ParseLineStep, ParseHeaderStep, ParseEmptyLineStep,
       ParseBodyStep, BadRequestStep, AnswerStep
       DEF HttpNext, HttpLoop, onMessage

\* Requests are answered in the order they came, for what they said and when
\* they are complete, whatever the conversation and however the network cuts
\* it, as long as no body was cut; and the input is shut by an answer only.
\* A body behind another request than a POST would be taken for the beginning
\* of the next (HttpContext.cc:21-88).
THEOREM RequestsAreAnsweredAsSent ==
    ASSUME OnlyPostsHaveBodies
    PROVE  HttpSpec => []AnsweredAsSent
  <1>1. InputInv /\ AnswerInv /\ [HttpNext]_httpvars => AnswerInv'
    BY AnswersStep
  <1>2. AnswerInv => AnsweredAsSent
    BY DEF AnswerInv, InTurn, ShutByAnswer, AnsweredAsSent
  <1> QED
    BY <1>1, <1>2, InputInit, InputStep, AnswerInit, PTL DEF HttpSpec
=============================================================================
