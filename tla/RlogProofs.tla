----------------------------- MODULE RlogProofs -----------------------------
(***************************************************************************)
(* Proofs about Rlog for any writers, lines and limit of the ring: the     *)
(* types, and that the lines are written in the order they were appended.  *)
(* The invariant says where the writers and the log thread are on the      *)
(* ring, and what the buffers between them hold.                           *)
(***************************************************************************)
EXTENDS Rlog, FiniteSetTheorems, SequenceTheorems, WellFoundedInduction, TLAPS

-----------------------------------------------------------------------------
(* Types.                                                                  *)

\* The calls of try_append that have not returned, each of which may append
\* a line.
InFlight == {w \in Writers : writerpc[w] # "out"}
CountInv ==
    /\ IsFiniteSet(InFlight)
    /\ appended + Cardinality(InFlight) <= tries

\* What the owner waited for, and the buffers the ring may yet get.
OwnerInv ==
    /\ ownerpc \in {"join", "flush", "done"} => \A w \in Writers : writerpc[w] = "out"
    /\ ownerpc \in {"flush", "done"} => logpc = "ended"
    /\ ownerpc = "new" => logpc = "none"
FreshInv ==
    \A b \in (_buf_cnt + 1)..MaxBufs : status[b] = "FREE" /\ lines[b] = <<>>

TypeInv == TypeOK /\ CountInv /\ OwnerInv /\ FreshInv

\* What append leaves of the text of a buffer, and what it puts there.
LEMMA OverwrittenIs ==
    ASSUME NEW S, NEW d \in Seq(S), NEW i \in 0..Len(d), NEW n \in Nat, NEW x \in S
    PROVE  /\ Overwritten(d, i, n, x) \in Seq(S)
           /\ Len(Overwritten(d, i, n, x)) = IF Len(d) > i + n THEN Len(d) ELSE i + n
           /\ \A k \in (i + 1)..(i + n) : Overwritten(d, i, n, x)[k] = x
  <1> DEFINE m == IF Len(d) > i + n THEN Len(d) ELSE i + n
             e == [k \in 1..m |-> IF k \in (i + 1)..(i + n) THEN x ELSE d[k]]
  <1>1. m \in Nat /\ Len(d) \in Nat /\ i \in Nat /\ i <= Len(d) /\ m >= Len(d)
        /\ m >= i + n /\ (m = Len(d) \/ m = i + n)
    OBVIOUS
  <1>2. e = Overwritten(d, i, n, x)
    BY DEF Overwritten
  <1> HIDE DEF m
  <1>3. \A k \in 1..m : k \notin (i + 1)..(i + n) => k \in 1..Len(d)
    BY <1>1
  <1>4. \A k \in 1..Len(d) : d[k] \in S
    OBVIOUS
  <1>5. \A k \in 1..m : e[k] = IF k \in (i + 1)..(i + n) THEN x ELSE d[k]
    BY Zenon
  <1>6. \A k \in 1..m : e[k] \in S
    BY <1>3, <1>4, <1>5
  <1>7. e \in Seq(S) /\ Len(e) = m
    <2>1. e \in [1..m -> S]
      BY <1>6
    <2>2. DOMAIN e = 1..m
      OBVIOUS
    <2> HIDE DEF e
    <2>3. e \in Seq(S)
      BY <1>1, <2>1, SeqDef
    <2> QED
      BY <1>1, <2>2, <2>3, LenProperties
  <1>8. \A k \in (i + 1)..(i + n) : k \in 1..m
    BY <1>1
  <1> HIDE DEF e
  <1>9. \A k \in (i + 1)..(i + n) : e[k] = x
    BY <1>5, <1>8
  <1>10. Len(e) = IF Len(d) > i + n THEN Len(d) ELSE i + n
    BY <1>7 DEF m
  <1> QED
    BY <1>2, <1>7, <1>9, <1>10

LEMMA InitTypes == Init => TypeInv
  <1> SUFFICES ASSUME Init PROVE TypeInv
    OBVIOUS
  <1>1. NumBufs \in Nat /\ NumBufs >= 2 /\ MaxBufs \in Nat /\ NumBufs <= MaxBufs
    BY RlogAssumption DEF RlogAssumption
  <1>2. \A b \in 1..NumBufs : (b % NumBufs) + 1 \in 1..NumBufs
    BY <1>1
  <1>3. <<>> \in Seq(0..MaxLines) /\ 0 \in 0..MaxLines /\ 0 \in 0..Capacity
        /\ 1 \in 1..MaxSec /\ 0 \in 0..MaxSec
    BY RlogAssumption DEF RlogAssumption
  <1>a. /\ lines \in [Bufs -> Seq(0..MaxLines)] /\ written \in Seq(0..MaxLines)
        /\ data \in [Bufs -> Seq(0..MaxLines)] /\ fp_ \in Seq(0..MaxLines)
        /\ \A b \in Bufs : index_[b] <= Len(data[b]) /\ Len(data[b]) <= Capacity
        /\ status \in [Bufs -> {"FREE", "FULL"}] /\ index_ \in [Bufs -> 0..Capacity]
    BY <1>3, RlogAssumption DEF Init, RlogAssumption
  <1>b. /\ _buf_cnt \in NumBufs..MaxBufs
        /\ cur_buf \in 1.._buf_cnt /\ prst_buf \in 1.._buf_cnt
        /\ next \in [1.._buf_cnt -> 1.._buf_cnt]
    <2>1. /\ _buf_cnt = NumBufs /\ cur_buf = 1 /\ prst_buf = 1
          /\ next = [b \in 1..NumBufs |-> (b % NumBufs) + 1]
      BY DEF Init
    <2>2. next \in [1..NumBufs -> 1..NumBufs]
      BY <1>2, <2>1, Zenon
    <2>3. next \in [1.._buf_cnt -> 1.._buf_cnt]
      BY <2>1, <2>2, Zenon
    <2>4. _buf_cnt \in NumBufs..MaxBufs /\ 1 \in 1.._buf_cnt
      BY <1>1, <2>1
    <2> QED
      BY <2>1, <2>3, <2>4, Zenon
  <1>4. TypeOK
    BY <1>3, <1>a, <1>b DEF Init, TypeOK
  <1>5. CountInv
    <2>1. InFlight = {}
      BY DEF Init, InFlight
    <2> QED
      BY <2>1, FS_EmptySet DEF Init, CountInv
  <1>6. OwnerInv /\ FreshInv
    BY <1>1 DEF Init, OwnerInv, FreshInv, Bufs
  <1> QED
    BY <1>4, <1>5, <1>6 DEF TypeInv

\* A writer that is not in flight joins them, and one that is leaves.
LEMMA FlightJoined ==
    ASSUME TypeInv, NEW w \in Writers, NEW pc, pc # "out",
           writerpc' = [writerpc EXCEPT ![w] = pc],
           writerpc[w] # "out" \/ tries' = tries + 1,
           writerpc[w] # "out" => tries' = tries,
           appended' = appended
    PROVE  CountInv'
  <1>1. writerpc \in [Writers -> {"out", "test", "reset", "lock", "finish"}]
        /\ tries \in Nat /\ appended \in Nat
    BY DEF TypeInv, TypeOK
  <1>2. InFlight' = InFlight \cup {w}
    BY <1>1 DEF InFlight
  <1>3. IsFiniteSet(InFlight) /\ appended + Cardinality(InFlight) <= tries
    BY DEF TypeInv, CountInv
  <1>4. w \in InFlight <=> writerpc[w] # "out"
    BY DEF InFlight
  <1>5. /\ IsFiniteSet(InFlight \cup {w}) /\ Cardinality(InFlight) \in Nat
        /\ Cardinality(InFlight \cup {w}) =
              IF w \in InFlight THEN Cardinality(InFlight)
                                ELSE Cardinality(InFlight) + 1
    BY <1>3, FS_AddElement, FS_CardinalityType
  <1> QED
    BY <1>1, <1>2, <1>3, <1>4, <1>5 DEF CountInv

LEMMA LineMayCome ==
    ASSUME TypeInv, NEW w \in Writers, writerpc[w] # "out"
    PROVE  appended + 1 \in 1..MaxLines
  <1>1. tries \in 0..MaxLines /\ appended \in Nat /\ MaxLines \in Nat
    BY RlogAssumption DEF TypeInv, TypeOK, RlogAssumption
  <1>2. IsFiniteSet(InFlight) /\ appended + Cardinality(InFlight) <= tries
    BY DEF TypeInv, CountInv
  <1>3. Cardinality(InFlight) \in Nat /\ Cardinality(InFlight) # 0
    BY <1>2, FS_CardinalityType, FS_EmptySet DEF InFlight
  <1> QED
    BY <1>1, <1>2, <1>3

LEMMA FlightLeft ==
    ASSUME TypeInv, NEW w \in Writers, writerpc[w] # "out",
           writerpc' = [writerpc EXCEPT ![w] = "out"],
           tries' = tries, appended' \in {appended, appended + 1}
    PROVE  CountInv'
  <1>1. writerpc \in [Writers -> {"out", "test", "reset", "lock", "finish"}]
        /\ tries \in 0..MaxLines /\ appended \in Nat /\ MaxLines \in Nat
    BY RlogAssumption DEF TypeInv, TypeOK, RlogAssumption
  <1>2. InFlight' = InFlight \ {w}
    BY <1>1 DEF InFlight
  <1>3. IsFiniteSet(InFlight) /\ appended + Cardinality(InFlight) <= tries
    BY DEF TypeInv, CountInv
  <1>4. w \in InFlight
    BY DEF InFlight
  <1>5. /\ IsFiniteSet(InFlight \ {w}) /\ Cardinality(InFlight) \in Nat
        /\ Cardinality(InFlight \ {w}) \in Nat
        /\ Cardinality(InFlight \ {w}) = Cardinality(InFlight) - 1
    BY <1>3, <1>4, FS_RemoveElement, FS_CardinalityType
  <1> QED
    BY <1>1, <1>2, <1>3, <1>5 DEF CountInv

\* What append of cell_buffer leaves, for a line that may be numbered.
LEMMA AppendTypes ==
    ASSUME TypeOK, NEW b \in Bufs, NEW n \in {0} \cup Lengths, Append_(b, n),
           appended + 1 \in 1..MaxLines
    PROVE  /\ lines' \in [Bufs -> Seq(0..MaxLines)]
           /\ index_' \in [Bufs -> 0..Capacity]
           /\ data' \in [Bufs -> Seq(0..MaxLines)]
           /\ \A d \in Bufs : index_'[d] <= Len(data'[d]) /\ Len(data'[d]) <= Capacity
           /\ appended' \in {appended, appended + 1} /\ appended' \in 0..MaxLines
           /\ \A d \in Bufs : d # b => lines'[d] = lines[d]
  <1>1. n \in Nat /\ Capacity \in Nat
    BY RlogAssumption DEF RlogAssumption
  <1>2. /\ lines \in [Bufs -> Seq(0..MaxLines)] /\ index_ \in [Bufs -> 0..Capacity]
        /\ appended \in 0..MaxLines /\ data \in [Bufs -> Seq(0..MaxLines)]
        /\ \A d \in Bufs : index_[d] <= Len(data[d]) /\ Len(data[d]) <= Capacity
    BY DEF TypeOK
  <1>3. CASE n <= AvailLen(b)
    <2> DEFINE line == IF status[b] = "FREE" THEN appended + 1 ELSE Stray
    <2>1. line \in 0..MaxLines /\ (line = Stray => line = 0)
      BY <1>2, RlogAssumption DEF Stray, RlogAssumption
    <2>2. /\ lines' = [lines EXCEPT ![b] = Append(lines[b], line)]
          /\ index_' = [index_ EXCEPT ![b] = index_[b] + n]
          /\ data' = [data EXCEPT ![b] = Overwritten(data[b], index_[b], n, line)]
          /\ appended' = IF line = Stray THEN appended ELSE line
          /\ line = Stray \/ line = appended + 1
      BY <1>3 DEF Append_
    <2>3. index_[b] + n \in 0..Capacity
      BY <1>1, <1>2, <1>3 DEF AvailLen
    <2> HIDE DEF line
    <2>4. Append(lines[b], line) \in Seq(0..MaxLines)
      BY <1>2, <2>1
    <2>5. /\ Overwritten(data[b], index_[b], n, line) \in Seq(0..MaxLines)
          /\ index_[b] + n <= Len(Overwritten(data[b], index_[b], n, line))
          /\ Len(Overwritten(data[b], index_[b], n, line)) <= Capacity
      <3> DEFINE d == data[b]
                 i == index_[b]
                 S == 0..MaxLines
      <3>1. d \in Seq(S) /\ i \in 0..Len(d) /\ n \in Nat /\ line \in S
        BY <1>1, <1>2, <2>1
      <3>a. Len(d) \in Nat /\ i \in Nat /\ i + n <= Capacity /\ Len(d) <= Capacity
        BY <1>2, <2>3
      <3> HIDE DEF d, i, S
      <3>2. /\ Overwritten(d, i, n, line) \in Seq(S)
            /\ Len(Overwritten(d, i, n, line)) = IF Len(d) > i + n THEN Len(d) ELSE i + n
        BY <3>1, OverwrittenIs
      <3>3. /\ i + n <= Len(Overwritten(d, i, n, line))
            /\ Len(Overwritten(d, i, n, line)) <= Capacity
        BY <1>1, <3>2, <3>a
      <3> QED
        BY <3>2, <3>3 DEF d, i, S
    <2>6. data' \in [Bufs -> Seq(0..MaxLines)]
      BY <1>2, <2>2, <2>5
    <2>7. \A d \in Bufs : index_'[d] <= Len(data'[d]) /\ Len(data'[d]) <= Capacity
      BY <1>2, <2>2, <2>5
    <2> QED
      BY <1>2, <2>1, <2>2, <2>3, <2>4, <2>6, <2>7
  <1>4. CASE ~(n <= AvailLen(b))
    BY <1>2, <1>4 DEF Append_
  <1> QED
    BY <1>3, <1>4

LEMMA BasicTypes ==
    ASSUME TypeOK
    PROVE  /\ _buf_cnt \in Nat /\ _buf_cnt >= 2 /\ _buf_cnt <= MaxBufs
           /\ cur_buf \in Bufs /\ prst_buf \in Bufs
           /\ \A b \in 1.._buf_cnt : b \in Bufs
           /\ 0 \in 0..MaxSec /\ MaxBufs \in Nat
  <1>1. /\ _buf_cnt \in NumBufs..MaxBufs
        /\ cur_buf \in 1.._buf_cnt /\ prst_buf \in 1.._buf_cnt
    BY Zenon DEF TypeOK
  <1>2. NumBufs \in Nat \ {0, 1} /\ MaxBufs \in Nat /\ MaxSec \in Nat \ {0}
    BY RlogAssumption, Zenon DEF RlogAssumption
  <1> QED
    BY <1>1, <1>2 DEF Bufs

\* What a writer that returns leaves of its variables.
LEMMA ReturnTypes ==
    ASSUME TypeOK, NEW w \in Writers, Return(w)
    PROVE  /\ writerpc' \in [Writers -> {"out", "test", "reset", "lock", "finish"}]
           /\ curr_sec' \in [Writers -> 0..MaxSec]
           /\ len_all' \in [Writers -> {0} \cup Lengths]
  BY BasicTypes DEF TypeOK, Return

LEMMA AppendHereTypes ==
    ASSUME TypeInv, NEW w \in Writers, writerpc[w] = "lock", AppendHere(w),
           UNCHANGED <<prst_buf, sec, running, logpc, ownerpc, tries, written, fp_>>
    PROVE  TypeInv'
  <1>1. cur_buf \in Bufs /\ len_all[w] \in {0} \cup Lengths
    BY BasicTypes DEF TypeInv, TypeOK
  <1>2. appended + 1 \in 1..MaxLines
    BY LineMayCome
  <1>3. /\ lines' \in [Bufs -> Seq(0..MaxLines)]
        /\ index_' \in [Bufs -> 0..Capacity]
        /\ data' \in [Bufs -> Seq(0..MaxLines)]
        /\ \A d \in Bufs : index_'[d] <= Len(data'[d]) /\ Len(data'[d]) <= Capacity
        /\ appended' \in {appended, appended + 1} /\ appended' \in 0..MaxLines
        /\ \A d \in Bufs : d # cur_buf => lines'[d] = lines[d]
    BY <1>1, <1>2, AppendTypes DEF TypeInv, AppendHere
  <1>4. TypeOK'
    <2>1. /\ UNCHANGED <<status, next, _buf_cnt, cur_buf, overtaken, lst_lts, mutex_>>
          /\ Return(w)
      BY DEF AppendHere
    <2>2. TypeOK
      BY DEF TypeInv
    <2>3. /\ writerpc' \in [Writers -> {"out", "test", "reset", "lock", "finish"}]
          /\ curr_sec' \in [Writers -> 0..MaxSec]
          /\ len_all' \in [Writers -> {0} \cup Lengths]
      BY <2>1, <2>2, ReturnTypes
    <2> QED
      BY <1>3, <2>1, <2>2, <2>3 DEF TypeOK
  <1>5. CountInv'
    BY <1>3, FlightLeft DEF AppendHere, Return
  <1>6. OwnerInv'
    BY DEF TypeInv, TypeOK, OwnerInv, AppendHere, Return
  <1>7. FreshInv'
    BY <1>3 DEF TypeInv, TypeOK, FreshInv, AppendHere, Bufs
  <1> QED
    BY <1>4, <1>5, <1>6, <1>7 DEF TypeInv

LEMMA FinishAppendTypes ==
    ASSUME TypeInv, NEW w \in Writers, FinishAppend(w)
    PROVE  TypeInv'
  <1>1. cur_buf \in Bufs /\ len_all[w] \in {0} \cup Lengths
    BY BasicTypes DEF TypeInv, TypeOK
  <1>2. writerpc[w] = "finish" /\ appended + 1 \in 1..MaxLines
    BY LineMayCome DEF FinishAppend
  <1>3. /\ lines' \in [Bufs -> Seq(0..MaxLines)]
        /\ index_' \in [Bufs -> 0..Capacity]
        /\ data' \in [Bufs -> Seq(0..MaxLines)]
        /\ \A d \in Bufs : index_'[d] <= Len(data'[d]) /\ Len(data'[d]) <= Capacity
        /\ appended' \in {appended, appended + 1} /\ appended' \in 0..MaxLines
        /\ \A d \in Bufs : d # cur_buf => lines'[d] = lines[d]
    <2>1. CASE lst_lts = 0
      BY <1>1, <1>2, <2>1, AppendTypes DEF TypeInv, FinishAppend
    <2>2. CASE lst_lts # 0
      BY <2>2 DEF TypeInv, TypeOK, FinishAppend
    <2> QED
      BY <2>1, <2>2
  <1>4. TypeOK'
    BY <1>3, ReturnTypes DEF TypeInv, TypeOK, FinishAppend
  <1>5. CountInv'
    BY <1>2, <1>3, FlightLeft DEF FinishAppend, Return
  <1>6. OwnerInv'
    BY DEF TypeInv, TypeOK, OwnerInv, FinishAppend, Return
  <1>7. FreshInv'
    BY <1>3 DEF TypeInv, TypeOK, FreshInv, FinishAppend, Bufs
  <1> QED
    BY <1>4, <1>5, <1>6, <1>7 DEF TypeInv

\* The buffers, when the current one is full and another is taken.
LEMMA AdvanceTypes ==
    ASSUME TypeInv, NEW w \in Writers, writerpc[w] = "lock", Advance(w),
           UNCHANGED <<prst_buf, sec, running, logpc, ownerpc, tries, written, fp_>>
    PROVE  TypeInv'
  <1> USE DEF Bufs
  <1>1. /\ _buf_cnt \in NumBufs..MaxBufs /\ next \in [1.._buf_cnt -> 1.._buf_cnt]
        /\ cur_buf \in 1.._buf_cnt /\ prst_buf \in 1.._buf_cnt
        /\ status \in [Bufs -> {"FREE", "FULL"}] /\ next[cur_buf] \in 1.._buf_cnt
        /\ curr_sec[w] \in 0..MaxSec /\ lst_lts \in 0..MaxSec
        /\ overtaken \in BOOLEAN /\ NumBufs \in Nat /\ MaxBufs \in Nat
    BY RlogAssumption DEF TypeInv, TypeOK, RlogAssumption
  <1>2. status' \in [Bufs -> {"FREE", "FULL"}]
        /\ \A b \in Bufs : b # cur_buf => status'[b] = status[b]
    BY <1>1 DEF Advance
  <1>3. /\ _buf_cnt' \in NumBufs..MaxBufs /\ _buf_cnt' >= _buf_cnt
        /\ next' \in [1.._buf_cnt' -> 1.._buf_cnt']
        /\ cur_buf' \in 1.._buf_cnt' /\ prst_buf' \in 1.._buf_cnt'
        /\ lst_lts' \in 0..MaxSec /\ overtaken' \in BOOLEAN
    <2>1. CASE MoveOn
      BY <1>1, <2>1 DEF MoveOn
    <2>2. CASE MoveOnAtLimit(w)
      BY <1>1, <2>2 DEF MoveOnAtLimit
    <2>3. CASE Grow
      <3>1. /\ _buf_cnt' = _buf_cnt + 1 /\ cur_buf' = _buf_cnt + 1
            /\ _buf_cnt + 1 <= MaxBufs /\ lst_lts' = lst_lts
            /\ overtaken' \in BOOLEAN
        BY <1>1, <2>3 DEF Grow, GrowAfter
      <3>2. next' = [d \in 1..(_buf_cnt + 1) |->
                        IF d = cur_buf THEN _buf_cnt + 1
                        ELSE IF d = _buf_cnt + 1 THEN next[cur_buf] ELSE next[d]]
        BY <2>3 DEF Grow, GrowAfter
      <3>3. \A d \in 1..(_buf_cnt + 1) :
               (IF d = cur_buf THEN _buf_cnt + 1
                ELSE IF d = _buf_cnt + 1 THEN next[cur_buf] ELSE next[d])
                   \in 1..(_buf_cnt + 1)
        BY <1>1, SMTT(30)
      <3>4. next' \in [1..(_buf_cnt + 1) -> 1..(_buf_cnt + 1)]
        BY <3>2, <3>3, Zenon
      <3>5. next' \in [1.._buf_cnt' -> 1.._buf_cnt']
        BY <3>1, <3>4, Zenon
      <3>6. /\ _buf_cnt' \in NumBufs..MaxBufs /\ _buf_cnt' >= _buf_cnt
            /\ cur_buf' \in 1.._buf_cnt' /\ prst_buf' \in 1.._buf_cnt'
        BY <1>1, <3>1
      <3> QED
        BY <1>1, <3>1, <3>5, <3>6
    <2> QED
      BY <2>1, <2>2, <2>3 DEF Advance
  <1>4. TypeOK'
    BY <1>2, <1>3 DEF TypeInv, TypeOK, Advance, Goto
  <1>5. CountInv'
    BY FlightJoined DEF Advance, Goto
  <1>6. OwnerInv'
    BY DEF TypeInv, TypeOK, OwnerInv, Advance, Goto
  <1>7. FreshInv'
    BY <1>1, <1>2, <1>3 DEF TypeInv, FreshInv, Advance
  <1> QED
    BY <1>4, <1>5, <1>6, <1>7 DEF TypeInv

LEMMA WriterTypes ==
    ASSUME TypeInv, NEW w \in Writers, Writer(w)
    PROVE  TypeInv'
  <1> USE DEF TypeInv
  <1>1. CASE TryAppend(w)
    <2>1. PICK n \in Lengths : len_all' = [len_all EXCEPT ![w] = n]
      BY <1>1 DEF TryAppend
    <2>a. tries' \in 0..MaxLines
      BY <1>1, RlogAssumption DEF TryAppend, TypeOK, RlogAssumption
    <2>2. TypeOK'
      BY <1>1, <2>1, <2>a, SMTT(30) DEF TryAppend, TypeOK, bufvars
    <2>3. CountInv'
      BY <1>1, FlightJoined DEF TryAppend
    <2> QED
      BY <1>1, <2>2, <2>3 DEF TryAppend, TypeOK, OwnerInv, FreshInv, bufvars
  <1>2. CASE TestRelog(w)
    <2>1. CASE Return(w)
      <3>1. CountInv'
        BY <1>2, <2>1, FlightLeft DEF TestRelog, Return
      <3> QED
        BY <1>2, <2>1, <3>1, ReturnTypes
           DEF TestRelog, Return, TypeOK, OwnerInv, FreshInv, bufvars
    <2>2. CASE Goto(w, "reset")
      <3>1. CountInv'
        BY <1>2, <2>2, FlightJoined DEF TestRelog, Goto
      <3> QED
        BY <1>2, <2>2, <3>1 DEF TestRelog, Goto, TypeOK, OwnerInv, FreshInv, bufvars
    <2> QED
      BY <1>2, <2>1, <2>2 DEF TestRelog
  <1>3. CASE ResetRelog(w)
    <2>1. CountInv'
      BY <1>3, FlightJoined DEF ResetRelog, Goto
    <2>2. 0 \in 0..MaxSec
      BY RlogAssumption DEF RlogAssumption
    <2> QED
      BY <1>3, <2>1, <2>2 DEF ResetRelog, Goto, TypeOK, OwnerInv, FreshInv, bufvars
  <1>4. CASE LockedAppend(w)
    <2> USE <1>4 DEF LockedAppend
    <2>1. CASE AppendHere(w)
      BY <2>1, AppendHereTypes
    <2>2. CASE Advance(w)
      BY <2>2, AdvanceTypes
    <2>3. CASE DropLine(w)
      <3>1. CountInv'
        BY <2>3, FlightLeft DEF DropLine, Return
      <3> QED
        BY <2>3, <3>1, ReturnTypes
           DEF DropLine, Return, TypeOK, OwnerInv, FreshInv, bufvars
    <2> QED
      BY <2>1, <2>2, <2>3
  <1>5. CASE FinishAppend(w)
    BY <1>5, FinishAppendTypes
  <1> QED
    BY <1>1, <1>2, <1>3, <1>4, <1>5 DEF Writer

\* The log thread, the owner and the clock leave the calls of try_append alone.
LEMMA FlightKept ==
    ASSUME TypeInv, UNCHANGED <<writerpc, tries, appended>>
    PROVE  CountInv'
  BY DEF TypeInv, CountInv, InFlight

LEMMA ClearTypes ==
    ASSUME TypeInv, Clear(prst_buf)
    PROVE  /\ lines' \in [Bufs -> Seq(0..MaxLines)]
           /\ index_' \in [Bufs -> 0..Capacity]
           /\ status' \in [Bufs -> {"FREE", "FULL"}]
           /\ data' = data /\ \A b \in Bufs : index_'[b] <= Len(data[b])
           /\ \A b \in Bufs : \/ lines'[b] = <<>> /\ status'[b] = "FREE"
                              \/ lines'[b] = lines[b] /\ status'[b] = status[b]
  <1>1. <<>> \in Seq(0..MaxLines) /\ 0 \in 0..Capacity
    BY RlogAssumption DEF RlogAssumption
  <1>2. /\ lines \in [Bufs -> Seq(0..MaxLines)] /\ index_ \in [Bufs -> 0..Capacity]
        /\ status \in [Bufs -> {"FREE", "FULL"}] /\ data \in [Bufs -> Seq(0..MaxLines)]
        /\ \A b \in Bufs : index_[b] <= Len(data[b])
    BY DEF TypeInv, TypeOK
  <1>3. /\ lines' = [lines EXCEPT ![prst_buf] = <<>>]
        /\ index_' = [index_ EXCEPT ![prst_buf] = 0]
        /\ status' = [status EXCEPT ![prst_buf] = "FREE"] /\ data' = data
    BY DEF Clear
  <1>4. lines' \in [Bufs -> Seq(0..MaxLines)]
    BY <1>1, <1>2, <1>3
  <1>5. \A b \in Bufs : \/ lines'[b] = <<>> /\ status'[b] = "FREE"
                        \/ lines'[b] = lines[b] /\ status'[b] = status[b]
    <2> TAKE b \in Bufs
    <2>1. CASE b = prst_buf
      BY <1>2, <1>3, <2>1
    <2>2. CASE b # prst_buf
      BY <1>2, <1>3, <2>2, Zenon
    <2> QED
      BY <2>1, <2>2, Zenon
  <1>6. \A b \in Bufs : index_'[b] <= Len(data[b])
    <2>1. \A b \in Bufs : Len(data[b]) \in Nat
      BY <1>2
    <2> QED
      BY <1>2, <1>3, <2>1
  <1> QED
    BY <1>1, <1>2, <1>3, <1>4, <1>5, <1>6

\* What is streamed into the file.
LEMMA StreamTypes ==
    ASSUME TypeInv, Stream(prst_buf)
    PROVE  written' \in Seq(0..MaxLines) /\ fp_' \in Seq(0..MaxLines)
  <1>1. /\ written \in Seq(0..MaxLines) /\ lines[prst_buf] \in Seq(0..MaxLines)
        /\ data[prst_buf] \in Seq(0..MaxLines)
    BY BasicTypes DEF TypeInv, TypeOK
  <1> QED
    BY <1>1 DEF Stream

LEMMA PersistTypes == TypeInv /\ Persist => TypeInv'
  <1> SUFFICES ASSUME TypeInv, Persist PROVE TypeInv'
    OBVIOUS
  <1> USE DEF TypeInv, logless, writervars, bufvars
  <1>1. logpc # "ended" /\ logpc # "none"
    BY DEF Persist, PersistLoop, PersistWait, PersistTake, DecisFile,
           PersistWrite, PersistClear, PersistAdvance
  <1>2. CountInv' /\ OwnerInv'
    <2>1. UNCHANGED <<writerpc, tries, appended, ownerpc>>
      BY DEF Persist, PersistLoop, PersistWait, PersistTake, DecisFile,
             PersistWrite, PersistClear, PersistAdvance
    <2> QED
      BY <1>1, <2>1, FlightKept DEF OwnerInv
  <1>3. TypeOK' /\ FreshInv'
    <2>1. CASE PersistLoop
      BY <2>1 DEF PersistLoop, TypeOK, FreshInv
    <2>2. CASE PersistWait
      BY <2>2 DEF PersistWait, TypeOK, FreshInv
    <2>3. CASE PersistTake
      <3>a. /\ cur_buf \in 1.._buf_cnt /\ next[cur_buf] \in 1.._buf_cnt
            /\ _buf_cnt \in Nat /\ MaxBufs \in Nat
        BY BasicTypes DEF TypeOK
      <3>1. \A b \in (_buf_cnt + 1)..MaxBufs : b # cur_buf
        BY <3>a
      <3>2. /\ status' \in [Bufs -> {"FREE", "FULL"}] /\ cur_buf' \in 1.._buf_cnt
            /\ \A b \in Bufs : b # cur_buf => status'[b] = status[b]
        BY <2>3, <3>a DEF PersistTake, TakePartial, TypeOK
      <3>3. TypeOK'
        BY <2>3, <3>2 DEF PersistTake, TypeOK
      <3> QED
        BY <2>3, <3>1, <3>2, <3>3, BasicTypes DEF PersistTake, FreshInv, Bufs
    <2>4. CASE DecisFile
      BY <2>4 DEF DecisFile, TypeOK, FreshInv
    <2>5. CASE PersistWrite
      BY <2>5, StreamTypes DEF PersistWrite, TypeOK, FreshInv
    <2>6. CASE PersistClear
      <3>1. \A b \in (_buf_cnt + 1)..MaxBufs : b \in Bufs
        BY BasicTypes DEF Bufs
      <3>2. <<>> \in Seq(0..MaxLines)
        OBVIOUS
      <3> QED
        BY <2>6, <3>1, <3>2, ClearTypes DEF PersistClear, TypeOK, FreshInv
    <2>7. CASE PersistAdvance
      BY <2>7 DEF PersistAdvance, TypeOK, FreshInv
    <2> QED
      BY <2>1, <2>2, <2>3, <2>4, <2>5, <2>6, <2>7 DEF Persist
  <1> QED
    BY <1>2, <1>3

LEMMA OwnerTypes == TypeInv /\ Owner => TypeInv'
  <1> SUFFICES ASSUME TypeInv, Owner PROVE TypeInv'
    OBVIOUS
  <1> USE DEF TypeInv, writervars, bufvars
  <1>1. CountInv'
    BY FlightKept DEF Owner, SpawnLogThread, SetRunning, StopRunning, Join, FlushLast
  <1>2. CASE SpawnLogThread \/ SetRunning \/ StopRunning \/ Join
    BY <1>1, <1>2 DEF SpawnLogThread, SetRunning, StopRunning, Join, TypeOK,
                      OwnerInv, FreshInv
  <1>3. CASE FlushLast
    <2>1. \A b \in (_buf_cnt + 1)..MaxBufs : b \in Bufs
      BY BasicTypes DEF Bufs
    <2>2. FreshInv' /\ OwnerInv'
      BY <1>3, <2>1, ClearTypes DEF FlushLast, FreshInv, OwnerInv
    <2>3. TypeOK'
      BY <1>3, ClearTypes, StreamTypes DEF FlushLast, TypeOK
    <2> QED
      BY <1>1, <2>2, <2>3
  <1> QED
    BY <1>2, <1>3 DEF Owner

LEMMA NextTypes == TypeInv /\ [Next]_vars => TypeInv'
  <1> SUFFICES ASSUME TypeInv, [Next]_vars PROVE TypeInv'
    OBVIOUS
  <1> USE DEF TypeInv, writervars, bufvars
  <1>1. CASE Tick
    <2>1. CountInv'
      BY <1>1, FlightKept DEF Tick
    <2>2. sec' \in 1..MaxSec
      BY <1>1, RlogAssumption DEF Tick, TypeOK, RlogAssumption
    <2> QED
      BY <1>1, <2>1, <2>2 DEF Tick, TypeOK, OwnerInv, FreshInv
  <1>2. CASE UNCHANGED vars
    <2>1. CountInv'
      BY <1>2, FlightKept DEF vars
    <2> QED
      BY <1>2, <2>1 DEF vars, TypeOK, OwnerInv, FreshInv
  <1> QED
    BY <1>1, <1>2, WriterTypes, PersistTypes, OwnerTypes DEF Next

-----------------------------------------------------------------------------
(* Lines in order.                                                         *)

\* The lines of s come before those of t.
Below(s, t) ==
    \A x \in ToSet(s), y \in ToSet(t) : x # Stray /\ y # Stray => x < y

LEMMA EmptyInOrder ==
    Rising(<<>>) /\ ToSet(<<>>) = {} /\ \A s : Below(s, <<>>) /\ Below(<<>>, s)
  BY DEF Rising, ToSet, Below

LEMMA AppendInOrder ==
    ASSUME NEW s \in Seq(Nat), NEW x \in Nat
    PROVE  /\ ToSet(Append(s, x)) = ToSet(s) \cup {x}
           /\ (Rising(s) /\ (x = Stray \/ \A y \in ToSet(s) : y < x)) => Rising(Append(s, x))
  <1> DEFINE t == Append(s, x)
  <1>1. /\ DOMAIN t = 1..(Len(s) + 1) /\ DOMAIN s = 1..Len(s) /\ Len(s) \in Nat
        /\ t[Len(s) + 1] = x /\ \A i \in 1..Len(s) : t[i] = s[i]
    OBVIOUS
  <1> HIDE DEF t
  <1>2. ToSet(t) = ToSet(s) \cup {x}
    <2>1. ASSUME NEW y \in ToSet(t) PROVE y \in ToSet(s) \cup {x}
      BY <1>1, <2>1 DEF ToSet
    <2>2. ToSet(s) \subseteq ToSet(t)
      BY <1>1 DEF ToSet
    <2>3. x \in ToSet(t)
      BY <1>1 DEF ToSet
    <2> QED
      BY <2>1, <2>2, <2>3
  <1>3. ASSUME Rising(s), x = Stray \/ \A y \in ToSet(s) : y < x PROVE Rising(t)
    <2> SUFFICES ASSUME NEW i \in DOMAIN t, NEW j \in DOMAIN t, i < j,
                        t[i] # Stray, t[j] # Stray
                 PROVE  t[i] < t[j]
      BY DEF Rising
    <2>1. i \in 1..Len(s)
      BY <1>1
    <2>2. t[i] = s[i] /\ s[i] \in ToSet(s)
      BY <1>1, <2>1 DEF ToSet
    <2>3. CASE j \in 1..Len(s)
      BY <1>1, <1>3, <2>1, <2>2, <2>3 DEF Rising
    <2>4. CASE j \notin 1..Len(s)
      <3>1. t[j] = x
        BY <1>1, <2>4
      <3> QED
        BY <1>3, <2>2, <3>1
    <2> QED
      BY <2>3, <2>4
  <1> QED
    BY <1>2, <1>3 DEF t

LEMMA ConcatInOrder ==
    ASSUME NEW s \in Seq(Nat), NEW t \in Seq(Nat)
    PROVE  /\ ToSet(s \o t) = ToSet(s) \cup ToSet(t)
           /\ (Rising(s) /\ Rising(t) /\ Below(s, t)) => Rising(s \o t)
  <1> DEFINE u == s \o t
  <1>1. /\ Len(s) \in Nat /\ Len(t) \in Nat
        /\ DOMAIN u = 1..(Len(s) + Len(t)) /\ DOMAIN s = 1..Len(s) /\ DOMAIN t = 1..Len(t)
        /\ \A i \in 1..Len(s) : u[i] = s[i]
        /\ \A i \in 1..(Len(s) + Len(t)) : i > Len(s) => u[i] = t[i - Len(s)]
    OBVIOUS
  <1> HIDE DEF u
  <1>2. \A i \in DOMAIN t : i + Len(s) \in DOMAIN u /\ u[i + Len(s)] = t[i]
    BY <1>1
  <1>3. ToSet(u) = ToSet(s) \cup ToSet(t)
    <2>1. ASSUME NEW i \in DOMAIN u PROVE u[i] \in ToSet(s) \cup ToSet(t)
      <3>1. CASE i <= Len(s)
        BY <1>1, <3>1 DEF ToSet
      <3>2. CASE i > Len(s)
        <4>1. i - Len(s) \in DOMAIN t /\ u[i] = t[i - Len(s)]
          BY <1>1, <3>2
        <4> QED
          BY <4>1 DEF ToSet
      <3> QED
        BY <1>1, <3>1, <3>2
    <2>2. \A i \in DOMAIN s : i \in DOMAIN u /\ u[i] = s[i]
      BY <1>1
    <2> QED
      BY <1>2, <2>1, <2>2 DEF ToSet
  <1>4. ASSUME Rising(s), Rising(t), Below(s, t) PROVE Rising(u)
    <2> SUFFICES ASSUME NEW i \in DOMAIN u, NEW j \in DOMAIN u, i < j,
                        u[i] # Stray, u[j] # Stray
                 PROVE  u[i] < u[j]
      BY DEF Rising
    <2>1. CASE j <= Len(s)
      BY <1>1, <1>4, <2>1 DEF Rising
    <2>2. CASE i > Len(s)
      <3>1. /\ i - Len(s) \in DOMAIN t /\ j - Len(s) \in DOMAIN t
            /\ i - Len(s) < j - Len(s)
            /\ u[i] = t[i - Len(s)] /\ u[j] = t[j - Len(s)]
        BY <1>1, <2>2, SMTT(30)
      <3> QED
        BY <1>4, <3>1 DEF Rising
    <2>3. CASE i <= Len(s) /\ j > Len(s)
      <3>1. /\ i \in DOMAIN s /\ u[i] = s[i]
            /\ j - Len(s) \in DOMAIN t /\ u[j] = t[j - Len(s)]
        BY <1>1, <2>3
      <3> QED
        BY <1>4, <3>1 DEF Below, ToSet
    <2> QED
      BY <1>1, <2>1, <2>2, <2>3
  <1> QED
    BY <1>3, <1>4 DEF u

-----------------------------------------------------------------------------
(* The ring.                                                               *)

\* A buffer writers may use, or one that is about to be.
Freed(b) == status[b] = "FREE" \/ (logpc = "clear" /\ b = prst_buf)

\* o is the ring, from the oldest buffer that is not written.
IsRing(o) ==
    /\ o \in [1.._buf_cnt -> 1.._buf_cnt]
    /\ o[1] = Oldest
    /\ \A i \in 1..(_buf_cnt - 1) : next[o[i]] = o[i + 1]
    /\ next[o[_buf_cnt]] = o[1]
    /\ \A i, j \in 1.._buf_cnt : o[i] = o[j] => i = j
    /\ \A b \in 1.._buf_cnt : \E i \in 1.._buf_cnt : o[i] = b

\* What the buffers hold comes in the order of the ring.
Sorted(o) ==
    \A i, j \in 1.._buf_cnt : i < j => Below(Pending(o[i]), Pending(o[j]))

\* The writers are at the c-th: those before it are full, those behind it are
\* free and hold nothing; or all are full, and c is the oldest.
Shape(o, c) ==
    /\ o[c] = cur_buf
    /\ \A i \in 1..(c - 1) : ~Freed(o[i])
    /\ \/ /\ \A i \in c.._buf_cnt : Freed(o[i])
          /\ \A i \in (c + 1).._buf_cnt : Pending(o[i]) = <<>>
       \/ c = 1 /\ \A i \in 1.._buf_cnt : ~Freed(o[i])

\* Every buffer holds lines in order, later than those of the file, and all
\* lines are somewhere.
Contents ==
    /\ Rising(written) /\ ToSet(written) \subseteq 0..appended
    /\ \A b \in 1.._buf_cnt :
         /\ Rising(Pending(b)) /\ ToSet(Pending(b)) \subseteq 0..appended
         /\ Below(written, Pending(b))
    /\ \A k \in 1..appended :
         k \in ToSet(written) \/ \E b \in 1.._buf_cnt : k \in ToSet(Pending(b))

\* The log thread is at a full buffer while it is writing.
AtFull == logpc \in {"decide", "write", "clear"} => status[prst_buf] = "FULL"

\* At the end the destructor leaves the first buffer empty before full ones.
RingOrder ==
    \E o \in [1.._buf_cnt -> 1.._buf_cnt] :
       /\ IsRing(o) /\ Sorted(o)
       /\ ownerpc # "done" => \E c \in 1.._buf_cnt : Shape(o, c)

RingInv == ~overtaken => Contents /\ AtFull /\ RingOrder

LEMMA PendingTypes ==
    ASSUME TypeOK, NEW b \in 1.._buf_cnt
    PROVE  /\ Pending(b) \in Seq(Nat) /\ lines[b] \in Seq(Nat)
           /\ written \in Seq(Nat) /\ appended \in Nat
           /\ b \in Bufs /\ status[b] \in {"FREE", "FULL"}
  <1>1. b \in Bufs
    BY BasicTypes
  <1>2. lines[b] \in Seq(0..MaxLines) /\ written \in Seq(0..MaxLines)
    BY <1>1 DEF TypeOK
  <1>3. lines[b] \in Seq(Nat) /\ written \in Seq(Nat) /\ <<>> \in Seq(Nat)
    <2> DEFINE R == 0..MaxLines
    <2>1. R \subseteq Nat /\ lines[b] \in Seq(R) /\ written \in Seq(R)
      BY <1>2
    <2> HIDE DEF R
    <2>2. lines[b] \in Seq(Nat) /\ written \in Seq(Nat)
      BY <2>1, SeqMonotonic
    <2> QED
      BY <2>2
  <1> QED
    BY <1>1, <1>3 DEF Pending, TypeOK

\* Where the log thread is on the ring.
LEMMA LogThreadAt ==
    ASSUME TypeOK, NEW o, IsRing(o)
    PROVE  prst_buf = IF logpc \in {"clear", "advance"} THEN o[_buf_cnt] ELSE o[1]
  <1>1. _buf_cnt \in Nat /\ _buf_cnt >= 2 /\ prst_buf \in 1.._buf_cnt
    BY BasicTypes DEF TypeOK
  <1>2. CASE logpc \in {"clear", "advance"}
    <2>1. PICK i \in 1.._buf_cnt : o[i] = prst_buf
      BY <1>1 DEF IsRing
    <2>2. next[o[i]] = o[1]
      BY <1>2, <2>1 DEF IsRing, Oldest
    <2>3. CASE i = _buf_cnt
      BY <1>2, <2>1, <2>3
    <2>4. CASE i # _buf_cnt
      <3>1. i \in 1..(_buf_cnt - 1) /\ i + 1 \in 1.._buf_cnt /\ 1 \in 1.._buf_cnt
            /\ i + 1 # 1
        BY <1>1, <2>4
      <3>2. o[i + 1] = o[1]
        BY <2>2, <3>1 DEF IsRing
      <3> QED
        BY <3>1, <3>2 DEF IsRing
    <2> QED
      BY <2>3, <2>4
  <1>3. CASE logpc \notin {"clear", "advance"}
    BY <1>3 DEF IsRing, Oldest
  <1> QED
    BY <1>2, <1>3

\* A step that leaves the ring and what is in it.
LEMMA RingKept ==
    ASSUME TypeInv, RingInv,
           UNCHANGED <<_buf_cnt, next, cur_buf, written, appended, overtaken>>,
           ownerpc' # "done" => ownerpc # "done",
           Oldest' = Oldest,
           \A b \in 1.._buf_cnt : Pending(b)' = Pending(b) /\ (Freed(b)' <=> Freed(b)),
           ~overtaken => AtFull'
    PROVE  RingInv'
  <1> SUFFICES ASSUME ~overtaken PROVE Contents' /\ RingOrder'
    BY DEF RingInv
  <1>1. Contents'
    BY DEF RingInv, Contents
  <1>2. RingOrder'
    <2>1. PICK o \in [1.._buf_cnt -> 1.._buf_cnt] :
             /\ IsRing(o) /\ Sorted(o)
             /\ ownerpc # "done" => \E c \in 1.._buf_cnt : Shape(o, c)
      BY DEF RingInv, RingOrder
    <2>2. IsRing(o)'
      BY <2>1 DEF IsRing
    <2>3. Sorted(o)'
      BY <2>1 DEF Sorted
    <2>4. ASSUME NEW c \in 1.._buf_cnt, Shape(o, c) PROVE Shape(o, c)'
      <3>1. /\ \A i \in 1..(c - 1) : i \in 1.._buf_cnt
            /\ \A i \in c.._buf_cnt : i \in 1.._buf_cnt
            /\ \A i \in (c + 1).._buf_cnt : i \in 1.._buf_cnt
        BY BasicTypes DEF TypeInv
      <3> QED
        BY <2>1, <2>4, <3>1 DEF Shape
    <2> QED
      BY <2>1, <2>2, <2>3, <2>4 DEF RingOrder
  <1> QED
    BY <1>1, <1>2

\* A line, x, at the end of what the current buffer holds.
LEMMA LineKeepsOrder ==
    ASSUME TypeInv, RingInv, ~overtaken, ownerpc # "done",
           UNCHANGED <<_buf_cnt, next, cur_buf, prst_buf, status, logpc, written, overtaken>>,
           NEW x \in {Stray, appended + 1}, ownerpc' # "done",
           appended' = IF x = Stray THEN appended ELSE x,
           Pending(cur_buf)' = Append(Pending(cur_buf), x),
           \A b \in 1.._buf_cnt : b # cur_buf => Pending(b)' = Pending(b),
           x # Stray => Freed(cur_buf)
    PROVE  RingInv'
  <1> DEFINE n == _buf_cnt
  <1>1. /\ n \in Nat /\ n >= 2 /\ appended \in Nat /\ x \in Nat /\ Stray = 0
        /\ cur_buf \in 1..n
    <2>1. appended \in Nat /\ cur_buf \in 1..n /\ n \in Nat /\ n >= 2
      BY BasicTypes DEF TypeInv, TypeOK
    <2> QED
      BY <2>1 DEF Stray
  <1>2. /\ appended' \in Nat /\ appended' >= appended
        /\ x \in 0..appended' /\ (x # Stray => x = appended')
        /\ appended' = appended \/ appended' = x
    BY <1>1
  <1>3. /\ ToSet(Pending(cur_buf)') = ToSet(Pending(cur_buf)) \cup {x}
        /\ ToSet(Pending(cur_buf)) \subseteq 0..appended
        /\ Rising(Pending(cur_buf)')
    <2>1. Pending(cur_buf) \in Seq(Nat)
      BY <1>1, PendingTypes DEF TypeInv
    <2>2. ToSet(Pending(cur_buf)) \subseteq 0..appended /\ Rising(Pending(cur_buf))
      BY <1>1 DEF RingInv, Contents
    <2>3. x = Stray \/ \A y \in ToSet(Pending(cur_buf)) : y < x
      BY <1>1, <2>2
    <2> QED
      BY <1>1, <2>1, <2>2, <2>3, AppendInOrder
  <1>4. \A t : (Below(t, Pending(cur_buf)) /\ ToSet(t) \subseteq 0..appended)
                  => Below(t, Pending(cur_buf)')
    BY <1>1, <1>3 DEF Below
  <1>5. ASSUME NEW t, ToSet(t) = {} PROVE Below(Pending(cur_buf)', t)
    BY <1>5 DEF Below
  <1>6. Contents'
    <2>1. Rising(written)' /\ ToSet(written)' \subseteq 0..appended'
      BY <1>1, <1>2 DEF RingInv, Contents
    <2>2. ASSUME NEW b \in 1..n
          PROVE  /\ Rising(Pending(b)') /\ ToSet(Pending(b)') \subseteq 0..appended'
                 /\ Below(written', Pending(b)')
      <3>1. CASE b = cur_buf
        <4>1. ToSet(Pending(b)') \subseteq 0..appended'
          <5>1. \A y \in 0..appended : y \in 0..appended'
            BY <1>1, <1>2
          <5> QED
            BY <1>2, <1>3, <3>1, <5>1
        <4>2. Below(written, Pending(cur_buf)) /\ ToSet(written) \subseteq 0..appended
          BY <1>1 DEF RingInv, Contents
        <4>3. Below(written, Pending(cur_buf)')
          BY <1>4, <4>2, Zenon
        <4> QED
          BY <1>3, <3>1, <4>1, <4>3
      <3>2. CASE b # cur_buf
        <4>1. /\ Rising(Pending(b)) /\ ToSet(Pending(b)) \subseteq 0..appended
              /\ Below(written, Pending(b)) /\ Pending(b)' = Pending(b)
          BY <3>2 DEF RingInv, Contents
        <4>2. ToSet(Pending(b)') \subseteq 0..appended'
          BY <1>1, <1>2, <4>1
        <4> QED
          BY <4>1, <4>2
      <3> QED
        BY <3>1, <3>2
    <2>3. ASSUME NEW k \in 1..appended'
          PROVE  k \in ToSet(written') \/ \E b \in 1..n : k \in ToSet(Pending(b)')
      <3>1. CASE k \in 1..appended
        <4>1. CASE k \in ToSet(written)
          BY <4>1
        <4>2. ASSUME NEW b \in 1..n, k \in ToSet(Pending(b))
              PROVE  k \in ToSet(Pending(b)')
          <5>1. CASE b = cur_buf
            BY <1>3, <4>2, <5>1
          <5>2. CASE b # cur_buf
            BY <4>2, <5>2
          <5> QED
            BY <5>1, <5>2
        <4> QED
          BY <3>1, <4>1, <4>2 DEF RingInv, Contents
      <3>2. CASE k \notin 1..appended
        <4>1. k = x
          BY <1>1, <1>2, <3>2
        <4> QED
          BY <1>1, <1>3, <4>1
      <3> QED
        BY <3>1, <3>2
    <2> QED
      BY <2>1, <2>2, <2>3 DEF Contents
  <1>7. RingOrder'
    <2>1. PICK o \in [1..n -> 1..n], c \in 1..n :
             IsRing(o) /\ Sorted(o) /\ Shape(o, c)
      BY DEF RingInv, RingOrder
    <2>2. IsRing(o)'
      BY <2>1 DEF IsRing, Oldest
    <2>3. \A b \in 1..n : Freed(b)' <=> Freed(b)
      BY DEF Freed
    <2>4. Shape(o, c)'
      <3>1. /\ \A i \in 1..(c - 1) : i \in 1..n
            /\ \A i \in c..n : i \in 1..n
            /\ \A i \in (c + 1)..n : i \in 1..n /\ i # c
        BY <1>1
      <3>2. \A i \in (c + 1)..n : o[i] # cur_buf
        BY <2>1, <3>1 DEF IsRing, Shape
      <3> QED
        BY <2>1, <2>3, <3>1, <3>2 DEF Shape
    <2>5. Sorted(o)'
      <3> SUFFICES ASSUME NEW i \in 1..n, NEW j \in 1..n, i < j
                   PROVE  Below(Pending(o[i])', Pending(o[j])')
        BY DEF Sorted
      <3>1. /\ Below(Pending(o[i]), Pending(o[j])) /\ o[i] # o[j]
            /\ o[i] \in 1..n /\ o[j] \in 1..n
        <4>1. Below(Pending(o[i]), Pending(o[j]))
          BY <2>1 DEF Sorted
        <4>2. o[i] = o[j] => i = j
          BY <2>1 DEF IsRing
        <4> QED
          BY <1>1, <2>1, <4>1, <4>2
      <3>2. CASE o[j] = cur_buf
        <4>1. ToSet(Pending(o[i])) \subseteq 0..appended /\ Pending(o[i])' = Pending(o[i])
          BY <3>1, <3>2 DEF RingInv, Contents
        <4>2. Below(Pending(o[i]), Pending(cur_buf))
          BY <3>1, <3>2
        <4>3. Below(Pending(o[i]), Pending(cur_buf)')
          BY <1>4, <4>1, <4>2, Zenon
        <4> QED
          BY <3>2, <4>1, <4>3
      <3>3. CASE o[i] = cur_buf
        <4>1. o[j] # cur_buf /\ Pending(o[j])' = Pending(o[j])
          BY <3>1, <3>3
        <4>2. CASE x = Stray
          BY <1>3, <3>1, <3>3, <4>1, <4>2 DEF Below
        <4>3. CASE x # Stray
          <5>1. i = c
            BY <2>1, <3>3 DEF Shape, IsRing
          <5>2. j \in (c + 1)..n
            BY <1>1, <5>1
          <5>3. c \in 1..n /\ Freed(o[c])
            BY <3>3, <4>3, <5>1
          <5>4. Pending(o[j]) = <<>>
            BY <2>1, <5>2, <5>3 DEF Shape
          <5>5. ToSet(Pending(o[j])) = {}
            BY <5>4, EmptyInOrder
          <5>6. Below(Pending(cur_buf)', Pending(o[j]))
            BY <1>5, <5>5
          <5> QED
            BY <3>3, <4>1, <5>6
        <4> QED
          BY <4>2, <4>3
      <3>4. CASE o[i] # cur_buf /\ o[j] # cur_buf
        BY <3>1, <3>4
      <3> QED
        BY <3>2, <3>3, <3>4
    <2> QED
      BY <2>1, <2>2, <2>4, <2>5 DEF RingOrder
  <1>8. AtFull'
    BY DEF RingInv, AtFull
  <1> QED
    BY <1>6, <1>7, <1>8 DEF RingInv

\* append of cell_buffer, on the current buffer.
LEMMA AppendKeepsRing ==
    ASSUME TypeInv, RingInv, ownerpc # "done", ownerpc' = ownerpc,
           UNCHANGED <<_buf_cnt, next, cur_buf, prst_buf, status, logpc, written, overtaken>>,
           NEW n, Append_(cur_buf, n)
    PROVE  RingInv'
  <1> SUFFICES ASSUME ~overtaken PROVE RingInv'
    BY DEF RingInv
  <1>1. /\ cur_buf \in 1.._buf_cnt /\ cur_buf \in Bufs
        /\ lines \in [Bufs -> Seq(0..MaxLines)]
        /\ \A b \in 1.._buf_cnt : b \in Bufs
        /\ appended \in Nat
    <2>1. appended \in Nat
      BY DEF TypeInv, TypeOK
    <2> QED
      BY <2>1, BasicTypes DEF TypeInv, TypeOK
  <1>2. AtFull /\ AtFull'
    BY DEF RingInv, AtFull
  <1>3. \A b \in 1.._buf_cnt : Freed(b)' <=> Freed(b)
    BY DEF Freed
  <1>4. Oldest' = Oldest
    BY DEF Oldest
  <1>5. CASE UNCHANGED <<lines, appended>>
    <2>1. \A b \in 1.._buf_cnt : Pending(b)' = Pending(b)
      BY <1>5 DEF Pending
    <2> QED
      BY <1>2, <1>3, <1>4, <1>5, <2>1, RingKept
  <1>6. CASE n <= AvailLen(cur_buf)
    <2> DEFINE x == IF status[cur_buf] = "FREE" THEN appended + 1 ELSE Stray
    <2>1. /\ lines' = [lines EXCEPT ![cur_buf] = Append(lines[cur_buf], x)]
          /\ appended' = IF x = Stray THEN appended ELSE x
          /\ x \in {Stray, appended + 1}
          /\ x # Stray => status[cur_buf] = "FREE"
          /\ status[cur_buf] = "FREE" => x # Stray
      BY <1>1, <1>6 DEF Append_, Stray
    <2> HIDE DEF x
    <2>2. \A b \in 1.._buf_cnt : b # cur_buf => Pending(b)' = Pending(b)
      BY <1>1, <2>1 DEF Pending
    <2>3. CASE logpc = "clear" /\ cur_buf = prst_buf
      <3>1. \A b \in 1.._buf_cnt : Pending(b)' = Pending(b)
        BY <2>2, <2>3 DEF Pending
      <3>2. appended' = appended
        BY <1>2, <2>1, <2>3 DEF AtFull
      <3> QED
        BY <1>2, <1>3, <1>4, <3>1, <3>2, RingKept
    <2>4. CASE ~(logpc = "clear" /\ cur_buf = prst_buf)
      <3>1. Pending(cur_buf)' = Append(Pending(cur_buf), x)
        BY <1>1, <2>1, <2>4 DEF Pending
      <3>2. x # Stray => Freed(cur_buf)
        BY <2>1 DEF Freed
      <3> QED
        BY <2>1, <2>2, <3>1, <3>2, LineKeepsOrder
    <2> QED
      BY <2>3, <2>4
  <1> QED
    BY <1>5, <1>6 DEF Append_

\* The writers go to the next buffer, the c-th.
LEMMA MoveOnKeepsRing ==
    ASSUME TypeInv, RingInv, ~overtaken, ownerpc # "done",
           UNCHANGED <<_buf_cnt, next, prst_buf, lines, written, appended, overtaken, ownerpc>>,
           status[cur_buf] = "FREE",
           status' = [status EXCEPT ![cur_buf] = "FULL"],
           cur_buf' = next[cur_buf],
           logpc' = logpc \/ (logpc \in {"lock", "wait"} /\ logpc' = "decide"
                              /\ cur_buf = prst_buf)
    PROVE  RingInv'
  <1> DEFINE n == _buf_cnt
  <1>1. /\ n \in Nat /\ n >= 2 /\ cur_buf \in 1..n /\ cur_buf \in Bufs
        /\ status \in [Bufs -> {"FREE", "FULL"}]
        /\ \A b \in 1..n : b \in Bufs
    BY BasicTypes DEF TypeInv, TypeOK
  <1>2. PICK o \in [1..n -> 1..n], c \in 1..n : IsRing(o) /\ Sorted(o) /\ Shape(o, c)
    BY DEF RingInv, RingOrder
  <1>3. AtFull /\ AtFull'
    BY <1>1 DEF RingInv, AtFull, TypeInv, TypeOK
  <1>4. \A b \in 1..n : Pending(b)' = Pending(b)
    BY DEF Pending
  <1>5. Oldest' = Oldest
    BY DEF Oldest
  <1>6. \A b \in 1..n : b # cur_buf => (Freed(b)' <=> Freed(b))
    BY <1>1 DEF Freed
  <1>7. ASSUME NEW b \in 1..n, b = cur_buf PROVE Freed(b) /\ ~Freed(b)'
    <2>1. status[b] = "FREE" /\ status'[b] = "FULL"
      BY <1>1, <1>7
    <2>2. ~(logpc' = "clear" /\ b = prst_buf')
      BY <1>3, <2>1 DEF AtFull
    <2> QED
      BY <2>1, <2>2 DEF Freed
  <1>8. Contents'
    BY <1>4 DEF RingInv, Contents
  <1>9. IsRing(o)' /\ Sorted(o)'
    <2>1. IsRing(o)'
      BY <1>2, <1>5 DEF IsRing
    <2>2. Sorted(o)'
      BY <1>2, <1>4 DEF Sorted
    <2> QED
      BY <2>1, <2>2
  <1>10. /\ o[c] = cur_buf
         /\ \A i \in 1..n : i # c => o[i] # cur_buf /\ (Freed(o[i])' <=> Freed(o[i]))
         /\ \A i \in 1..n : o[i] \in 1..n
    <2>1. o[c] = cur_buf /\ \A i, j \in 1..n : o[i] = o[j] => i = j
      BY <1>2 DEF Shape, IsRing
    <2> QED
      BY <1>2, <1>6, <2>1
  <1>11. /\ \A i \in 1..n : Freed(o[i]) <=> i >= c
         /\ \A i \in (c + 1)..n : Pending(o[i]) = <<>>
    <2>1. \A i \in 1..n : i >= c => i \in c..n
      BY <1>1
    <2>2. \A i \in 1..n : i < c => i \in 1..(c - 1)
      BY <1>1
    <2>3. \A i \in c..n : Freed(o[i])
      BY <1>2, <1>7, <1>10 DEF Shape
    <2>4. \A i \in (c + 1)..n : Pending(o[i]) = <<>>
      BY <1>2, <1>7, <1>10 DEF Shape
    <2>5. \A i \in 1..(c - 1) : ~Freed(o[i])
      BY <1>2 DEF Shape
    <2>6. \A i \in 1..n : i >= c \/ i < c
      BY <1>1
    <2>7. \A i \in 1..n : i < c => ~(i >= c)
      BY <1>1
    <2> QED
      BY <2>1, <2>2, <2>3, <2>4, <2>5, <2>6, <2>7
  <1>12. \E d \in 1..n : Shape(o, d)'
    <2>1. CASE c < n
      <3>1. c + 1 \in 1..n /\ o[c + 1] = cur_buf'
        <4>1. c \in 1..(n - 1) /\ c + 1 \in 1..n
          BY <1>1, <2>1
        <4>2. next[o[c]] = o[c + 1]
          BY <1>2, <4>1 DEF IsRing
        <4> QED
          BY <1>10, <4>1, <4>2
      <3>2. ASSUME NEW i \in 1..n PROVE Freed(o[i])' <=> i >= c + 1
        <4>1. CASE i = c
          BY <1>1, <1>7, <1>10, <4>1
        <4>2. CASE i # c
          <5>1. i >= c <=> i >= c + 1
            BY <1>1, <4>2
          <5> QED
            BY <1>10, <1>11, <4>2, <5>1
        <4> QED
          BY <4>1, <4>2
      <3>3. /\ \A i \in 1..((c + 1) - 1) : i \in 1..n /\ ~(i >= c + 1)
            /\ \A i \in (c + 1)..n : i \in 1..n /\ i >= c + 1
            /\ \A i \in ((c + 1) + 1)..n : i \in 1..n /\ i \in (c + 1)..n
        BY <1>1
      <3>4. \A i \in ((c + 1) + 1)..n : Pending(o[i])' = <<>>
        BY <1>4, <1>10, <1>11, <3>3
      <3>5. Shape(o, c + 1)'
        BY <3>1, <3>2, <3>3, <3>4 DEF Shape
      <3> QED
        BY <3>1, <3>5
    <2>2. CASE c = n
      <3>1. 1 \in 1..n /\ o[1] = cur_buf'
        <4>1. next[o[n]] = o[1]
          BY <1>2 DEF IsRing
        <4> QED
          BY <1>1, <1>10, <2>2, <4>1
      <3>2. ASSUME NEW i \in 1..n PROVE ~Freed(o[i])'
        <4>1. CASE i = c
          BY <1>7, <1>10, <4>1
        <4>2. CASE i # c
          <5>1. ~(i >= c)
            BY <1>1, <2>2, <4>2
          <5> QED
            BY <1>10, <1>11, <4>2, <5>1
        <4> QED
          BY <4>1, <4>2
      <3>3. \A i \in 1..(1 - 1) : FALSE
        BY <1>1
      <3>4. Shape(o, 1)'
        BY <3>1, <3>2, <3>3 DEF Shape
      <3> QED
        BY <3>1, <3>4
    <2> QED
      BY <1>1, <2>1, <2>2
  <1>13. RingOrder'
    BY <1>2, <1>9, <1>12 DEF RingOrder
  <1> QED
    BY <1>3, <1>8, <1>13 DEF RingInv

\* When the ring grows in front of the log thread, the writers are at the last
\* buffer, or at the last before the one that is being freed.
LEMMA GrowsInFront ==
    ASSUME TypeOK, NEW o, NEW c \in 1.._buf_cnt, IsRing(o), Shape(o, c), AtFull,
           status[cur_buf] = "FREE", status[next[cur_buf]] = "FULL",
           next[cur_buf] = prst_buf
    PROVE  \/ c = _buf_cnt /\ logpc \notin {"clear", "advance"}
           \/ c = _buf_cnt - 1 /\ logpc = "clear" /\ prst_buf = o[_buf_cnt]
  <1> DEFINE n == _buf_cnt
  <1>1. /\ n \in Nat /\ n >= 2 /\ 1 \in 1..n /\ n \in 1..n
        /\ \A b \in 1..n : b \in Bufs /\ status[b] \in {"FREE", "FULL"}
    <2>1. n \in Nat /\ n >= 2
      BY BasicTypes
    <2>2. \A b \in Bufs : status[b] \in {"FREE", "FULL"}
      BY DEF TypeOK
    <2> QED
      BY <2>1, <2>2, BasicTypes
  <1>2. /\ o[c] = cur_buf /\ \A i \in 1..n : o[i] \in 1..n
        /\ \A i, j \in 1..n : o[i] = o[j] => i = j
    BY DEF Shape, IsRing
  <1>3. Freed(o[c])
    BY <1>2 DEF Freed
  <1>4. prst_buf = IF logpc \in {"clear", "advance"} THEN o[n] ELSE o[1]
    BY LogThreadAt
  <1>5. CASE c = n
    <2>1. prst_buf = o[1]
      BY <1>2, <1>5 DEF IsRing
    <2>2. o[1] # o[n]
      BY <1>1, <1>2
    <2> QED
      BY <1>4, <1>5, <2>1, <2>2
  <1>6. CASE c # n
    <2>1. c \in 1..(n - 1) /\ c + 1 \in 1..n /\ c + 1 \in c..n
      BY <1>1, <1>6
    <2>2. prst_buf = o[c + 1]
      BY <1>2, <2>1 DEF IsRing
    <2>3. Freed(o[c + 1])
      BY <1>3, <2>1 DEF Shape
    <2>4. logpc = "clear"
      BY <2>2, <2>3 DEF Freed
    <2>5. c + 1 = n
      BY <1>1, <1>2, <1>4, <2>1, <2>2, <2>4
    <2> QED
      BY <1>1, <1>4, <2>4, <2>5
  <1> QED
    BY <1>5, <1>6

LEMMA GrowKeepsRing ==
    ASSUME TypeInv, RingInv, ~overtaken', ownerpc # "done",
           UNCHANGED <<prst_buf, lines, written, appended, ownerpc, logpc>>,
           status[cur_buf] = "FREE",
           status' = [status EXCEPT ![cur_buf] = "FULL"], Grow
    PROVE  RingInv'
  <1> DEFINE n == _buf_cnt
  <1>m. PICK m : m = n + 1
    OBVIOUS
  <1>1. /\ n \in Nat /\ n >= 2 /\ cur_buf \in 1..n /\ cur_buf \in Bufs
        /\ m \in 1..m /\ m \in Bufs /\ m # cur_buf /\ prst_buf \in 1..n
        /\ status \in [Bufs -> {"FREE", "FULL"}]
        /\ \A b \in 1..n : b \in Bufs /\ b # m /\ b \in 1..m
        /\ \A b \in 1..m : b # m => b \in 1..n
        /\ \A i \in 1..m : i >= 1 /\ i <= m
    <2>1. n \in Nat /\ n >= 2 /\ MaxBufs \in Nat /\ m <= MaxBufs
      BY <1>m, BasicTypes DEF TypeInv, Grow
    <2>2. cur_buf \in 1..n /\ prst_buf \in 1..n /\ status \in [Bufs -> {"FREE", "FULL"}]
      BY DEF TypeInv, TypeOK
    <2> QED
      BY <1>m, <2>1, <2>2 DEF Bufs
  <1>2. /\ _buf_cnt' = m /\ cur_buf' = m
        /\ next' = [d \in 1..m |-> IF d = cur_buf THEN m
                                    ELSE IF d = m THEN next[cur_buf] ELSE next[d]]
        /\ ~overtaken /\ next[cur_buf] = prst_buf
        /\ status[next[cur_buf]] = "FULL"
    BY <1>m DEF Grow, GrowAfter
  <1>3. PICK o \in [1..n -> 1..n], c \in 1..n : IsRing(o) /\ Sorted(o) /\ Shape(o, c)
    BY <1>2 DEF RingInv, RingOrder
  <1>4. AtFull /\ Contents
    BY <1>2 DEF RingInv
  <1>5. \/ c = n /\ logpc \notin {"clear", "advance"}
        \/ c = n - 1 /\ logpc = "clear" /\ prst_buf = o[n]
    BY <1>2, <1>3, <1>4, GrowsInFront DEF TypeInv
  <1>6. /\ o[c] = cur_buf /\ \A i \in 1..n : o[i] \in 1..n
        /\ \A i, j \in 1..n : o[i] = o[j] => i = j
        /\ \A i \in 1..(n - 1) : next[o[i]] = o[i + 1]
        /\ next[o[n]] = o[1] /\ o[1] = Oldest
        /\ \A b \in 1..n : \E i \in 1..n : o[i] = b
    BY <1>3 DEF Shape, IsRing
  <1>q. PICK q : q = [i \in 1..m |-> IF i <= c THEN o[i]
                                      ELSE IF i = c + 1 THEN m ELSE o[i - 1]]
    OBVIOUS
  <1>7. /\ q \in [1..m -> 1..m]
        /\ \A i \in 1..c : i \in 1..m /\ q[i] = o[i] /\ i \in 1..n
        /\ q[c + 1] = m /\ c + 1 \in 1..m
        /\ \A i \in (c + 2)..m : i \in 1..m /\ q[i] = o[i - 1] /\ i - 1 \in (c + 1)..n
        /\ \A i \in 1..m : i \in 1..c \/ i = c + 1 \/ i \in (c + 2)..m
    <2>1. \A i \in 1..m : i \in 1..c \/ i = c + 1 \/ i \in (c + 2)..m
      BY <1>m, <1>1
    <2>2. \A i \in 1..c : i \in 1..m /\ q[i] = o[i] /\ i \in 1..n
      BY <1>m, <1>1, <1>q
    <2>3. q[c + 1] = m /\ c + 1 \in 1..m
      BY <1>m, <1>1, <1>q
    <2>4. \A i \in (c + 2)..m : i \in 1..m /\ q[i] = o[i - 1] /\ i - 1 \in (c + 1)..n
      BY <1>m, <1>1, <1>q
    <2>5. \A i \in 1..m : q[i] \in 1..m
      <3> TAKE i \in 1..m
      <3>1. CASE i \in 1..c
        BY <1>m, <1>1, <1>6, <2>2, <3>1
      <3>2. CASE i = c + 1
        BY <1>m, <1>1, <2>3, <3>2
      <3>3. CASE i \in (c + 2)..m
        <4>1. i - 1 \in 1..n
          BY <1>m, <1>1, <2>4, <3>3
        <4> QED
          BY <1>m, <1>1, <1>6, <2>4, <3>3, <4>1
      <3> QED
        BY <2>1, <3>1, <3>2, <3>3
    <2>6. q \in [1..m -> 1..m]
      BY <1>q, <2>5, Zenon
    <2> QED
      BY <2>1, <2>2, <2>3, <2>4, <2>6
  <1>8. /\ \A i \in (c + 1)..n : i \in 1..n /\ i # c
        /\ \A i \in 1..c : i # c => i \in 1..(c - 1) /\ i \in 1..(n - 1) /\ i + 1 \in 1..c
    BY <1>m, <1>1
  <1>9. IsRing(q)'
    <2>1. q[1] = Oldest'
      <3>1. q[1] = o[1]
        BY <1>m, <1>1, <1>7
      <3>2. prst_buf # cur_buf /\ prst_buf # m
        BY <1>m, <1>1, <1>2
      <3>3. Oldest' = Oldest
        BY <1>m, <1>1, <1>2, <3>2 DEF Oldest
      <3> QED
        BY <1>6, <3>1, <3>3
    <2>2. /\ next'[cur_buf] = m /\ next'[m] = prst_buf
          /\ \A d \in 1..n : d # cur_buf => next'[d] = next[d]
      BY <1>m, <1>1, <1>2
    <2>3. ASSUME NEW i \in 1..(m - 1) PROVE next'[q[i]] = q[i + 1]
      <3>1. CASE i \in 1..c /\ i # c
        <4>1. q[i] = o[i] /\ q[i + 1] = o[i + 1] /\ o[i] # cur_buf /\ o[i] \in 1..n
          BY <1>6, <1>7, <1>8, <3>1
        <4>2. next'[o[i]] = next[o[i]]
          BY <2>2, <4>1
        <4>3. next[o[i]] = o[i + 1]
          BY <1>6, <1>8, <3>1
        <4> QED
          BY <4>1, <4>2, <4>3
      <3>2. CASE i = c
        <4>1. c \in 1..c
          BY <1>m, <1>1
        <4>2. q[i] = cur_buf /\ q[i + 1] = m
          BY <1>6, <1>7, <3>2, <4>1
        <4> QED
          BY <2>2, <4>2
      <3>3. CASE i = c + 1
        <4>1. c = n - 1 /\ prst_buf = o[n]
          BY <1>m, <1>1, <1>5, <3>3
        <4>2. i + 1 \in (c + 2)..m /\ (i + 1) - 1 = n
          BY <1>m, <1>1, <3>3, <4>1
        <4>3. q[i + 1] = o[n] /\ q[i] = m
          BY <1>7, <3>3, <4>2
        <4> QED
          BY <2>2, <4>1, <4>3
      <3>4. i \in 1..c \/ i = c + 1
        BY <1>m, <1>1, <1>5
      <3> QED
        BY <3>1, <3>2, <3>3, <3>4
    <2>4. next'[q[m]] = q[1]
      <3>1. q[1] = o[1]
        BY <1>m, <1>1, <1>7
      <3>2. CASE c = n
        <4>1. q[m] = m /\ prst_buf = o[1]
          BY <1>m, <1>2, <1>6, <1>7, <3>2
        <4> QED
          BY <2>2, <3>1, <4>1
      <3>3. CASE c = n - 1
        <4>1. m \in (c + 2)..m /\ m - 1 = n /\ n \in 1..n /\ n # c
          BY <1>m, <1>1, <3>3
        <4>2. q[m] = o[n] /\ o[n] # cur_buf /\ o[n] \in 1..n
          BY <1>6, <1>7, <4>1
        <4>3. next'[o[n]] = next[o[n]]
          BY <2>2, <4>2
        <4> QED
          BY <1>6, <3>1, <4>2, <4>3
      <3> QED
        BY <1>5, <3>2, <3>3
    <2>5. ASSUME NEW i \in 1..m, NEW j \in 1..m, q[i] = q[j] PROVE i = j
      <3>1. \A k \in 1..m :
                           \/ k \in 1..c /\ q[k] = o[k] /\ k \in 1..n
                           \/ k = c + 1 /\ q[k] = m
                           \/ k \in (c + 2)..m /\ q[k] = o[k - 1] /\ k - 1 \in 1..n
        <4> TAKE k \in 1..m
        <4>1. CASE k \in 1..c
          BY <1>7, <4>1
        <4>2. CASE k = c + 1
          BY <1>7, <4>2
        <4>3. CASE k \in (c + 2)..m
          BY <1>7, <1>8, <4>3
        <4> QED
          BY <1>7, <4>1, <4>2, <4>3
      <3>2. \A k \in 1..n : o[k] # m
        BY <1>m, <1>1, <1>6
      <3>3. CASE i = c + 1 \/ j = c + 1
        BY <1>7, <2>5, <3>1, <3>2, <3>3
      <3>4. CASE i # c + 1 /\ j # c + 1
        <4>1. CASE i \in 1..c /\ j \in 1..c
          BY <1>6, <1>7, <2>5, <4>1
        <4>2. CASE i \in (c + 2)..m /\ j \in (c + 2)..m
          <5>1. i - 1 = j - 1
            BY <1>6, <1>7, <1>8, <2>5, <4>2
          <5> QED
            BY <5>1
        <4>3. CASE i \in 1..c /\ j \in (c + 2)..m
          <5>1. i = j - 1
            BY <1>6, <1>7, <1>8, <2>5, <4>3
          <5> QED
            BY <1>m, <1>1, <4>3, <5>1
        <4>4. CASE i \in (c + 2)..m /\ j \in 1..c
          <5>1. i - 1 = j
            BY <1>6, <1>7, <1>8, <2>5, <4>4
          <5> QED
            BY <1>m, <1>1, <4>4, <5>1
        <4> QED
          BY <1>7, <3>4, <4>1, <4>2, <4>3, <4>4
      <3> QED
        BY <3>3, <3>4
    <2>6. ASSUME NEW b \in 1..m PROVE \E i \in 1..m : q[i] = b
      <3>1. CASE b = m
        BY <1>7, <3>1
      <3>2. CASE b # m
        <4>1. PICK k \in 1..n : o[k] = b
          BY <1>m, <1>1, <1>6, <3>2
        <4>2. CASE k \in 1..c
          BY <1>7, <4>1, <4>2
        <4>3. CASE k \notin 1..c
          <5>1. k + 1 \in (c + 2)..m /\ (k + 1) - 1 = k
            BY <1>m, <1>1, <4>3
          <5> QED
            BY <1>7, <4>1, <5>1
        <4> QED
          BY <4>2, <4>3
      <3> QED
        BY <3>1, <3>2
    <2> QED
      BY <1>2, <1>7, <2>1, <2>3, <2>4, <2>5, <2>6 DEF IsRing
  <1>10. /\ Pending(m)' = <<>> /\ Freed(m)'
         /\ \A b \in 1..n : Pending(b)' = Pending(b)
         /\ \A b \in 1..n : b # cur_buf => (Freed(b)' <=> Freed(b))
    <2>1. lines[m] = <<>> /\ status[m] = "FREE" /\ status'[m] = "FREE"
      BY <1>m, <1>1, BasicTypes DEF TypeInv, FreshInv, Bufs
    <2> QED
      BY <1>m, <1>1, <2>1 DEF Pending, Freed
  <1>11. ASSUME NEW b \in 1..n, b = cur_buf PROVE ~Freed(b)'
    <2>1. status'[b] = "FULL"
      BY <1>m, <1>1, <1>11
    <2>2. ~(logpc' = "clear" /\ b = prst_buf')
      BY <1>m, <1>1, <1>2, <1>11
    <2> QED
      BY <2>1, <2>2 DEF Freed
  <1>12. Contents'
    <2>1. ASSUME NEW b \in 1..m
          PROVE  /\ Rising(Pending(b)') /\ ToSet(Pending(b)') \subseteq 0..appended
                 /\ Below(written, Pending(b)')
      <3>1. CASE b = m
        BY <1>10, <3>1, EmptyInOrder
      <3>2. CASE b # m
        BY <1>m, <1>1, <1>4, <1>10, <3>2 DEF Contents
      <3> QED
        BY <3>1, <3>2
    <2>2. ASSUME NEW k \in 1..appended
          PROVE  k \in ToSet(written) \/ \E b \in 1..m : k \in ToSet(Pending(b)')
      <3>1. k \in ToSet(written) \/ \E b \in 1..n : k \in ToSet(Pending(b))
        BY <1>4 DEF Contents
      <3> QED
        BY <1>m, <1>1, <1>10, <3>1
    <2>3. Rising(written) /\ ToSet(written) \subseteq 0..appended
      BY <1>4 DEF Contents
    <2> QED
      BY <1>2, <2>1, <2>2, <2>3 DEF Contents
  <1>13. Sorted(q)'
    <2> SUFFICES ASSUME NEW i \in 1..m, NEW j \in 1..m, i < j
                 PROVE  Below(Pending(q[i])', Pending(q[j])')
      BY <1>2 DEF Sorted
    <2>1. CASE i = c + 1 \/ j = c + 1
      BY <1>7, <1>10, <2>1, EmptyInOrder
    <2>2. CASE i # c + 1 /\ j # c + 1
      <3>1. PICK k \in 1..n, l \in 1..n : k < l /\ q[i] = o[k] /\ q[j] = o[l]
        <4>1. CASE i \in 1..c /\ j \in 1..c
          BY <1>7, <4>1
        <4>2. CASE i \in 1..c /\ j \in (c + 2)..m
          <5>1. i < j - 1
            BY <1>m, <1>1, <4>2
          <5> QED
            BY <1>7, <1>8, <4>2, <5>1
        <4>3. CASE i \in (c + 2)..m
          <5>1. j \in (c + 2)..m /\ i - 1 < j - 1
            BY <1>m, <1>1, <4>3
          <5> QED
            BY <1>7, <1>8, <4>3, <5>1
        <4> QED
          BY <1>7, <2>2, <4>1, <4>2, <4>3
      <3>2. Below(Pending(o[k]), Pending(o[l]))
        BY <1>3, <3>1 DEF Sorted
      <3>3. Pending(o[k])' = Pending(o[k]) /\ Pending(o[l])' = Pending(o[l])
        BY <1>6, <1>10
      <3> QED
        BY <3>1, <3>2, <3>3
    <2> QED
      BY <2>1, <2>2
  <1>14. Shape(q, c + 1)'
    <2>1. /\ Freed(o[c])
          /\ \A i \in 1..(c - 1) : ~Freed(o[i])
          /\ \A i \in c..n : Freed(o[i])
          /\ \A i \in (c + 1)..n : Pending(o[i]) = <<>>
      <3>1. Freed(o[c]) /\ c \in 1..n
        BY <1>6 DEF Freed
      <3> QED
        BY <1>3, <3>1 DEF Shape
    <2>2. \A i \in 1..((c + 1) - 1) : ~Freed(q[i])'
      <3> SUFFICES ASSUME NEW i \in 1..c PROVE ~Freed(q[i])'
        BY <1>m, <1>1
      <3>1. q[i] = o[i] /\ o[i] \in 1..n /\ i \in 1..n
        BY <1>6, <1>7
      <3>2. CASE i = c
        BY <1>6, <1>11, <3>1, <3>2
      <3>3. CASE i # c
        <4>1. o[i] # cur_buf /\ ~Freed(o[i])
          BY <1>6, <1>8, <2>1, <3>1, <3>3
        <4> QED
          BY <1>10, <3>1, <4>1
      <3> QED
        BY <3>2, <3>3
    <2>3. ASSUME NEW i \in (c + 2)..m PROVE Freed(q[i])' /\ Pending(q[i])' = <<>>
      <3>1. /\ q[i] = o[i - 1] /\ i - 1 \in (c + 1)..n /\ i - 1 \in 1..n /\ i - 1 # c
            /\ i - 1 \in c..n
        BY <1>m, <1>1, <1>7, <1>8
      <3>2. o[i - 1] # cur_buf /\ o[i - 1] \in 1..n
        BY <1>6, <3>1
      <3> QED
        BY <1>10, <2>1, <3>1, <3>2
    <2>4. \A i \in (c + 1)..m : Freed(q[i])'
      <3>1. \A i \in (c + 1)..m : i = c + 1 \/ i \in (c + 2)..m
        BY <1>m, <1>1
      <3> QED
        BY <1>7, <1>10, <2>3, <3>1
    <2>5. \A i \in ((c + 1) + 1)..m : i \in (c + 2)..m
      BY <1>m, <1>1
    <2> QED
      BY <1>2, <1>7, <2>2, <2>3, <2>4, <2>5 DEF Shape
  <1>15. RingOrder'
    BY <1>2, <1>7, <1>9, <1>13, <1>14 DEF RingOrder
  <1>16. AtFull'
    BY <1>m, <1>1, <1>4 DEF AtFull
  <1> QED
    BY <1>12, <1>15, <1>16 DEF RingInv

\* What the oldest buffer holds goes to the end of the file.
LEMMA WriteKeepsContents ==
    ASSUME TypeInv, Contents, NEW o, IsRing(o), Sorted(o), prst_buf = o[1],
           UNCHANGED <<_buf_cnt, prst_buf, appended>>,
           written' = written \o Pending(prst_buf),
           \A b \in 1.._buf_cnt :
              Pending(b)' = IF b = prst_buf THEN <<>> ELSE Pending(b)
    PROVE  Contents'
  <1> DEFINE n == _buf_cnt
  <1>1. /\ n \in Nat /\ n >= 2 /\ 1 \in 1..n /\ prst_buf \in 1..n
        /\ written \in Seq(Nat) /\ Pending(prst_buf) \in Seq(Nat)
    <2>1. n \in Nat /\ n >= 2 /\ prst_buf \in 1..n
      BY BasicTypes DEF TypeInv, TypeOK
    <2> QED
      BY <2>1, PendingTypes DEF TypeInv
  <1>2. /\ Rising(written) /\ ToSet(written) \subseteq 0..appended
        /\ \A b \in 1..n : /\ Rising(Pending(b)) /\ ToSet(Pending(b)) \subseteq 0..appended
                          /\ Below(written, Pending(b))
    BY DEF Contents
  <1>3. Rising(written') /\ ToSet(written') = ToSet(written) \cup ToSet(Pending(prst_buf))
    BY <1>1, <1>2, ConcatInOrder
  <1>4. ToSet(written') \subseteq 0..appended
    BY <1>1, <1>2, <1>3
  <1>5. ASSUME NEW b \in 1..n
        PROVE  /\ Rising(Pending(b)') /\ ToSet(Pending(b)') \subseteq 0..appended
               /\ Below(written', Pending(b)')
    <2>1. CASE b = prst_buf
      BY <2>1, EmptyInOrder
    <2>2. CASE b # prst_buf
      <3>1. PICK i \in 1..n : o[i] = b
        BY DEF IsRing
      <3>2. 1 < i
        BY <1>1, <2>2, <3>1
      <3>3. Below(Pending(prst_buf), Pending(b))
        BY <1>1, <3>1, <3>2 DEF Sorted
      <3>4. Below(written, Pending(b)) /\ Pending(b)' = Pending(b)
        BY <1>2, <2>2
      <3>5. Below(written', Pending(b))
        BY <1>3, <3>3, <3>4 DEF Below
      <3> QED
        BY <1>2, <3>4, <3>5
    <2> QED
      BY <2>1, <2>2
  <1>6. ASSUME NEW k \in 1..appended
        PROVE  k \in ToSet(written') \/ \E b \in 1..n : k \in ToSet(Pending(b)')
    <2>1. k \in ToSet(written) \/ \E b \in 1..n : k \in ToSet(Pending(b))
      BY DEF Contents
    <2>2. ASSUME NEW b \in 1..n, k \in ToSet(Pending(b))
          PROVE  k \in ToSet(written') \/ k \in ToSet(Pending(b)')
      BY <1>3, <2>2
    <2> QED
      BY <1>3, <2>1, <2>2
  <1> QED
    BY <1>3, <1>4, <1>5, <1>6 DEF Contents

LEMMA WriteKeepsRing ==
    ASSUME TypeInv, RingInv, PersistWrite
    PROVE  RingInv'
  <1> DEFINE n == _buf_cnt
  <1> SUFFICES ASSUME ~overtaken PROVE RingInv'
    BY DEF RingInv, PersistWrite, bufvars
  <1>1. /\ n \in Nat /\ n >= 2 /\ 1 \in 1..n /\ 2 \in 1..n /\ prst_buf \in 1..n
    <2>1. n \in Nat /\ n >= 2 /\ prst_buf \in 1..n
      BY BasicTypes DEF TypeInv, TypeOK
    <2> QED
      BY <2>1
  <1>2. /\ logpc = "write" /\ logpc' = "clear" /\ ownerpc # "done"
        /\ UNCHANGED <<bufvars, prst_buf, appended, ownerpc>>
        /\ written' = written \o lines[prst_buf]
    BY DEF PersistWrite, Stream, TypeInv, OwnerInv, logless, writervars
  <1>3. PICK o \in [1..n -> 1..n], c \in 1..n : IsRing(o) /\ Sorted(o) /\ Shape(o, c)
    BY <1>2 DEF RingInv, RingOrder
  <1>4. prst_buf = o[1] /\ status[prst_buf] = "FULL" /\ AtFull'
    BY <1>2, <1>3, LogThreadAt DEF TypeInv, RingInv, AtFull, bufvars
  <1>5. /\ \A b \in 1..n : Pending(b)' = IF b = prst_buf THEN <<>> ELSE Pending(b)
        /\ \A b \in 1..n : Freed(b)' <=> (Freed(b) \/ b = prst_buf)
        /\ written' = written \o Pending(prst_buf)
        /\ ~Freed(prst_buf)
    BY <1>2, <1>4 DEF Pending, Freed, bufvars
  <1>6. Contents'
    BY <1>2, <1>3, <1>4, <1>5, WriteKeepsContents DEF RingInv, bufvars
  <1>7. /\ \A i \in 1..n : o[i] \in 1..n
        /\ \A i, j \in 1..n : o[i] = o[j] => i = j
        /\ \A i \in 1..(n - 1) : next[o[i]] = o[i + 1]
        /\ next[o[n]] = o[1] /\ o[c] = cur_buf
        /\ \A b \in 1..n : \E i \in 1..n : o[i] = b
    BY <1>3 DEF IsRing, Shape
  <1>q. PICK q : q = [i \in 1..n |-> IF i < n THEN o[i + 1] ELSE o[1]]
    OBVIOUS
  <1>8. /\ \A i \in 1..(n - 1) : q[i] = o[i + 1] /\ i + 1 \in 1..n /\ i + 1 # 1 /\ i \in 1..n
        /\ q[n] = o[1] /\ n \in 1..n
        /\ \A i \in 1..n : i \in 1..(n - 1) \/ i = n
        /\ q \in [1..n -> 1..n]
    <2>1. \A i \in 1..n : (IF i < n THEN o[i + 1] ELSE o[1]) \in 1..n
      <3> TAKE i \in 1..n
      <3>1. i < n => i + 1 \in 1..n
        BY <1>1
      <3> QED
        BY <1>1, <1>7, <3>1
    <2>2. q \in [1..n -> 1..n]
      BY <1>q, <2>1, Zenon
    <2> QED
      BY <1>1, <1>q, <2>2
  <1>9. IsRing(q)'
    <2>1. q[1] = Oldest'
      <3>1. PICK k \in 1..(n - 1) : k = 1
        BY <1>1
      <3>2. q[k] = o[k + 1] /\ next[o[k]] = o[k + 1]
        BY <1>7, <1>8
      <3> QED
        BY <1>2, <1>4, <3>1, <3>2 DEF Oldest, bufvars
    <2>2. ASSUME NEW i \in 1..(n - 1) PROVE next[q[i]] = q[i + 1]
      <3>1. CASE i + 1 = n
        <4>1. q[i] = o[n] /\ q[i + 1] = o[1]
          BY <1>8, <3>1
        <4> QED
          BY <1>7, <4>1
      <3>2. CASE i + 1 # n
        <4>1. i + 1 \in 1..(n - 1)
          BY <1>1, <3>2
        <4>2. q[i] = o[i + 1] /\ q[i + 1] = o[(i + 1) + 1]
          BY <1>8, <4>1
        <4>3. next[o[i + 1]] = o[(i + 1) + 1]
          BY <1>7, <4>1
        <4> QED
          BY <4>2, <4>3
      <3> QED
        BY <3>1, <3>2
    <2>3. next[q[n]] = q[1]
      <3>1. PICK k \in 1..(n - 1) : k = 1
        BY <1>1
      <3>2. q[k] = o[k + 1] /\ next[o[k]] = o[k + 1] /\ q[n] = o[1]
        BY <1>7, <1>8
      <3> QED
        BY <3>1, <3>2
    <2>4. ASSUME NEW i \in 1..n, NEW j \in 1..n, q[i] = q[j] PROVE i = j
      <3>1. CASE i = n
        BY <1>1, <1>7, <1>8, <2>4, <3>1
      <3>2. CASE j = n
        BY <1>1, <1>7, <1>8, <2>4, <3>2
      <3>3. CASE i # n /\ j # n
        <4>a. i \in 1..(n - 1) /\ j \in 1..(n - 1)
          BY <1>8, <3>3
        <4>b. o[i + 1] = o[j + 1] /\ i + 1 \in 1..n /\ j + 1 \in 1..n
          BY <1>8, <2>4, <4>a
        <4>1. i + 1 = j + 1
          BY <1>7, <4>b
        <4> QED
          BY <4>1
      <3> QED
        BY <3>1, <3>2, <3>3
    <2>5. ASSUME NEW b \in 1..n PROVE \E i \in 1..n : q[i] = b
      <3>1. PICK k \in 1..n : o[k] = b
        BY <1>7
      <3>2. CASE k = 1
        BY <1>8, <3>1, <3>2
      <3>3. CASE k # 1
        <4>1. k - 1 \in 1..(n - 1) /\ (k - 1) + 1 = k
          BY <1>1, <3>3
        <4> QED
          BY <1>8, <3>1, <4>1
      <3> QED
        BY <3>2, <3>3
    <2> QED
      BY <1>2, <1>8, <2>1, <2>2, <2>3, <2>4, <2>5 DEF IsRing, bufvars
  <1>10. Sorted(q)'
    <2> SUFFICES ASSUME NEW i \in 1..n, NEW j \in 1..n, i < j
                 PROVE  Below(Pending(q[i])', Pending(q[j])')
      BY <1>2 DEF Sorted, bufvars
    <2>1. CASE j = n
      BY <1>1, <1>4, <1>5, <1>8, <2>1, EmptyInOrder
    <2>2. CASE j # n
      <3>1. /\ i \in 1..(n - 1) /\ j \in 1..(n - 1) /\ i + 1 < j + 1
        BY <1>1, <2>2
      <3>2. /\ q[i] = o[i + 1] /\ q[j] = o[j + 1]
            /\ o[i + 1] # prst_buf /\ o[j + 1] # prst_buf
            /\ o[i + 1] \in 1..n /\ o[j + 1] \in 1..n
        BY <1>1, <1>4, <1>7, <1>8, <3>1
      <3>3. Below(Pending(o[i + 1]), Pending(o[j + 1]))
        BY <1>3, <1>8, <3>1 DEF Sorted
      <3> QED
        BY <1>5, <3>2, <3>3
    <2> QED
      BY <2>1, <2>2
  <1>11. ASSUME NEW i \in 1..(n - 1)
         PROVE  /\ Freed(q[i])' <=> Freed(o[i + 1])
                /\ Pending(q[i])' = Pending(o[i + 1])
    <2>1. q[i] = o[i + 1] /\ o[i + 1] # prst_buf /\ o[i + 1] \in 1..n
      BY <1>1, <1>4, <1>7, <1>8
    <2> QED
      BY <1>5, <2>1
  <1>12. ASSUME NEW i \in 1..n, i = n PROVE Freed(q[i])' /\ Pending(q[i])' = <<>>
    <2>1. q[i] = prst_buf
      BY <1>4, <1>8, <1>12
    <2> QED
      BY <1>1, <1>5, <2>1
  <1>13. \E d \in 1..n : Shape(q, d)'
    <2>1. CASE \A i \in 1..n : ~Freed(o[i])
      <3>1. c = 1
        <4>1. c \in c..n
          BY <1>1
        <4> QED
          BY <1>3, <2>1, <4>1 DEF Shape
      <3>d. PICK d \in 1..n : d = n
        BY <1>8
      <3>2. Shape(q, d)'
        <4>1. /\ \A i \in d..n : i = n /\ i \in 1..n
              /\ \A i \in (d + 1)..n : FALSE
              /\ \A i \in 1..(d - 1) : i \in 1..(n - 1)
          BY <1>1, <3>d
        <4>2. \A i \in 1..(n - 1) : ~Freed(q[i])'
          BY <1>8, <1>11, <2>1
        <4>3. q[d] = cur_buf' /\ _buf_cnt' = n
          BY <1>2, <1>7, <1>8, <3>1, <3>d DEF bufvars
        <4> QED
          BY <1>12, <4>1, <4>2, <4>3 DEF Shape
      <3> QED
        BY <3>2
    <2>2. CASE \E i \in 1..n : Freed(o[i])
      <3>1. /\ \A i \in 1..(c - 1) : ~Freed(o[i])
            /\ \A i \in c..n : Freed(o[i])
            /\ \A i \in (c + 1)..n : Pending(o[i]) = <<>>
        BY <1>3, <2>2 DEF Shape
      <3>2. c # 1
        BY <1>1, <1>4, <1>5, <3>1
      <3>3. c - 1 \in 1..(n - 1) /\ c - 1 \in 1..n /\ (c - 1) + 1 = c
        BY <1>1, <3>2
      <3>4. Shape(q, c - 1)'
        <4>1. q[c - 1] = cur_buf' /\ _buf_cnt' = n
          BY <1>2, <1>7, <1>8, <3>3 DEF bufvars
        <4>2. \A i \in 1..((c - 1) - 1) : ~Freed(q[i])'
          <5>1. \A i \in 1..((c - 1) - 1) : i \in 1..(n - 1) /\ i + 1 \in 1..(c - 1)
            BY <1>1
          <5> QED
            BY <1>11, <3>1, <5>1
        <4>3. \A i \in (c - 1)..n : Freed(q[i])'
          <5>1. \A i \in (c - 1)..n : (i = n /\ i \in 1..n) \/ (i \in 1..(n - 1) /\ i + 1 \in c..n)
            BY <1>1, <3>3
          <5> QED
            BY <1>11, <1>12, <3>1, <5>1
        <4>4. \A i \in ((c - 1) + 1)..n : Pending(q[i])' = <<>>
          <5>1. \A i \in ((c - 1) + 1)..n :
                   (i = n /\ i \in 1..n) \/ (i \in 1..(n - 1) /\ i + 1 \in (c + 1)..n)
            BY <1>1, <3>3
          <5> QED
            BY <1>11, <1>12, <3>1, <5>1
        <4> QED
          BY <4>1, <4>2, <4>3, <4>4 DEF Shape
      <3> QED
        BY <3>3, <3>4
    <2> QED
      BY <2>1, <2>2
  <1>14. RingOrder'
    BY <1>2, <1>8, <1>9, <1>10, <1>13 DEF RingOrder, bufvars
  <1> QED
    BY <1>4, <1>6, <1>14 DEF RingInv

\* A step that has nothing to do with the buffers.
LEMMA ElsewhereKeepsRing ==
    ASSUME TypeInv, RingInv, UNCHANGED <<bufvars, prst_buf, written, appended>>,
           logpc' = "clear" <=> logpc = "clear",
           logpc' = "advance" <=> logpc = "advance",
           logpc' \in {"decide", "write"} =>
              logpc \in {"decide", "write"} \/ status[prst_buf] = "FULL",
           ownerpc' # "done" => ownerpc # "done"
    PROVE  RingInv'
  <1>1. UNCHANGED <<_buf_cnt, next, cur_buf, overtaken, status, lines>>
    BY DEF bufvars
  <1>2. Oldest' = Oldest
    BY <1>1 DEF Oldest
  <1>3. \A b \in 1.._buf_cnt : Pending(b)' = Pending(b) /\ (Freed(b)' <=> Freed(b))
    BY <1>1 DEF Pending, Freed
  <1>4. ~overtaken => AtFull'
    BY <1>1 DEF RingInv, AtFull
  <1> QED
    BY <1>1, <1>2, <1>3, <1>4, RingKept

LEMMA WriterKeepsRing ==
    ASSUME TypeInv, RingInv, NEW w \in Writers, Writer(w)
    PROVE  RingInv'
  <1>1. CASE TryAppend(w)
    BY <1>1, ElsewhereKeepsRing DEF TryAppend
  <1>2. CASE TestRelog(w)
    BY <1>2, ElsewhereKeepsRing DEF TestRelog
  <1>3. CASE ResetRelog(w)
    BY <1>3, ElsewhereKeepsRing DEF ResetRelog
  <1>4. CASE LockedAppend(w)
    <2>1. /\ ownerpc # "done" /\ ownerpc' = ownerpc /\ logpc' = logpc
          /\ UNCHANGED <<prst_buf, written>>
      BY <1>4 DEF LockedAppend, TypeInv, OwnerInv
    <2>2. CASE AppendHere(w)
      BY <2>1, <2>2, AppendKeepsRing DEF AppendHere
    <2>3. CASE Advance(w)
      <3>1. /\ status[cur_buf] = "FREE" /\ UNCHANGED <<lines, appended>>
            /\ status' = [status EXCEPT ![cur_buf] = "FULL"]
        BY <2>3 DEF Advance
      <3>2. CASE MoveOn \/ MoveOnAtLimit(w)
        <4>1. cur_buf' = next[cur_buf] /\ UNCHANGED <<next, _buf_cnt, overtaken>>
          BY <3>2 DEF MoveOn, MoveOnAtLimit
        <4>2. CASE overtaken
          BY <4>1, <4>2 DEF RingInv
        <4>3. CASE ~overtaken
          BY <2>1, <3>1, <4>1, <4>3, MoveOnKeepsRing
        <4> QED
          BY <4>2, <4>3
      <3>3. CASE Grow
        <4>1. CASE overtaken'
          BY <4>1 DEF RingInv
        <4>2. CASE ~overtaken'
          BY <2>1, <3>1, <3>3, <4>2, GrowKeepsRing
        <4> QED
          BY <4>1, <4>2
      <3> QED
        BY <2>3, <3>2, <3>3 DEF Advance
    <2>4. CASE DropLine(w)
      BY <2>1, <2>4, ElsewhereKeepsRing DEF DropLine
    <2> QED
      BY <1>4, <2>2, <2>3, <2>4 DEF LockedAppend
  <1>5. CASE FinishAppend(w)
    <2>1. /\ ownerpc # "done" /\ ownerpc' = ownerpc /\ logpc' = logpc
          /\ UNCHANGED <<prst_buf, written, status, next, _buf_cnt, cur_buf, overtaken>>
      BY <1>5 DEF FinishAppend, TypeInv, OwnerInv
    <2>2. CASE lst_lts = 0
      BY <1>5, <2>1, <2>2, AppendKeepsRing DEF FinishAppend
    <2>3. CASE lst_lts # 0
      BY <1>5, <2>1, <2>3, ElsewhereKeepsRing DEF FinishAppend, bufvars
    <2> QED
      BY <2>2, <2>3
  <1> QED
    BY <1>1, <1>2, <1>3, <1>4, <1>5 DEF Writer

\* When the log thread takes a buffer that is not full, the writers are there.
LEMMA TakeKeepsRing ==
    ASSUME TypeInv, RingInv, PersistTake
    PROVE  RingInv'
  <1>1. /\ logpc \in {"lock", "wait"} /\ logpc' = "decide" /\ ownerpc # "done"
        /\ UNCHANGED <<lines, index_, next, _buf_cnt, overtaken, prst_buf, written, appended,
                       ownerpc>>
    BY DEF PersistTake, TypeInv, OwnerInv, logless, writervars
  <1>2. CASE status[prst_buf] # "FREE"
    <2>1. UNCHANGED bufvars /\ status[prst_buf] = "FULL"
      BY <1>1, <1>2, BasicTypes DEF PersistTake, TakePartial, bufvars, TypeInv, TypeOK
    <2> QED
      BY <1>1, <2>1, ElsewhereKeepsRing
  <1>3. CASE status[prst_buf] = "FREE" /\ ~overtaken
    <2>1. PICK o \in [1.._buf_cnt -> 1.._buf_cnt], c \in 1.._buf_cnt :
             IsRing(o) /\ Shape(o, c)
      BY <1>1, <1>3 DEF RingInv, RingOrder
    <2>2. prst_buf = o[1] /\ Freed(o[1])
      BY <1>1, <1>3, <2>1, LogThreadAt DEF TypeInv, Freed
    <2>3. c = 1
      <3>1. c # 1 => 1 \in 1..(c - 1)
        BY BasicTypes DEF TypeInv
      <3> QED
        BY <2>1, <2>2, <3>1 DEF Shape
    <2>4. cur_buf = prst_buf
      BY <2>1, <2>2, <2>3 DEF Shape
    <2>5. /\ status' = [status EXCEPT ![cur_buf] = "FULL"]
          /\ cur_buf' = next[cur_buf]
      BY <1>3 DEF PersistTake, TakePartial
    <2> QED
      BY <1>1, <1>3, <2>4, <2>5, MoveOnKeepsRing
  <1>4. CASE overtaken
    BY <1>1, <1>4 DEF RingInv
  <1> QED
    BY <1>2, <1>3, <1>4

LEMMA PersistKeepsRing ==
    ASSUME TypeInv, RingInv, Persist
    PROVE  RingInv'
  <1>1. CASE PersistLoop \/ PersistWait \/ DecisFile
    BY <1>1, ElsewhereKeepsRing
       DEF PersistLoop, PersistWait, DecisFile, logless, writervars
  <1>2. CASE PersistTake
    BY <1>2, TakeKeepsRing
  <1>3. CASE PersistWrite
    BY <1>3, WriteKeepsRing
  <1>4. CASE PersistClear
    <2>1. /\ logpc = "clear" /\ logpc' = "advance" /\ Clear(prst_buf)
          /\ UNCHANGED <<_buf_cnt, next, cur_buf, overtaken, prst_buf, written, appended,
                         ownerpc>>
      BY <1>4 DEF PersistClear, logless, writervars
    <2>2. Oldest' = Oldest
      BY <2>1 DEF Oldest
    <2>3. ASSUME NEW b \in 1.._buf_cnt
          PROVE  Pending(b)' = Pending(b) /\ (Freed(b)' <=> Freed(b))
      <3>1. b \in Bufs /\ lines \in [Bufs -> Seq(0..MaxLines)]
            /\ status \in [Bufs -> {"FREE", "FULL"}]
        BY BasicTypes DEF TypeInv, TypeOK
      <3>2. CASE b = prst_buf
        BY <2>1, <3>1, <3>2 DEF Pending, Freed, Clear
      <3>3. CASE b # prst_buf
        BY <2>1, <3>1, <3>3 DEF Pending, Freed, Clear
      <3> QED
        BY <3>2, <3>3
    <2>4. AtFull'
      BY <2>1 DEF AtFull
    <2> QED
      BY <2>1, <2>2, <2>3, <2>4, RingKept
  <1>5. CASE PersistAdvance
    <2>1. /\ logpc = "advance" /\ logpc' = "loop" /\ prst_buf' = next[prst_buf]
          /\ UNCHANGED <<status, lines, _buf_cnt, next, cur_buf, overtaken, written, appended,
                         ownerpc>>
      BY <1>5 DEF PersistAdvance, logless, writervars, bufvars
    <2>2. Oldest' = Oldest
      BY <2>1 DEF Oldest
    <2>3. \A b \in 1.._buf_cnt : Pending(b)' = Pending(b) /\ (Freed(b)' <=> Freed(b))
      BY <2>1 DEF Pending, Freed
    <2>4. AtFull'
      BY <2>1 DEF AtFull
    <2> QED
      BY <2>1, <2>2, <2>3, <2>4, RingKept
  <1> QED
    BY <1>1, <1>2, <1>3, <1>4, <1>5 DEF Persist

LEMMA OwnerKeepsRing ==
    ASSUME TypeInv, RingInv, Owner
    PROVE  RingInv'
  <1>1. CASE SpawnLogThread \/ SetRunning \/ StopRunning \/ Join
    BY <1>1, ElsewhereKeepsRing
       DEF SpawnLogThread, SetRunning, StopRunning, Join, writervars, TypeInv, OwnerInv
  <1>2. CASE FlushLast
    <2>1. /\ logpc = "ended" /\ logpc' = logpc /\ ownerpc' = "done" /\ Clear(prst_buf)
          /\ UNCHANGED <<_buf_cnt, next, cur_buf, overtaken, prst_buf, appended>>
          /\ written' = written \o lines[prst_buf] /\ ownerpc # "done"
      BY <1>2 DEF FlushLast, Stream, TypeInv, OwnerInv, writervars
    <2> SUFFICES ASSUME ~overtaken PROVE RingInv'
      BY <2>1 DEF RingInv
    <2>2. PICK o \in [1.._buf_cnt -> 1.._buf_cnt] : IsRing(o) /\ Sorted(o)
      BY DEF RingInv, RingOrder
    <2>3. prst_buf = o[1]
      BY <2>1, <2>2, LogThreadAt DEF TypeInv
    <2>4. \A b \in 1.._buf_cnt :
             Pending(b)' = IF b = prst_buf THEN <<>> ELSE Pending(b)
      <3>1. \A b \in 1.._buf_cnt : b \in Bufs
        BY BasicTypes DEF TypeInv
      <3>2. lines \in [Bufs -> Seq(0..MaxLines)]
        BY DEF TypeInv, TypeOK
      <3> QED
        BY <2>1, <3>1, <3>2 DEF Pending, Clear
    <2>5. written' = written \o Pending(prst_buf)
      BY <2>1 DEF Pending
    <2>6. Contents'
      BY <2>1, <2>2, <2>3, <2>4, <2>5, WriteKeepsContents DEF RingInv
    <2>7. IsRing(o)'
      BY <2>1, <2>2 DEF IsRing, Oldest
    <2>8. Sorted(o)'
      <3> SUFFICES ASSUME NEW i \in 1.._buf_cnt, NEW j \in 1.._buf_cnt, i < j
                   PROVE  Below(Pending(o[i])', Pending(o[j])')
        BY <2>1 DEF Sorted
      <3>1. Below(Pending(o[i]), Pending(o[j])) /\ o[i] \in 1.._buf_cnt /\ o[j] \in 1.._buf_cnt
        BY <2>2 DEF Sorted
      <3> QED
        BY <2>4, <3>1, EmptyInOrder
    <2>9. AtFull' /\ RingOrder'
      BY <2>1, <2>2, <2>7, <2>8 DEF AtFull, RingOrder
    <2> QED
      BY <2>6, <2>9 DEF RingInv
  <1> QED
    BY <1>1, <1>2 DEF Owner

LEMMA NextRing == TypeInv /\ RingInv /\ [Next]_vars => RingInv'
  <1> SUFFICES ASSUME TypeInv, RingInv, [Next]_vars PROVE RingInv'
    OBVIOUS
  <1>1. CASE Tick
    BY <1>1, ElsewhereKeepsRing DEF Tick, writervars
  <1>2. CASE UNCHANGED vars
    BY <1>2, ElsewhereKeepsRing DEF vars, writervars
  <1> QED
    BY <1>1, <1>2, WriterKeepsRing, PersistKeepsRing, OwnerKeepsRing DEF Next

LEMMA InitRing == Init => RingInv
  <1> SUFFICES ASSUME Init PROVE RingInv
    OBVIOUS
  <1>1. NumBufs \in Nat /\ NumBufs >= 2 /\ MaxBufs \in Nat /\ NumBufs <= MaxBufs
    BY RlogAssumption DEF RlogAssumption
  <1>2. /\ _buf_cnt = NumBufs /\ prst_buf = 1 /\ cur_buf = 1 /\ logpc = "none"
        /\ written = <<>> /\ appended = 0
        /\ next = [b \in 1..NumBufs |-> (b % NumBufs) + 1]
        /\ \A b \in 1..NumBufs : status[b] = "FREE" /\ lines[b] = <<>>
    BY <1>1 DEF Init, Bufs
  <1>3. \A b \in 1..NumBufs : Pending(b) = <<>> /\ Freed(b)
    BY <1>2 DEF Pending, Freed
  <1>4. Contents
    BY <1>2, <1>3, EmptyInOrder DEF Contents
  <1>5. PICK o : o = [i \in 1..NumBufs |-> i]
    OBVIOUS
  <1>6. o \in [1..NumBufs -> 1..NumBufs] /\ \A i \in 1..NumBufs : o[i] = i
    BY <1>5
  <1>7. IsRing(o)
    <2>1. \A i \in 1..(NumBufs - 1) : i % NumBufs = i /\ i \in 1..NumBufs /\ i + 1 \in 1..NumBufs
      BY <1>1
    <2>2. NumBufs % NumBufs = 0 /\ NumBufs \in 1..NumBufs /\ 1 \in 1..NumBufs
      BY <1>1
    <2>3. \A i \in 1..(NumBufs - 1) : next[o[i]] = o[i + 1]
      BY <1>2, <1>6, <2>1
    <2>4. next[o[NumBufs]] = o[1]
      BY <1>2, <1>6, <2>2
    <2>5. o[1] = Oldest
      BY <1>2, <1>6, <2>2 DEF Oldest
    <2> QED
      BY <1>2, <1>6, <2>3, <2>4, <2>5 DEF IsRing
  <1>8. Sorted(o)
    BY <1>2, <1>3, <1>6, EmptyInOrder DEF Sorted
  <1>9. PICK c \in 1..NumBufs : c = 1
    BY <1>1
  <1>10. Shape(o, c)
    <2>1. /\ \A i \in 1..(c - 1) : FALSE
          /\ \A i \in c..NumBufs : i \in 1..NumBufs
          /\ \A i \in (c + 1)..NumBufs : i \in 1..NumBufs
      BY <1>1, <1>9
    <2> QED
      BY <1>2, <1>3, <1>6, <1>9, <2>1 DEF Shape
  <1>11. AtFull
    BY <1>2 DEF AtFull
  <1> QED
    BY <1>2, <1>4, <1>6, <1>7, <1>8, <1>10, <1>11 DEF RingInv, RingOrder

-----------------------------------------------------------------------------
(* The text of the buffers and of the file.                                *)

\* A thread that is in try_append has a line.
LengthInv == \A w \in Writers : writerpc[w] # "out" => len_all[w] \in Lengths

\* What was appended to a buffer since it was cleared is at the front of its
\* text, and all of its text was appended once.
TextInv ==
    \A b \in Bufs :
       /\ TextInOrder(b)
       /\ \A k \in 1..Len(data[b]) : data[b][k] <= appended

\* The text of a buffer that is not of its round is in the file, also when
\* the round ends; and so is what persist put there.
FileInv ==
    ~overtaken =>
       /\ \A b \in Bufs : \A k \in 1..Len(data[b]) :
             data[b][k] \in ToSet(lines[b]) \cup ToSet(written) \cup {Stray}
       /\ logpc = "clear" => ToSet(lines[prst_buf]) \subseteq ToSet(written) \cup {Stray}
       /\ ToSet(fp_) \subseteq ToSet(written) \cup {Stray}

\* The line x of n bytes has been appended to buffer b, which had room for it.
Added(b, n, x) ==
    /\ x # Stray => status[b] = "FREE"
    /\ appended' = IF x = Stray THEN appended ELSE x
    /\ ToSet(lines'[b]) = ToSet(lines[b]) \cup {x}
    /\ index_'[b] = index_[b] + n
    /\ Len(data'[b]) \in Nat /\ index_[b] + n <= Len(data'[b])
    /\ \A k \in (index_[b] + 1)..(index_[b] + n) : data'[b][k] = x
    /\ \A k \in 1..Len(data'[b]) :
         k \notin (index_[b] + 1)..(index_[b] + n)
            => k \in 1..Len(data[b]) /\ data'[b][k] = data[b][k]
    /\ \A d \in Bufs : d # b =>
         lines'[d] = lines[d] /\ index_'[d] = index_[d] /\ data'[d] = data[d]

LEMMA LineAppended ==
    ASSUME TypeInv, NEW b \in Bufs, NEW n \in Lengths, Append_(b, n),
           n <= AvailLen(b), appended + 1 \in 1..MaxLines
    PROVE  \E x \in {Stray, appended + 1} : Added(b, n, x)
  <1> DEFINE x == IF status[b] = "FREE" THEN appended + 1 ELSE Stray
             d == data[b]
             i == index_[b]
             S == 0..MaxLines
  <1>1. /\ lines \in [Bufs -> Seq(S)] /\ data \in [Bufs -> Seq(S)]
        /\ index_ \in [Bufs -> 0..Capacity] /\ i <= Len(d)
        /\ appended \in Nat /\ n \in Nat /\ n >= 1 /\ Capacity \in Nat
    <2>1. /\ lines \in [Bufs -> Seq(S)] /\ data \in [Bufs -> Seq(S)]
          /\ index_ \in [Bufs -> 0..Capacity] /\ i <= Len(d) /\ appended \in S
      BY Zenon DEF TypeInv, TypeOK
    <2>2. Lengths \subseteq 1..Capacity /\ Capacity \in Nat
      BY RlogAssumption DEF RlogAssumption
    <2> QED
      BY <2>1, <2>2
  <1>2. /\ x \in {Stray, appended + 1} /\ x \in S /\ x \in Nat
        /\ x # Stray => status[b] = "FREE"
    BY <1>1, RlogAssumption DEF Stray, RlogAssumption
  <1>3. /\ lines' = [lines EXCEPT ![b] = Append(lines[b], x)]
        /\ data' = [data EXCEPT ![b] = Overwritten(d, i, n, x)]
        /\ index_' = [index_ EXCEPT ![b] = i + n]
        /\ appended' = IF x = Stray THEN appended ELSE x
    BY DEF Append_
  <1>4. lines[b] \in Seq(Nat)
    <2>1. S \subseteq Nat /\ lines[b] \in Seq(S)
      BY <1>1
    <2> HIDE DEF S
    <2> QED
      BY <2>1, SeqMonotonic
  <1>5. d \in Seq(S) /\ i \in 0..Len(d) /\ Len(d) \in Nat
    BY <1>1
  <1> HIDE DEF x, d, i, S
  <1>6. lines'[b] = Append(lines[b], x) /\ data'[b] = Overwritten(d, i, n, x)
        /\ index_'[b] = i + n
    BY <1>1, <1>3
  <1>7. ToSet(lines'[b]) = ToSet(lines[b]) \cup {x}
    BY <1>2, <1>4, <1>6, AppendInOrder
  <1>8. /\ Len(data'[b]) = IF Len(d) > i + n THEN Len(d) ELSE i + n
        /\ \A k \in (i + 1)..(i + n) : data'[b][k] = x
        /\ \A k \in 1..Len(data'[b]) :
              k \notin (i + 1)..(i + n) => k \in 1..Len(d) /\ data'[b][k] = d[k]
    <2> DEFINE e == Overwritten(d, i, n, x)
    <2>1. /\ Len(e) = IF Len(d) > i + n THEN Len(d) ELSE i + n
          /\ \A k \in (i + 1)..(i + n) : e[k] = x
          /\ \A k \in 1..Len(e) :
                k \notin (i + 1)..(i + n) => k \in 1..Len(d) /\ e[k] = d[k]
      <3>1. d \in Seq(S) /\ i \in 0..Len(d) /\ n \in Nat /\ x \in S
        BY <1>1, <1>2, <1>5
      <3>2. Len(e) = IF Len(d) > i + n THEN Len(d) ELSE i + n
        BY <3>1, OverwrittenIs
      <3>3. \A k \in (i + 1)..(i + n) : e[k] = x
        <4> SUFFICES ASSUME NEW k \in (i + 1)..(i + n) PROVE e[k] = x
          OBVIOUS
        <4> QED
          BY <3>1, OverwrittenIs
      <3>4. ASSUME NEW k \in 1..Len(e), k \notin (i + 1)..(i + n)
            PROVE  k \in 1..Len(d) /\ e[k] = d[k]
        <4>1. k \in 1..Len(d) /\ k \in 1..(IF Len(d) > i + n THEN Len(d) ELSE i + n)
          BY <3>1, <3>2, <3>4, <1>5
        <4>2. e[k] = IF k \in (i + 1)..(i + n) THEN x ELSE d[k]
          BY <4>1, Zenon DEF Overwritten
        <4> QED
          BY <3>4, <4>1, <4>2, Zenon
      <3> HIDE DEF e
      <3> QED
        BY <3>2, <3>3, <3>4
    <2> HIDE DEF e
    <2>2. data'[b] = e
      BY <1>6 DEF e
    <2> QED
      BY <2>1, <2>2
  <1>9. Len(data'[b]) \in Nat /\ i + n <= Len(data'[b])
    BY <1>1, <1>5, <1>8
  <1>10. \A e \in Bufs : e # b => /\ lines'[e] = lines[e]
                                 /\ index_'[e] = index_[e] /\ data'[e] = data[e]
    BY <1>1, <1>3
  <1> QED
    BY <1>2, <1>3, <1>6, <1>7, <1>8, <1>9, <1>10 DEF Added, d, i

LEMMA AppendText ==
    ASSUME TypeInv, TextInv, NEW b \in Bufs, NEW n \in Lengths, Append_(b, n),
           appended + 1 \in 1..MaxLines
    PROVE  TextInv'
  <1>1. CASE ~(n <= AvailLen(b))
    BY <1>1 DEF Append_, TextInv, TextInOrder
  <1>2. CASE n <= AvailLen(b)
    <2> DEFINE i == index_[b]
    <2>a. PICK x \in {Stray, appended + 1} : Added(b, n, x)
      BY <1>2, LineAppended
    <2>1. /\ appended' = IF x = Stray THEN appended ELSE x
          /\ ToSet(lines'[b]) = ToSet(lines[b]) \cup {x}
          /\ index_'[b] = i + n
          /\ Len(data'[b]) \in Nat /\ i + n <= Len(data'[b])
          /\ \A k \in (i + 1)..(i + n) : data'[b][k] = x
          /\ \A k \in 1..Len(data'[b]) :
               k \notin (i + 1)..(i + n)
                  => k \in 1..Len(data[b]) /\ data'[b][k] = data[b][k]
          /\ \A d \in Bufs : d # b =>
               lines'[d] = lines[d] /\ index_'[d] = index_[d] /\ data'[d] = data[d]
      BY <2>a DEF Added
    <2>2. /\ i \in Nat /\ n \in Nat /\ n >= 1 /\ appended \in Nat
          /\ data \in [Bufs -> Seq(0..MaxLines)] /\ i <= Len(data[b])
      BY RlogAssumption DEF TypeInv, TypeOK, RlogAssumption
    <2>b. \A d \in Bufs : \A k \in 1..Len(data[d]) : data[d][k] \in Nat
      <3> TAKE d \in Bufs
      <3>1. data[d] \in Seq(0..MaxLines)
        BY <2>2
      <3>2. \A k \in 1..Len(data[d]) : data[d][k] \in 0..MaxLines
        BY <3>1, ElementOfSeq
      <3> QED
        BY <3>2
    <2>3. /\ x <= appended' /\ appended <= appended' /\ appended' \in Nat
          /\ x # Stray => x = appended + 1
      BY <2>1, <2>2 DEF Stray
    <2>4. /\ \A k \in 1..Len(data[b]) : data[b][k] <= appended /\ data[b][k] \in Nat
          /\ {data[b][k] : k \in 1..i} = ToSet(lines[b])
          /\ \A j, k \in 1..i : j < k /\ data[b][j] # Stray /\ data[b][k] # Stray
                                  => data[b][j] <= data[b][k]
      <3>1. TextInOrder(b) /\ \A k \in 1..Len(data[b]) : data[b][k] <= appended
        BY DEF TextInv
      <3> QED
        BY <2>b, <3>1 DEF TextInOrder
    <2> HIDE DEF i
    <2>5. \A k \in 1..Len(data'[b]) : data'[b][k] <= appended'
      <3> TAKE k \in 1..Len(data'[b])
      <3>1. CASE k \in (i + 1)..(i + n)
        BY <2>1, <2>3, <3>1
      <3>2. CASE k \notin (i + 1)..(i + n)
        <4>1. data'[b][k] <= appended /\ data'[b][k] \in Nat
          BY <2>1, <2>4, <3>2
        <4> QED
          BY <2>2, <2>3, <4>1
      <3> QED
        BY <3>1, <3>2
    <2>6. /\ \A k \in 1..i : k \in 1..Len(data[b]) /\ k \in 1..(i + n)
                             /\ data'[b][k] = data[b][k]
          /\ \A k \in 1..(i + n) : k \notin 1..i => k \in (i + 1)..(i + n)
          /\ i + n \in (i + 1)..(i + n) /\ i + n \in 1..(i + n)
      <3>1. \A k \in 1..i : /\ k \in 1..Len(data[b]) /\ k \in 1..(i + n)
                            /\ k \in 1..Len(data'[b]) /\ k \notin (i + 1)..(i + n)
        BY <2>1, <2>2 DEF i
      <3>2. /\ \A k \in 1..(i + n) : k \notin 1..i => k \in (i + 1)..(i + n)
            /\ i + n \in (i + 1)..(i + n) /\ i + n \in 1..(i + n)
        BY <2>2
      <3> QED
        BY <2>1, <3>1, <3>2
    <2>7. {data'[b][k] : k \in 1..(i + n)} = ToSet(lines'[b])
      <3>1. ASSUME NEW k \in 1..(i + n)
            PROVE  data'[b][k] \in ToSet(lines[b]) \cup {x}
        BY <2>1, <2>4, <2>6
      <3>2. x \in {data'[b][k] : k \in 1..(i + n)}
        BY <2>1, <2>6
      <3>3. ToSet(lines[b]) \subseteq {data'[b][k] : k \in 1..(i + n)}
        BY <2>4, <2>6
      <3> QED
        BY <2>1, <3>1, <3>2, <3>3
    <2>8. ASSUME NEW j \in 1..(i + n), NEW k \in 1..(i + n), j < k,
                 data'[b][j] # Stray, data'[b][k] # Stray
          PROVE  data'[b][j] <= data'[b][k]
      <3>1. CASE k \in 1..i
        <4>1. j \in 1..i
          BY <2>2, <3>1, <2>8
        <4> QED
          BY <2>4, <2>6, <2>8, <3>1, <4>1
      <3>2. CASE k \notin 1..i
        <4>1. data'[b][k] = x /\ x = appended + 1
          BY <2>1, <2>3, <2>6, <2>8, <3>2
        <4>2. CASE j \in 1..i
          <5>1. data'[b][j] <= appended /\ data'[b][j] \in Nat
            BY <2>2, <2>4, <2>6, <4>2
          <5> QED
            BY <2>2, <4>1, <5>1
        <4>3. CASE j \notin 1..i
          BY <2>1, <2>2, <2>6, <4>1, <4>3
        <4> QED
          BY <4>2, <4>3
      <3> QED
        BY <3>1, <3>2
    <2>9. TextInOrder(b)'
      BY <2>1, <2>7, <2>8 DEF TextInOrder, i
    <2>10. ASSUME NEW d \in Bufs, d # b
           PROVE  TextInOrder(d)' /\ \A k \in 1..Len(data'[d]) : data'[d][k] <= appended'
      <3>1. lines'[d] = lines[d] /\ index_'[d] = index_[d] /\ data'[d] = data[d]
        BY <2>1, <2>10
      <3>2. TextInOrder(d)'
        BY <3>1 DEF TextInv, TextInOrder
      <3>3. \A k \in 1..Len(data[d]) : data[d][k] <= appended /\ data[d][k] \in Nat
        BY <2>b DEF TextInv
      <3> QED
        BY <2>2, <2>3, <3>1, <3>2, <3>3
    <2> QED
      BY <2>5, <2>9, <2>10 DEF TextInv
  <1> QED
    BY <1>1, <1>2

LEMMA TextKept ==
    ASSUME TextInv, UNCHANGED <<data, lines, index_, appended>>
    PROVE  TextInv'
  BY DEF TextInv, TextInOrder

LEMMA ClearText ==
    ASSUME TypeInv, TextInv, Clear(prst_buf), appended' = appended
    PROVE  TextInv'
  <1>1. /\ lines \in [Bufs -> Seq(0..MaxLines)] /\ index_ \in [Bufs -> 0..Capacity]
        /\ data' = data /\ lines' = [lines EXCEPT ![prst_buf] = <<>>]
        /\ index_' = [index_ EXCEPT ![prst_buf] = 0]
    BY DEF Clear, TypeInv, TypeOK
  <1>2. ASSUME NEW b \in Bufs PROVE TextInOrder(b)'
    <2>1. CASE b = prst_buf
      <3>1. index_'[b] = 0 /\ lines'[b] = <<>> /\ 1..0 = {}
        BY <1>1, <2>1
      <3> QED
        BY <3>1, EmptyInOrder DEF TextInOrder
    <2>2. CASE b # prst_buf
      <3>1. index_'[b] = index_[b] /\ lines'[b] = lines[b]
        BY <1>1, <2>2
      <3> QED
        BY <1>1, <3>1 DEF TextInv, TextInOrder
    <2> QED
      BY <2>1, <2>2
  <1> QED
    BY <1>1, <1>2 DEF TextInv

LEMMA NextText == TypeInv /\ LengthInv /\ TextInv /\ [Next]_vars => LengthInv' /\ TextInv'
  <1> SUFFICES ASSUME TypeInv, LengthInv, TextInv, [Next]_vars
               PROVE  LengthInv' /\ TextInv'
    OBVIOUS
  <1>t. /\ writerpc \in [Writers -> {"out", "test", "reset", "lock", "finish"}]
        /\ len_all \in [Writers -> {0} \cup Lengths] /\ cur_buf \in Bufs
    BY BasicTypes DEF TypeInv, TypeOK
  <1>1. ASSUME NEW w \in Writers, Writer(w) PROVE LengthInv'
    <2>1. CASE TryAppend(w)
      <3>1. PICK n \in Lengths : len_all' = [len_all EXCEPT ![w] = n]
        BY <2>1 DEF TryAppend
      <3> QED
        BY <1>t, <2>1, <3>1 DEF TryAppend, LengthInv
    <2>2. CASE TestRelog(w) \/ ResetRelog(w)
      BY <1>t, <2>2 DEF TestRelog, ResetRelog, Goto, Return, LengthInv
    <2>3. CASE LockedAppend(w) \/ FinishAppend(w)
      BY <1>t, <2>3 DEF LockedAppend, AppendHere, Advance, DropLine, FinishAppend, Goto,
                        Return, LengthInv
    <2> QED
      BY <1>1, <2>1, <2>2, <2>3 DEF Writer
  <1>2. ASSUME NEW w \in Writers, Writer(w) PROVE TextInv'
    <2>1. CASE TryAppend(w) \/ TestRelog(w) \/ ResetRelog(w)
      BY <2>1, TextKept DEF TryAppend, TestRelog, ResetRelog, bufvars
    <2>2. CASE LockedAppend(w)
      <3>1. writerpc[w] # "out" /\ len_all[w] \in Lengths
        BY <2>2 DEF LockedAppend, LengthInv
      <3>2. CASE AppendHere(w)
        BY <1>t, <3>1, <3>2, AppendText, LineMayCome DEF AppendHere
      <3>3. CASE Advance(w) \/ DropLine(w)
        BY <3>3, TextKept DEF Advance, DropLine, bufvars
      <3> QED
        BY <2>2, <3>2, <3>3 DEF LockedAppend
    <2>3. CASE FinishAppend(w)
      <3>1. writerpc[w] # "out" /\ len_all[w] \in Lengths
        BY <2>3 DEF FinishAppend, LengthInv
      <3>2. CASE lst_lts = 0
        BY <1>t, <2>3, <3>1, <3>2, AppendText, LineMayCome DEF FinishAppend
      <3>3. CASE lst_lts # 0
        BY <2>3, <3>3, TextKept DEF FinishAppend
      <3> QED
        BY <3>2, <3>3
    <2> QED
      BY <1>2, <2>1, <2>2, <2>3 DEF Writer
  <1>3. CASE Persist
    <2>1. UNCHANGED writervars
      BY <1>3 DEF Persist, PersistLoop, PersistWait, PersistTake, DecisFile, PersistWrite,
                  PersistClear, PersistAdvance, logless
    <2>2. CASE PersistClear
      BY <2>1, <2>2, ClearText DEF PersistClear, writervars, LengthInv
    <2>3. CASE ~PersistClear
      <3>1. UNCHANGED <<data, lines, index_>>
        BY <1>3, <2>3 DEF Persist, PersistLoop, PersistWait, PersistTake, DecisFile,
                          PersistWrite, PersistAdvance, bufvars
      <3> QED
        BY <2>1, <3>1, TextKept DEF writervars, LengthInv
    <2> QED
      BY <2>2, <2>3
  <1>4. CASE Owner
    <2>1. UNCHANGED writervars
      BY <1>4 DEF Owner, SpawnLogThread, SetRunning, StopRunning, Join, FlushLast
    <2>2. CASE FlushLast
      BY <2>1, <2>2, ClearText DEF FlushLast, writervars, LengthInv
    <2>3. CASE ~FlushLast
      <3>1. UNCHANGED bufvars
        BY <1>4, <2>3 DEF Owner, SpawnLogThread, SetRunning, StopRunning, Join
      <3> QED
        BY <2>1, <3>1, TextKept DEF writervars, bufvars, LengthInv
    <2> QED
      BY <2>2, <2>3
  <1>5. CASE Tick \/ UNCHANGED vars
    <2>1. UNCHANGED <<writervars, bufvars>>
      BY <1>5 DEF Tick, vars
    <2> QED
      BY <2>1, TextKept DEF writervars, bufvars, LengthInv
  <1> QED
    BY <1>1, <1>2, <1>3, <1>4, <1>5 DEF Next

\* A step that writes nothing, and leaves the text.
LEMMA FileKept ==
    ASSUME FileInv, UNCHANGED <<data, lines, written, fp_, overtaken>>,
           logpc' = "clear" => logpc = "clear" /\ prst_buf' = prst_buf
    PROVE  FileInv'
  BY DEF FileInv

LEMMA AppendKeepsFile ==
    ASSUME TypeInv, RingInv, FileInv, UNCHANGED <<written, fp_, overtaken, logpc, prst_buf>>,
           NEW b \in Bufs, NEW n \in Lengths, Append_(b, n), appended + 1 \in 1..MaxLines
    PROVE  FileInv'
  <1> SUFFICES ASSUME ~overtaken PROVE FileInv'
    BY DEF FileInv
  <1>1. CASE ~(n <= AvailLen(b))
    BY <1>1, FileKept DEF Append_
  <1>2. CASE n <= AvailLen(b)
    <2>a. PICK x \in {Stray, appended + 1} : Added(b, n, x)
      BY <1>2, LineAppended
    <2>1. /\ x # Stray => status[b] = "FREE"
          /\ ToSet(lines'[b]) = ToSet(lines[b]) \cup {x}
          /\ \A k \in (index_[b] + 1)..(index_[b] + n) : data'[b][k] = x
          /\ \A k \in 1..Len(data'[b]) :
               k \notin (index_[b] + 1)..(index_[b] + n)
                  => k \in 1..Len(data[b]) /\ data'[b][k] = data[b][k]
          /\ \A d \in Bufs : d # b => lines'[d] = lines[d] /\ data'[d] = data[d]
      BY <2>a DEF Added
    <2>2. ASSUME NEW d \in Bufs, NEW k \in 1..Len(data'[d])
          PROVE  data'[d][k] \in ToSet(lines'[d]) \cup ToSet(written) \cup {Stray}
      <3>1. CASE d = b
        BY <2>1, <2>2, <3>1 DEF FileInv
      <3>2. CASE d # b
        BY <2>1, <2>2, <3>2 DEF FileInv
      <3> QED
        BY <3>1, <3>2
    <2>3. ASSUME logpc = "clear"
          PROVE  ToSet(lines'[prst_buf]) \subseteq ToSet(written) \cup {Stray}
      <3>1. status[prst_buf] = "FULL" /\ prst_buf \in Bufs
        BY <2>3, BasicTypes DEF RingInv, AtFull, TypeInv
      <3>2. ToSet(lines[prst_buf]) \subseteq ToSet(written) \cup {Stray}
        BY <2>3 DEF FileInv
      <3> QED
        BY <2>1, <3>1, <3>2
    <2> QED
      BY <2>2, <2>3 DEF FileInv
  <1> QED
    BY <1>1, <1>2

\* The buffer that is streamed leaves no text behind that is not in the file.
LEMMA StreamedText ==
    ASSUME TypeInv, FileInv, ~overtaken, Stream(prst_buf)
    PROVE  /\ ToSet(written') = ToSet(written) \cup ToSet(lines[prst_buf])
           /\ ToSet(fp_') \subseteq ToSet(written') \cup {Stray}
           /\ \A b \in Bufs : \A k \in 1..Len(data[b]) :
                 data[b][k] \in ToSet(lines[b]) \cup ToSet(written') \cup {Stray}
           /\ \A k \in 1..Len(data[prst_buf]) :
                 data[prst_buf][k] \in ToSet(written') \cup {Stray}
  <1>1. prst_buf \in 1.._buf_cnt /\ prst_buf \in Bufs
    BY BasicTypes DEF TypeInv, TypeOK
  <1>2. written \in Seq(Nat) /\ lines[prst_buf] \in Seq(Nat)
    BY <1>1, PendingTypes DEF TypeInv
  <1>3. ToSet(written') = ToSet(written) \cup ToSet(lines[prst_buf])
    BY <1>2, ConcatInOrder DEF Stream
  <1>4. /\ \A b \in Bufs : \A k \in 1..Len(data[b]) :
              data[b][k] \in ToSet(lines[b]) \cup ToSet(written') \cup {Stray}
        /\ \A k \in 1..Len(data[prst_buf]) :
              data[prst_buf][k] \in ToSet(written') \cup {Stray}
    BY <1>1, <1>3 DEF FileInv
  <1>5. ToSet(fp_') \subseteq ToSet(written') \cup {Stray}
    <2>1. fp_' = data[prst_buf] /\ DOMAIN data[prst_buf] = 1..Len(data[prst_buf])
      BY <1>1 DEF Stream, TypeInv, TypeOK
    <2> QED
      BY <1>4, <2>1 DEF ToSet
  <1> QED
    BY <1>3, <1>4, <1>5

LEMMA NextFile ==
    TypeInv /\ LengthInv /\ RingInv /\ FileInv /\ [Next]_vars => FileInv'
  <1> SUFFICES ASSUME TypeInv, LengthInv, RingInv, FileInv, [Next]_vars PROVE FileInv'
    OBVIOUS
  <1>t. cur_buf \in Bufs /\ prst_buf \in Bufs /\ lines \in [Bufs -> Seq(0..MaxLines)]
    BY BasicTypes DEF TypeInv, TypeOK
  <1>1. ASSUME NEW w \in Writers, Writer(w) PROVE FileInv'
    <2>1. CASE TryAppend(w) \/ TestRelog(w) \/ ResetRelog(w)
      BY <2>1, FileKept DEF TryAppend, TestRelog, ResetRelog, bufvars
    <2>2. CASE LockedAppend(w)
      <3>1. /\ writerpc[w] # "out" /\ len_all[w] \in Lengths
            /\ UNCHANGED <<prst_buf, logpc, written, fp_>>
        BY <2>2 DEF LockedAppend, LengthInv
      <3>2. CASE AppendHere(w)
        BY <1>t, <3>1, <3>2, AppendKeepsFile, LineMayCome DEF AppendHere
      <3>3. CASE Advance(w)
        <4>1. UNCHANGED <<data, lines>> /\ (~overtaken' => ~overtaken)
          <5>1. CASE MoveOn \/ MoveOnAtLimit(w)
            BY <3>3, <5>1 DEF Advance, MoveOn, MoveOnAtLimit
          <5>2. CASE Grow
            <6>1. overtaken' = (overtaken \/ next[cur_buf] # prst_buf)
              BY <5>2 DEF Grow, GrowAfter
            <6>2. overtaken => overtaken'
              BY <6>1
            <6> QED
              BY <3>3, <6>2 DEF Advance
          <5> QED
            BY <3>3, <5>1, <5>2 DEF Advance
        <4> QED
          BY <3>1, <4>1 DEF FileInv
      <3>4. CASE DropLine(w)
        BY <3>1, <3>4, FileKept DEF DropLine, bufvars
      <3> QED
        BY <2>2, <3>2, <3>3, <3>4 DEF LockedAppend
    <2>3. CASE FinishAppend(w)
      <3>1. writerpc[w] # "out" /\ len_all[w] \in Lengths
        BY <2>3 DEF FinishAppend, LengthInv
      <3>2. CASE lst_lts = 0
        BY <1>t, <2>3, <3>1, <3>2, AppendKeepsFile, LineMayCome DEF FinishAppend
      <3>3. CASE lst_lts # 0
        BY <2>3, <3>3, FileKept DEF FinishAppend
      <3> QED
        BY <3>2, <3>3
    <2> QED
      BY <1>1, <2>1, <2>2, <2>3 DEF Writer
  <1>2. CASE Persist
    <2>1. CASE PersistLoop \/ PersistWait \/ PersistTake \/ DecisFile \/ PersistAdvance
      BY <2>1, FileKept DEF PersistLoop, PersistWait, PersistTake, DecisFile,
                            PersistAdvance, bufvars
    <2>2. CASE PersistWrite
      <3>1. UNCHANGED <<data, lines, overtaken, prst_buf>> /\ Stream(prst_buf)
        BY <2>2 DEF PersistWrite, bufvars
      <3>2. CASE overtaken
        BY <3>1, <3>2 DEF FileInv
      <3>3. CASE ~overtaken
        BY <3>1, <3>3, StreamedText DEF FileInv
      <3> QED
        BY <3>2, <3>3
    <2>3. CASE PersistClear
      <3>1. /\ data' = data /\ lines' = [lines EXCEPT ![prst_buf] = <<>>]
            /\ UNCHANGED <<overtaken, written>> /\ fp_' = <<>>
            /\ logpc = "clear" /\ logpc' = "advance"
        BY <2>3 DEF PersistClear, Clear
      <3>2. ASSUME ~overtaken, NEW b \in Bufs, NEW k \in 1..Len(data[b])
            PROVE  data[b][k] \in ToSet(lines'[b]) \cup ToSet(written) \cup {Stray}
        <4>1. CASE b = prst_buf
          BY <3>1, <3>2, <4>1 DEF FileInv
        <4>2. CASE b # prst_buf
          BY <1>t, <3>1, <3>2, <4>2 DEF FileInv
        <4> QED
          BY <4>1, <4>2
      <3> QED
        BY <3>1, <3>2, EmptyInOrder DEF FileInv
    <2> QED
      BY <1>2, <2>1, <2>2, <2>3 DEF Persist
  <1>3. CASE Owner
    <2>1. CASE SpawnLogThread \/ SetRunning \/ StopRunning \/ Join
      BY <2>1, FileKept DEF SpawnLogThread, SetRunning, StopRunning, Join, bufvars
    <2>2. CASE FlushLast
      <3>1. /\ data' = data /\ lines' = [lines EXCEPT ![prst_buf] = <<>>]
            /\ overtaken' = overtaken /\ Stream(prst_buf)
            /\ logpc' = "ended"
        BY <2>2 DEF FlushLast, Clear, TypeInv, OwnerInv
      <3>2. ASSUME ~overtaken, NEW b \in Bufs, NEW k \in 1..Len(data[b])
            PROVE  data[b][k] \in ToSet(lines'[b]) \cup ToSet(written') \cup {Stray}
        <4>1. CASE b = prst_buf
          BY <3>1, <3>2, <4>1, StreamedText
        <4>2. CASE b # prst_buf
          BY <1>t, <3>1, <3>2, <4>2, StreamedText
        <4> QED
          BY <4>1, <4>2
      <3> QED
        BY <3>1, <3>2, StreamedText DEF FileInv
    <2> QED
      BY <1>3, <2>1, <2>2 DEF Owner
  <1>4. CASE Tick \/ UNCHANGED vars
    BY <1>4, FileKept DEF Tick, vars, bufvars
  <1> QED
    BY <1>1, <1>2, <1>3, <1>4 DEF Next

LEMMA InitText == Init => LengthInv /\ TextInv /\ FileInv
  <1> SUFFICES ASSUME Init PROVE LengthInv /\ TextInv /\ FileInv
    OBVIOUS
  <1>1. /\ \A b \in Bufs : data[b] = <<>> /\ lines[b] = <<>> /\ index_[b] = 0
        /\ fp_ = <<>> /\ logpc = "none" /\ \A w \in Writers : writerpc[w] = "out"
        /\ Len(<<>>) = 0 /\ 1..0 = {}
    BY DEF Init
  <1>2. TextInv
    BY <1>1, EmptyInOrder DEF TextInv, TextInOrder
  <1> QED
    BY <1>1, <1>2, EmptyInOrder DEF LengthInv, FileInv

-----------------------------------------------------------------------------
(* FlattenSeq.                                                             *)

\* Every set of naturals has a least element: the form of induction used below.
LEMMA LeastNatural ==
    ASSUME NEW S, S \subseteq Nat, S # {}
    PROVE  \E x \in S : \A y \in S : x <= y
  <1>1. PICK x \in S : \A y \in S : ~ (<<y, x>> \in OpToRel(<, Nat))
    BY NatLessThanWellFounded, WFMin
  <1>2. \A y \in S : ~(y < x)
    BY <1>1 DEF OpToRel
  <1> QED
    BY <1>2

\* f holds the concatenations of the beginnings of ss, up to the n-th.
Flattens(f, ss, n) ==
    f = [i \in 1..n |-> IF i = 1 THEN ss[i] ELSE f[i - 1] \o ss[i]]

\* Such an f exists, as one for n extends to n + 1.
LEMMA FlattenExtends ==
    ASSUME NEW ss, NEW n \in Nat, NEW f, Flattens(f, ss, n)
    PROVE  \E g : Flattens(g, ss, n + 1)
  <1> DEFINE g == [i \in 1..(n + 1) |-> IF i = 1 THEN ss[i] ELSE f[i - 1] \o ss[i]]
             h == [i \in 1..(n + 1) |-> IF i = 1 THEN ss[i] ELSE g[i - 1] \o ss[i]]
  <1>1. \A i \in 1..n : g[i] = f[i]
    <2> SUFFICES ASSUME NEW i \in 1..n PROVE g[i] = f[i]
      OBVIOUS
    <2>1. i \in 1..(n + 1)
      OBVIOUS
    <2>2. f[i] = IF i = 1 THEN ss[i] ELSE f[i - 1] \o ss[i]
      BY Zenon DEF Flattens
    <2>3. g[i] = IF i = 1 THEN ss[i] ELSE f[i - 1] \o ss[i]
      BY <2>1, Zenon
    <2> QED
      BY <2>2, <2>3, Zenon
  <1>2. \A i \in 1..(n + 1) : i # 1 => i - 1 \in 1..n
    OBVIOUS
  <1>3. \A i \in 1..(n + 1) : g[i] = h[i]
    <2> SUFFICES ASSUME NEW i \in 1..(n + 1) PROVE g[i] = h[i]
      BY Zenon
    <2>1. CASE i = 1
      BY <2>1, Zenon
    <2>2. CASE i # 1
      <3>1. g[i - 1] = f[i - 1]
        BY <1>1, <1>2, <2>2, Zenon
      <3>2. g[i] = f[i - 1] \o ss[i]
        BY <2>2, Zenon
      <3>3. h[i] = g[i - 1] \o ss[i]
        BY <2>2, Zenon
      <3> QED
        BY <3>1, <3>2, <3>3, Zenon
    <2> QED
      BY <2>1, <2>2, Zenon
  <1>4. g = h
    BY <1>3, Zenon
  <1> QED
    BY <1>4, Zenon DEF Flattens

LEMMA FlattenExists ==
    ASSUME NEW ss, NEW n \in Nat
    PROVE  \E f : Flattens(f, ss, n)
  <1> DEFINE Bad == {k \in Nat : ~\E f : Flattens(f, ss, k)}
  <1>2. SUFFICES ASSUME Bad # {} PROVE FALSE
    OBVIOUS
  <1>3. PICK m \in Bad : \A k \in Bad : m <= k
    <2>1. Bad \subseteq Nat
      OBVIOUS
    <2> HIDE DEF Bad
    <2> QED
      BY <1>2, <2>1, LeastNatural
  <1>a. m \in Nat /\ ~\E f : Flattens(f, ss, m)
    OBVIOUS
  <1>b. m # 0
    <2> DEFINE g == [i \in 1..0 |-> {}]
    <2>1. g = [i \in 1..0 |-> IF i = 1 THEN ss[i] ELSE g[i - 1] \o ss[i]]
      <3>1. 1..0 = {}
        OBVIOUS
      <3> QED
        BY <3>1, Zenon
    <2>2. Flattens(g, ss, 0)
      BY <2>1, Zenon DEF Flattens
    <2> QED
      BY <1>a, <2>2
  <1>c. m - 1 \in Nat /\ ~(m <= m - 1) /\ (m - 1) + 1 = m
    BY <1>a, <1>b
  <1>d. m - 1 \notin Bad
    <2> HIDE DEF Bad
    <2> QED
      BY <1>3, <1>c
  <1>e. PICK f : Flattens(f, ss, m - 1)
    BY <1>c, <1>d
  <1>f. \E g : Flattens(g, ss, (m - 1) + 1)
    BY <1>c, <1>e, FlattenExtends
  <1> QED
    BY <1>a, <1>c, <1>f

\* FlattenSeq is the last element of one.
LEMMA FlattenAs ==
    ASSUME NEW ss, Len(ss) \in Nat, Len(ss) # 0
    PROVE  \E f : Flattens(f, ss, Len(ss)) /\ FlattenSeq(ss) = f[Len(ss)]
  <1> DEFINE f == CHOOSE f : f = [i \in 1..Len(ss) |-> IF i = 1 THEN ss[i] ELSE f[i - 1] \o ss[i]]
  <1>1. Flattens(f, ss, Len(ss))
    BY FlattenExists, Zenon DEF Flattens
  <1>3. FlattenSeq(ss) = f[Len(ss)]
    BY DEF FlattenSeq
  <1> QED
    BY <1>1, <1>3, Zenon

\* Sequences that are in order, and in order of one another, are so together.
LEMMA FlattenInOrder ==
    ASSUME NEW n \in Nat, n # 0, NEW ss, Len(ss) = n,
           \A i \in 1..n : ss[i] \in Seq(Nat) /\ Rising(ss[i]),
           \A i, j \in 1..n : i < j => Below(ss[i], ss[j])
    PROVE  /\ FlattenSeq(ss) \in Seq(Nat) /\ Rising(FlattenSeq(ss))
           /\ \A x : x \in ToSet(FlattenSeq(ss)) <=> \E i \in 1..n : x \in ToSet(ss[i])
  <1>1. PICK f : Flattens(f, ss, n) /\ FlattenSeq(ss) = f[n]
    BY FlattenAs
  <1> DEFINE Good(k) == /\ f[k] \in Seq(Nat) /\ Rising(f[k])
                        /\ \A x : x \in ToSet(f[k]) <=> \E i \in 1..k : x \in ToSet(ss[i])
             Bad == {k \in 1..n : ~Good(k)}
  <1>2. ASSUME Bad # {} PROVE FALSE
    <2>1. PICK m \in Bad : \A k \in Bad : m <= k
      <3>1. Bad \subseteq Nat
        OBVIOUS
      <3> HIDE DEF Bad
      <3> QED
        BY <1>2, <3>1, LeastNatural
    <2>2. m \in 1..n /\ ~Good(m)
      OBVIOUS
    <2>3. \A k \in 1..n : k < m => Good(k)
      <3> TAKE k \in 1..n
      <3>1. k < m => k \notin Bad
        <4> HIDE DEF Bad, Good
        <4> QED
          BY <2>1, <2>2
      <3> QED
        BY <3>1
    <2> HIDE DEF Bad, Good
    <2>4. CASE m = 1
      <3>1. f[m] = ss[m]
        BY <1>1, <2>2, <2>4, Zenon DEF Flattens
      <3>2. \A i \in 1..m : i = m
        BY <2>4
      <3>3. m \in 1..m
        BY <2>4
      <3> QED
        BY <2>2, <3>1, <3>2, <3>3 DEF Good
    <2>5. CASE m # 1
      <3>1. f[m] = f[m - 1] \o ss[m]
        BY <1>1, <2>2, <2>5, Zenon DEF Flattens
      <3>2. m - 1 \in 1..n /\ m - 1 < m
        BY <2>2, <2>5
      <3>3. PICK k \in 1..n : k = m - 1
        BY <3>2
      <3>4. Good(k)
        BY <2>3, <3>2, <3>3
      <3>5. f[k] \in Seq(Nat) /\ Rising(f[k])
        BY <3>4 DEF Good
      <3>6. Below(f[k], ss[m])
        <4> SUFFICES ASSUME NEW x \in ToSet(f[k]), NEW y \in ToSet(ss[m]), x # Stray, y # Stray
                     PROVE  x < y
          BY DEF Below
        <4>1. PICK i \in 1..k : x \in ToSet(ss[i])
          BY <3>4 DEF Good
        <4>2. i \in 1..n /\ i < m
          BY <2>2, <3>3
        <4>3. Below(ss[i], ss[m])
          BY <2>2, <4>2
        <4> QED
          BY <4>1, <4>3 DEF Below
      <3>7. f[m] = f[k] \o ss[m] /\ ss[m] \in Seq(Nat) /\ Rising(ss[m])
        BY <2>2, <3>1, <3>3
      <3>8. f[m] \in Seq(Nat) /\ Rising(f[m]) /\ ToSet(f[m]) = ToSet(f[k]) \cup ToSet(ss[m])
        BY <3>5, <3>6, <3>7, ConcatInOrder
      <3>9. \A i \in 1..m : i \in 1..k \/ i = m
        BY <2>2, <3>3
      <3>10. m \in 1..m /\ \A i \in 1..k : i \in 1..m
        BY <2>2, <3>3
      <3>11. \A x : x \in ToSet(f[k]) <=> \E i \in 1..k : x \in ToSet(ss[i])
        BY <3>4 DEF Good
      <3>12. \A x : x \in ToSet(f[m]) <=> \E i \in 1..m : x \in ToSet(ss[i])
        BY <3>8, <3>9, <3>10, <3>11
      <3> QED
        BY <2>2, <3>8, <3>12 DEF Good
    <2> QED
      BY <2>4, <2>5
  <1>3. n \in 1..n
    OBVIOUS
  <1>4. Good(n)
    BY <1>2, <1>3
  <1> QED
    BY <1>1, <1>4

-----------------------------------------------------------------------------
(* The order of the lines.                                                 *)

\* The ring as the property goes round it.
LEMMA RingIs ==
    ASSUME TypeOK, NEW o, IsRing(o)
    PROVE  Ring = o
  <1> DEFINE n == _buf_cnt
  <1>1. n \in Nat /\ n >= 2
    BY BasicTypes
  <1>2. o = [i \in 1..n |-> IF i = 1 THEN Oldest ELSE next[o[i - 1]]]
    <2>1. o = [i \in 1..n |-> o[i]]
      BY DEF IsRing
    <2>2. \A i \in 1..n : o[i] = IF i = 1 THEN Oldest ELSE next[o[i - 1]]
      <3> TAKE i \in 1..n
      <3>1. CASE i = 1
        BY <3>1 DEF IsRing
      <3>2. CASE i # 1
        <4>1. i - 1 \in 1..(n - 1) /\ (i - 1) + 1 = i
          BY <1>1, <3>2
        <4> QED
          BY <3>2, <4>1 DEF IsRing
      <3> QED
        BY <3>1, <3>2
    <2> QED
      BY <2>1, <2>2, Zenon
  <1>3. ASSUME NEW r, r = [i \in 1..n |-> IF i = 1 THEN Oldest ELSE next[r[i - 1]]]
        PROVE  r = o
    <2> DEFINE Bad == {i \in 1..n : r[i] # o[i]}
    <2>1. ASSUME Bad # {} PROVE FALSE
      <3>1. PICK m \in Bad : \A k \in Bad : m <= k
        <4>1. Bad \subseteq Nat
          OBVIOUS
        <4> HIDE DEF Bad
        <4> QED
          BY <2>1, <4>1, LeastNatural
      <3>2. m \in 1..n /\ r[m] # o[m]
        OBVIOUS
      <3>3. r[m] = IF m = 1 THEN Oldest ELSE next[r[m - 1]]
        BY <1>3, <3>2, Zenon
      <3>4. o[m] = IF m = 1 THEN Oldest ELSE next[o[m - 1]]
        BY <1>2, <3>2, Zenon
      <3>5. m # 1
        BY <3>2, <3>3, <3>4
      <3>6. m - 1 \in 1..n /\ ~(m <= m - 1)
        BY <1>1, <3>2, <3>5
      <3>7. m - 1 \notin Bad
        <4> HIDE DEF Bad
        <4> QED
          BY <3>1, <3>6
      <3>8. r[m - 1] = o[m - 1]
        BY <3>6, <3>7
      <3> QED
        BY <3>2, <3>3, <3>4, <3>8, Zenon
    <2>2. \A i \in 1..n : r[i] = o[i]
      BY <2>1
    <2>3. r = [i \in 1..n |-> r[i]] /\ o = [i \in 1..n |-> o[i]]
      BY <1>2, <1>3, Zenon
    <2> QED
      BY <2>2, <2>3, Zenon
  <1> QED
    BY <1>2, <1>3, Zenon DEF Ring

LEMMA RingGivesOrder == TypeInv /\ RingInv /\ TextInv /\ FileInv => LinesInOrder
  <1> SUFFICES ASSUME TypeInv, RingInv, TextInv, FileInv PROVE LinesInOrder
    OBVIOUS
  <1>1. ASSUME ~overtaken
        PROVE  LET all == written \o FlattenSeq([i \in 1.._buf_cnt |-> Pending(Ring[i])])
               IN  /\ Rising(all) /\ ToSet(all) \ {Stray} = 1..appended
                   /\ ToSet(fp_) \subseteq ToSet(written) \cup {Stray}
    <2> DEFINE n == _buf_cnt
    <2>1. PICK o : o \in [1..n -> 1..n] /\ IsRing(o) /\ Sorted(o)
      BY <1>1 DEF RingInv, RingOrder
    <2>2. Ring = o
      BY <2>1, RingIs DEF TypeInv
    <2>3. n \in Nat /\ n # 0 /\ written \in Seq(Nat) /\ appended \in Nat
      <3>1. n \in Nat /\ n # 0 /\ 1 \in 1..n
        BY BasicTypes DEF TypeInv
      <3> QED
        BY <3>1, PendingTypes DEF TypeInv
    <2> DEFINE ss == [i \in 1..n |-> Pending(Ring[i])]
    <2>4. /\ Len(ss) = n
          /\ \A i \in 1..n : ss[i] = Pending(o[i]) /\ o[i] \in 1..n
      BY <2>1, <2>2, <2>3
    <2>5. Contents
      BY <1>1 DEF RingInv
    <2> HIDE DEF ss
    <2>6. \A i \in 1..n : ss[i] \in Seq(Nat) /\ Rising(ss[i])
      BY <2>4, <2>5, PendingTypes DEF TypeInv, Contents
    <2>7. \A i, j \in 1..n : i < j => Below(ss[i], ss[j])
      BY <2>1, <2>4 DEF Sorted
    <2>8. /\ FlattenSeq(ss) \in Seq(Nat) /\ Rising(FlattenSeq(ss))
          /\ \A x : x \in ToSet(FlattenSeq(ss)) <=> \E i \in 1..n : x \in ToSet(ss[i])
      BY <2>3, <2>4, <2>6, <2>7, FlattenInOrder
    <2>9. \A x : x \in ToSet(FlattenSeq(ss)) <=> \E b \in 1..n : x \in ToSet(Pending(b))
      <3>1. \A b \in 1..n : \E i \in 1..n : o[i] = b
        BY <2>1 DEF IsRing
      <3>2. ASSUME NEW x, NEW i \in 1..n, x \in ToSet(ss[i])
            PROVE  \E b \in 1..n : x \in ToSet(Pending(b))
        BY <2>4, <3>2
      <3>3. ASSUME NEW x, NEW b \in 1..n, x \in ToSet(Pending(b))
            PROVE  \E i \in 1..n : x \in ToSet(ss[i])
        <4>1. PICK i \in 1..n : o[i] = b
          BY <3>1
        <4> QED
          BY <2>4, <3>3, <4>1
      <3> QED
        BY <2>8, <3>2, <3>3
    <2> DEFINE rest == FlattenSeq(ss)
    <2> HIDE DEF rest
    <2>10. Below(written, rest)
      <3>1. \A b \in 1..n : Below(written, Pending(b))
        BY <2>5 DEF Contents
      <3> QED
        BY <2>9, <3>1 DEF Below, rest
    <2>11. /\ Rising(written \o rest)
           /\ ToSet(written \o rest) = ToSet(written) \cup ToSet(rest)
      BY <2>3, <2>5, <2>8, <2>10, ConcatInOrder DEF Contents, rest
    <2>12. ToSet(rest) \subseteq 0..appended
      BY <2>5, <2>9 DEF Contents, rest
    <2>13. ToSet(written \o rest) \ {Stray} \subseteq 1..appended
      <3>1. \A x \in 0..appended : x # 0 => x \in 1..appended
        BY <2>3
      <3>2. ToSet(written) \subseteq 0..appended /\ Stray = 0
        BY <2>5 DEF Contents, Stray
      <3> QED
        BY <2>11, <2>12, <3>1, <3>2
    <2>14. 1..appended \subseteq ToSet(written \o rest) \ {Stray}
      <3> SUFFICES ASSUME NEW k \in 1..appended
                   PROVE  k \in ToSet(written \o rest) /\ k # Stray
        OBVIOUS
      <3>1. k \in ToSet(written) \/ \E b \in 1..n : k \in ToSet(Pending(b))
        BY <2>5 DEF Contents
      <3>2. k \in ToSet(written \o rest)
        BY <2>9, <2>11, <3>1 DEF rest
      <3>3. k # 0
        BY <2>3
      <3> QED
        BY <3>2, <3>3 DEF Stray
    <2>15. Rising(written \o rest) /\ ToSet(written \o rest) \ {Stray} = 1..appended
      BY <2>11, <2>13, <2>14
    <2>16. ToSet(fp_) \subseteq ToSet(written) \cup {Stray}
      BY <1>1 DEF FileInv
    <2> QED
      BY <2>15, <2>16, Zenon DEF rest, ss
  <1>2. \A b \in Bufs : TextInOrder(b)
    BY DEF TextInv
  <1> QED
    BY <1>1, <1>2, Zenon DEF LinesInOrder, TypeInv

\* The types, and that the lines are in the file and in the buffers in the
\* order of the critical sections that appended them, each once among those of
\* its round, that the text of a buffer begins with the lines of its round, and
\* that what clear left behind them was in the file before, for any writers and
\* lines and any limit of the ring (rlog.h:92-146, rlog.cc:57-82,
\* buffer.cc:28-43).
THEOREM LinesAreInOrder == Spec => []LinesInOrder
  <1> DEFINE IInv == TypeInv /\ LengthInv /\ TextInv /\ RingInv /\ FileInv
  <1>1. Init => IInv
    BY InitTypes, InitText, InitRing
  <1>2. IInv /\ [Next]_vars => IInv'
    BY NextTypes, NextText, NextRing, NextFile
  <1>3. IInv => LinesInOrder
    BY RingGivesOrder
  <1> QED
    BY <1>1, <1>2, <1>3, PTL DEF Spec
=============================================================================
