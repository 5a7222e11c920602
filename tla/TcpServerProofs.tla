--------------------------- MODULE TcpServerProofs ---------------------------
(***************************************************************************)
(* Proofs about TcpServer, for any bound on the clients and descriptors    *)
(* and any numbers of threads: every open descriptor has one holder, and   *)
(* the connections are spread over the loops in turn.                      *)
(***************************************************************************)
EXTENDS TcpServer, FiniteSetTheorems, WellFoundedInduction, TLAPS

\* Every set of naturals has a least element, so Min is one of them.
LEMMA LeastNatural ==
    ASSUME NEW S, S \subseteq Nat, S # {}
    PROVE  \E x \in S : \A y \in S : x <= y
  <1>1. PICK x \in S : \A y \in S : ~ (<<y, x>> \in OpToRel(<, Nat))
    BY NatLessThanWellFounded, WFMin
  <1>2. \A y \in S : ~(y < x)
    BY <1>1 DEF OpToRel
  <1> QED
    BY <1>2

LEMMA MinOfNaturals ==
    ASSUME NEW S, S \subseteq Nat, S # {}
    PROVE  Min(S) \in S
  BY LeastNatural DEF Min

\* index_ steps round the loops as the number of connections does.
LEMMA NextTurn ==
    ASSUME NEW a \in Nat, NEW n \in Nat \ {0}
    PROVE  ((a % n) + 1) % n = (a + 1) % n
  <1> DEFINE q == a \div n
             r == a % n
             p == (a + 1) \div n
             s == (a + 1) % n
  <1>1. /\ q \in Int /\ r \in 0..(n - 1) /\ a = n * q + r
        /\ p \in Int /\ s \in 0..(n - 1) /\ a + 1 = n * p + s
    OBVIOUS
  <1>2. n * (p - q) = r + 1 - s
    BY <1>1
  <1>3. p - q \in {0, 1}
    <2>1. ASSUME p - q >= 2 PROVE FALSE
      <3>1. n * (p - q) >= 2 * n
        BY <1>1, <2>1
      <3> QED
        BY <1>1, <1>2, <3>1
    <2>2. ASSUME p - q <= -1 PROVE FALSE
      <3>1. n * (p - q) <= -n
        BY <1>1, <2>2
      <3> QED
        BY <1>1, <1>2, <3>1
    <2> HIDE DEF p, q
    <2> QED
      BY <1>1, <2>1, <2>2
  <1>4. CASE p - q = 0
    <2>1. s = r + 1
      BY <1>1, <1>2, <1>4
    <2>2. (r + 1) % n = r + 1
      BY <1>1, <2>1
    <2> QED
      BY <2>1, <2>2
  <1>5. CASE p - q = 1
    <2>1. s = 0 /\ r + 1 = n
      BY <1>1, <1>2, <1>5
    <2>2. n % n = 0
      OBVIOUS
    <2> QED
      BY <2>1, <2>2
  <1> QED
    BY <1>3, <1>4, <1>5

-----------------------------------------------------------------------------
(* The descriptors.                                                        *)
Held == {h \in Holdings : h[3] # -1}

OneHolder ==
    /\ open = {h[3] : h \in Held}
    /\ \A g, h \in Held : g[3] = h[3] => g = h

\* confd is in use from accept to the connection that gets it.
FdTypeOK ==
    /\ acceptpc \in {"idle", "retry", "drop", "reopen", "newconn", "insert"}
    /\ open \subseteq 0..(MaxFds - 1)
    /\ nullfd_ \in Fds /\ file \in [Loops -> Fds]
    /\ connfd \in Seq(0..(MaxFds - 1))
    /\ confd \in Fds
    /\ confd # -1 <=> acceptpc = "newconn"

FdInv == FdTypeOK /\ OneHolder

LEMMA NewIsFree ==
    ASSUME FdTypeOK, Free # {}
    PROVE  Min(Free) \in 0..(MaxFds - 1) \ open
  <1>1. Free \subseteq Nat
    BY DEF Free
  <1> QED
    BY <1>1, MinOfNaturals DEF Free

LEMMA SameHeld ==
    ASSUME OneHolder, open' = open, Held' = Held
    PROVE  OneHolder'
  BY DEF OneHolder

\* A descriptor is opened and held by h.
LEMMA Gains ==
    ASSUME OneHolder, NEW h, h[3] \notin open, open' = open \cup {h[3]},
           Held' = Held \cup {h}
    PROVE  OneHolder'
  BY DEF OneHolder

\* The descriptor that h held is closed.
LEMMA Loses ==
    ASSUME OneHolder, NEW h \in Held, open' = open \ {h[3]},
           Held' = Held \ {h}
    PROVE  OneHolder'
  BY DEF OneHolder

\* The descriptor that g held is now held by h.
LEMMA Passes ==
    ASSUME OneHolder, NEW g \in Held, NEW h, h[3] = g[3], open' = open,
           Held' = (Held \ {g}) \cup {h}
    PROVE  OneHolder'
  BY DEF OneHolder

\* Who holds what, one holder at a time.
LEMMA HeldBy ==
    /\ \A h : h \in Held <=>
          \/ /\ h = <<"spare", 0, nullfd_>> /\ nullfd_ # -1
             /\ acceptpc \notin {"retry", "reopen"}
          \/ h = <<"accepted", 0, confd>> /\ confd # -1
          \/ \E c \in DOMAIN connfd :
                h = <<"connection", c, connfd[c]>> /\ connfd[c] # -1
          \/ \E l \in Loops : h = <<"file", l, file[l]>> /\ file[l] # -1
  BY DEF Held, Holdings

LEMMA HeldByNext ==
    /\ \A h : h \in Held' <=>
          \/ /\ h = <<"spare", 0, nullfd_'>> /\ nullfd_' # -1
             /\ acceptpc' \notin {"retry", "reopen"}
          \/ h = <<"accepted", 0, confd'>> /\ confd' # -1
          \/ \E c \in DOMAIN connfd' :
                h = <<"connection", c, connfd'[c]>> /\ connfd'[c] # -1
          \/ \E l \in Loops : h = <<"file", l, file'[l]>> /\ file'[l] # -1
  BY DEF Held, Holdings

LEMMA FdInvInit == Init => FdInv
  <1> SUFFICES ASSUME Init PROVE FdInv
    OBVIOUS
  <1> USE TcpServerAssumption DEF TcpServerAssumption, Init
  <1>1. FdTypeOK
    <2>1. connfd \in Seq(0..(MaxFds - 1))
      OBVIOUS
    <2> QED
      BY <2>1 DEF FdTypeOK, Fds
  <1>2. Held = {<<"spare", 0, 0>>}
    BY HeldBy
  <1>3. OneHolder
    BY <1>2 DEF OneHolder
  <1> QED
    BY <1>1, <1>3 DEF FdInv

LEMMA FdInvStep == FdInv /\ [Next]_vars => FdInv'
  <1> SUFFICES ASSUME FdInv, [Next]_vars PROVE FdInv'
    OBVIOUS
  <1> USE TcpServerAssumption DEF TcpServerAssumption, FdInv, Fds
  <1>a. FdTypeOK /\ OneHolder
    OBVIOUS
  <1>b. Free # {} => Min(Free) \in 0..(MaxFds - 1) \ open
    BY NewIsFree
  \* The descriptors and those who hold them stay as they are.
  <1>c. ASSUME UNCHANGED <<open, nullfd_, confd, connfd, file>>,
               acceptpc' \in {"idle", "retry", "drop", "reopen", "newconn",
                              "insert"},
               acceptpc' \in {"retry", "reopen"}
                   <=> acceptpc \in {"retry", "reopen"},
               acceptpc' = "newconn" <=> acceptpc = "newconn"
        PROVE  FdInv'
    <2>1. Held' = Held
      BY <1>c, HeldBy, HeldByNext
    <2> QED
      BY <1>a, <1>c, <2>1, SameHeld DEF FdTypeOK
  <1>1. CASE Start \/ Connect
    BY <1>1, <1>a, <1>c
       DEF Start, Connect, acceptor, connections, loops, FdTypeOK
  <1>2. CASE Accept
    <2> DEFINE fd == Min(Free)
    <2>1. /\ confd' = fd /\ open' = open \cup {fd} /\ acceptpc' = "newconn"
          /\ acceptpc = "idle"
          /\ fd \in 0..(MaxFds - 1) \ open /\ fd # -1
          /\ UNCHANGED <<nullfd_, connfd, file>>
      BY <1>2, <1>b DEF Accept, Opens, At, Goto, connections, loops
    <2>2. confd = -1
      BY <2>1 DEF FdTypeOK
    <2> HIDE DEF fd
    <2>3. Held' = Held \cup {<<"accepted", 0, fd>>}
      BY <2>1, <2>2, HeldBy, HeldByNext
    <2>4. <<"accepted", 0, fd>>[3] = fd
      OBVIOUS
    <2>5. OneHolder'
      BY <2>1, <2>3, <2>4, Gains
    <2>6. FdTypeOK'
      BY <2>1 DEF FdTypeOK
    <2> QED
      BY <2>5, <2>6
  <1>3. CASE AcceptFails
    <2>1. /\ open' = open \ {nullfd_} /\ acceptpc' = "retry"
          /\ acceptpc = "idle" /\ UNCHANGED <<nullfd_, confd, connfd, file>>
      BY <1>3 DEF AcceptFails, Closes, At, Goto, connections, loops
    <2>2. Held' = Held \ {<<"spare", 0, nullfd_>>}
      BY <2>1, HeldBy, HeldByNext
    <2>3. CASE nullfd_ = -1
      <3>1. open' = open /\ Held' = Held
        BY <2>1, <2>2, <2>3, HeldBy DEF FdTypeOK
      <3> QED
        BY <2>1, <3>1, SameHeld DEF FdTypeOK
    <2>4. CASE nullfd_ # -1
      <3>1. <<"spare", 0, nullfd_>> \in Held /\ <<"spare", 0, nullfd_>>[3] = nullfd_
        BY <2>1, <2>4, HeldBy
      <3> QED
        BY <2>1, <2>2, <3>1, Loses DEF FdTypeOK
    <2> QED
      BY <2>3, <2>4
  <1>4. CASE RetryAccept \/ ReopenSpare
    <2>1. /\ acceptpc \in {"retry", "reopen"} /\ acceptpc' \in {"drop", "idle"}
          /\ nullfd_' = IF Free = {} THEN -1 ELSE Min(Free)
          /\ open' = open \cup (IF Free = {} THEN {} ELSE {nullfd_'})
          /\ UNCHANGED <<confd, connfd, file>>
      BY <1>4 DEF RetryAccept, ReopenSpare, Opens, At, Goto, connections, loops
    <2>2. Held' = Held \cup (IF nullfd_' = -1 THEN {}
                                              ELSE {<<"spare", 0, nullfd_'>>})
      BY <2>1, HeldBy, HeldByNext
    <2>3. CASE Free = {}
      <3>1. open' = open /\ Held' = Held
        BY <2>1, <2>2, <2>3
      <3> QED
        BY <2>1, <2>3, <3>1, SameHeld DEF FdTypeOK
    <2>4. CASE Free # {}
      <3>1. /\ nullfd_' \in 0..(MaxFds - 1) \ open /\ nullfd_' # -1
            /\ <<"spare", 0, nullfd_'>>[3] = nullfd_'
        BY <2>1, <2>4, <1>b
      <3>2. OneHolder'
        BY <2>1, <2>2, <2>4, <3>1, Gains
      <3>3. open' \subseteq 0..(MaxFds - 1) /\ nullfd_' \in Fds
        <4>1. open' = open \cup {nullfd_'}
          BY <2>1, <2>4
        <4>2. nullfd_' \in 0..(MaxFds - 1)
          BY <3>1
        <4> QED
          BY <4>1, <4>2 DEF FdTypeOK
      <3>4. FdTypeOK'
        BY <2>1, <3>3 DEF FdTypeOK
      <3> QED
        BY <3>2, <3>4
    <2> QED
      BY <2>3, <2>4
  <1>5. CASE DropClient
    <2>1. /\ open' = open \ {nullfd_} /\ acceptpc' = "reopen"
          /\ acceptpc = "drop" /\ UNCHANGED <<nullfd_, confd, connfd, file>>
      BY <1>5 DEF DropClient, Closes, At, Goto, connections, loops
    <2>2. Held' = Held \ {<<"spare", 0, nullfd_>>}
      BY <2>1, HeldBy, HeldByNext
    <2>3. CASE nullfd_ = -1
      <3>1. open' = open /\ Held' = Held
        BY <2>1, <2>2, <2>3, HeldBy DEF FdTypeOK
      <3> QED
        BY <2>1, <3>1, SameHeld DEF FdTypeOK
    <2>4. CASE nullfd_ # -1
      <3>1. <<"spare", 0, nullfd_>> \in Held /\ <<"spare", 0, nullfd_>>[3] = nullfd_
        BY <2>1, <2>4, HeldBy
      <3> QED
        BY <2>1, <2>2, <3>1, Loses DEF FdTypeOK
    <2> QED
      BY <2>3, <2>4
  <1>6. CASE BuildConnection
    <2> DEFINE n == Len(connfd) + 1
               old == <<"accepted", 0, confd>>
               new == <<"connection", n, confd>>
    <2>1. /\ connfd' = Append(connfd, confd) /\ confd' = -1
          /\ acceptpc = "newconn" /\ acceptpc' = "insert"
          /\ UNCHANGED <<open, nullfd_, file>>
      BY <1>6 DEF BuildConnection, At, Goto
    <2>2. confd # -1 /\ confd \in 0..(MaxFds - 1)
      BY <2>1 DEF FdTypeOK
    <2>3. /\ connfd' \in Seq(0..(MaxFds - 1))
          /\ DOMAIN connfd' = DOMAIN connfd \cup {n} /\ n \notin DOMAIN connfd
          /\ \A c \in DOMAIN connfd : connfd'[c] = connfd[c]
          /\ connfd'[n] = confd
      BY <2>1, <2>2 DEF FdTypeOK
    <2> HIDE DEF n
    <2>4. old \in Held /\ old[3] = new[3]
      BY <2>2, HeldBy
    <2>5. Held' = (Held \ {old}) \cup {new}
      BY <2>1, <2>2, <2>3, HeldBy, HeldByNext
    <2> HIDE DEF old, new
    <2>6. OneHolder'
      BY <2>1, <2>4, <2>5, Passes
    <2> QED
      BY <2>1, <2>3, <2>6 DEF FdTypeOK
  <1>7. CASE NullLoop
    BY <1>7, <1>a, <1>c DEF NullLoop, acceptor, connections, loops, FdTypeOK
  <1>8. CASE InsertConnection
    BY <1>8, <1>a, <1>c DEF InsertConnection, loops, FdTypeOK, At, Goto
  <1>9. ASSUME NEW l \in Loops, NEW c \in Clients, Establish(l) \/ PeerCloses(l, c)
        PROVE  FdInv'
    BY <1>9, <1>a, <1>c
       DEF Establish, PeerCloses, acceptor, connections, FdTypeOK
  <1>10. ASSUME NEW l \in Loops, Establish(l) PROVE FdInv'
    BY <1>10, <1>a, <1>c DEF Establish, acceptor, connections, FdTypeOK
  <1>11. ASSUME NEW l \in Loops, OpenFile(l) PROVE FdInv'
    <2> DEFINE fd == Min(Free)
    <2>1. /\ fd \in 0..(MaxFds - 1) \ open /\ fd # -1 /\ file[l] = -1
          /\ file' = [file EXCEPT ![l] = fd] /\ open' = open \cup {fd}
          /\ UNCHANGED <<nullfd_, acceptpc, confd, connfd>>
      BY <1>11, <1>b DEF OpenFile, Idle, acceptor, connections
    <2> HIDE DEF fd
    <2>2. Held' = Held \cup {<<"file", l, fd>>}
      BY <2>1, HeldBy, HeldByNext DEF FdTypeOK
    <2>3. <<"file", l, fd>>[3] = fd
      OBVIOUS
    <2>4. OneHolder'
      BY <2>1, <2>2, <2>3, Gains
    <2>5. file' \in [Loops -> Fds] /\ open' \subseteq 0..(MaxFds - 1)
      BY <2>1 DEF FdTypeOK
    <2> QED
      BY <2>1, <2>4, <2>5 DEF FdTypeOK
  <1>12. ASSUME NEW l \in Loops, CloseFile(l) PROVE FdInv'
    <2> DEFINE h == <<"file", l, file[l]>>
    <2>1. /\ file[l] # -1 /\ file' = [file EXCEPT ![l] = -1]
          /\ open' = open \ {file[l]}
          /\ UNCHANGED <<nullfd_, acceptpc, confd, connfd>>
      BY <1>12 DEF CloseFile, Closes, acceptor, connections
    <2>2. h \in Held /\ h[3] = file[l]
      BY <2>1, HeldBy
    <2>3. Held' = Held \ {h}
      BY <2>1, HeldBy, HeldByNext DEF FdTypeOK
    <2> HIDE DEF h
    <2>4. OneHolder'
      BY <2>1, <2>2, <2>3, Loses
    <2>5. file' \in [Loops -> Fds] /\ open' \subseteq 0..(MaxFds - 1)
      <3>1. -1 \in Fds
        OBVIOUS
      <3> HIDE DEF Fds
      <3> QED
        BY <2>1, <3>1 DEF FdTypeOK
    <2> QED
      BY <2>1, <2>4, <2>5 DEF FdTypeOK
  <1>13. CASE UNCHANGED vars
    BY <1>13, <1>a, <1>c DEF vars, acceptor, connections, loops, FdTypeOK
  <1> QED
    BY <1>1, <1>2, <1>3, <1>4, <1>5, <1>6, <1>7, <1>8, <1>9, <1>10, <1>11,
       <1>12, <1>13 DEF Next, HandleRead

THEOREM FdInvariant == Spec => []FdInv
  BY FdInvInit, FdInvStep, PTL DEF Spec

\* Every open descriptor has one holder and every holder's descriptor is open,
\* through EMFILE and the dance with the spare descriptor, whatever files the
\* callbacks open at the same time.
THEOREM DescriptorsAreOwned == Spec => []DescriptorsOwned
  <1>1. FdInv => DescriptorsOwned
    BY DEF FdInv, FdTypeOK, OneHolder, Held, DescriptorsOwned
  <1> QED
    BY <1>1, FdInvariant, PTL

-----------------------------------------------------------------------------
(* The turns of the loops.                                                 *)

\* By the least number of elements for which it would fail.
LEMMA GreatestInteger ==
    ASSUME NEW S, IsFiniteSet(S), S \subseteq Int, S # {}
    PROVE  \E x \in S : \A y \in S : x >= y
  <1> DEFINE HasMax(T) == \E x \in T : \A y \in T : x >= y
             Bad == {n \in Nat : \E T \in SUBSET S :
                        T # {} /\ Cardinality(T) = n /\ ~HasMax(T)}
  <1>1. \A T \in SUBSET S : IsFiniteSet(T) /\ Cardinality(T) \in Nat
    BY FS_Subset, FS_CardinalityType
  <1>2. ASSUME Bad # {} PROVE FALSE
    <2>1. PICK n \in Bad : \A m \in Bad : n <= m
      BY <1>2, LeastNatural
    <2>2. PICK T \in SUBSET S : T # {} /\ Cardinality(T) = n /\ ~HasMax(T)
      OBVIOUS
    <2>3. PICK x \in T : TRUE
      BY <2>2
    <2>4. /\ IsFiniteSet(T \ {x}) /\ Cardinality(T \ {x}) = n - 1
          /\ T \ {x} \in SUBSET S
      BY <1>1, <2>2, <2>3, FS_RemoveElement
    <2>5. T \ {x} # {}
      BY <2>2, <2>3
    <2>6. HasMax(T \ {x})
      <3>1. n - 1 \in Nat /\ ~(n <= n - 1)
        BY <1>1, <2>4
      <3>2. n - 1 \notin Bad
        BY <2>1, <3>1
      <3> HIDE DEF HasMax
      <3> QED
        BY <2>4, <2>5, <3>1, <3>2
    <2>7. PICK m \in T \ {x} : \A y \in T \ {x} : m >= y
      BY <2>6
    <2>8. HasMax(T)
      <3>1. CASE m >= x
        BY <2>7, <3>1
      <3>2. CASE ~(m >= x)
        <4>1. \A y \in T : x >= y
          BY <2>7, <3>2
        <4> QED
          BY <4>1
      <3> QED
        BY <3>1, <3>2
    <2> QED
      BY <2>2, <2>8
  <1>3. S \in SUBSET S /\ Cardinality(S) \in Nat
    BY <1>1
  <1> HIDE DEF HasMax
  <1>4. HasMax(S)
    BY <1>2, <1>3
  <1> QED
    BY <1>4 DEF HasMax

LEMMA LoopsExist ==
    ASSUME NEW k \in Nums, NEW i \in 0..(k - 1)
    PROVE  i \in Loops
  <1> DEFINE S == Nums \cup {0}
  <1>1. IsFiniteSet(S) /\ S \subseteq Int /\ S # {}
    BY TcpServerAssumption, FS_AddElement DEF TcpServerAssumption
  <1>2. PICK x \in S : \A y \in S : x >= y
    BY <1>1, GreatestInteger
  <1>3. Max(S) \in S /\ \A y \in S : Max(S) >= y
    BY <1>2 DEF Max
  <1>4. Max(S) \in Int /\ Max(S) >= k
    BY <1>1, <1>3
  <1> QED
    BY <1>4, TcpServerAssumption DEF Loops, TcpServerAssumption

\* The connections of a loop, established or queued.
Mine(l) == established[l] \o queue[l]

InOrder(s) == \A i, j \in 1..Len(s) : i < j => s[i] < s[j]

LEMMA AppendInOrder ==
    ASSUME NEW s \in Seq(Nat), NEW c \in Nat, InOrder(s),
           \A x \in ToSet(s) : x < c
    PROVE  ToSet(Append(s, c)) = ToSet(s) \cup {c} /\ InOrder(Append(s, c))
  <1> DEFINE t == Append(s, c)
  <1>1. /\ Len(s) \in Nat /\ Len(t) = Len(s) + 1 /\ t[Len(t)] = c
        /\ \A i \in 1..Len(s) : t[i] = s[i]
        /\ DOMAIN s = 1..Len(s) /\ DOMAIN t = 1..Len(t)
    OBVIOUS
  <1>2. \A i \in 1..Len(t) : i = Len(t) \/ i \in 1..Len(s)
    BY <1>1
  <1> HIDE DEF t
  <1>3. ToSet(t) = ToSet(s) \cup {c}
    BY <1>1, <1>2 DEF ToSet
  <1>4. \A i \in 1..Len(s) : s[i] < c
    BY <1>1 DEF ToSet
  <1>5. InOrder(t)
    BY <1>1, <1>2, <1>4 DEF InOrder
  <1> QED
    BY <1>3, <1>5 DEF t

LEMMA AppendToQueue ==
    ASSUME NEW s \in Seq(Nat), NEW q \in Seq(Nat), NEW c \in Nat
    PROVE  s \o Append(q, c) = Append(s \o q, c)
  OBVIOUS

LEMMA HeadToEstablished ==
    ASSUME NEW s \in Seq(Nat), NEW q \in Seq(Nat), q # <<>>
    PROVE  Append(s, Head(q)) \o Tail(q) = s \o q
  OBVIOUS

LEMMA FirstPart ==
    ASSUME NEW s \in Seq(Nat), NEW q \in Seq(Nat)
    PROVE  ToSet(s) \subseteq ToSet(s \o q)
  <1>1. /\ DOMAIN s = 1..Len(s) /\ DOMAIN (s \o q) = 1..Len(s \o q)
        /\ Len(s) \in Nat /\ Len(q) \in Nat
        /\ Len(s \o q) = Len(s) + Len(q)
        /\ \A i \in 1..Len(s) : (s \o q)[i] = s[i]
    OBVIOUS
  <1>2. \A i \in 1..Len(s) : i \in 1..Len(s \o q)
    BY <1>1
  <1> QED
    BY <1>1, <1>2 DEF ToSet

TurnInv ==
    /\ threadnum_ \in Nums
    /\ connid_ \in Nat \ {0}
    /\ index_ = IF threadnum_ <= 0 THEN 0 ELSE Built % threadnum_
    /\ established \in [Loops -> Seq(Nat)]
    /\ queue \in [Loops -> Seq(Nat)]
    /\ queue[mainloop] = <<>>
    /\ ConnectionsInTurn

LEMMA TurnInvInit == Init => TurnInv
  <1> SUFFICES ASSUME Init PROVE TurnInv
    OBVIOUS
  <1>1. mainloop \in Loops
    BY DEF Loops
  <1>2. Built = 0
    BY DEF Init, Built
  <1>3. index_ = IF threadnum_ <= 0 THEN 0 ELSE Built % threadnum_
    <2>1. threadnum_ \in Int
      BY TcpServerAssumption DEF TcpServerAssumption, Init
    <2> QED
      BY <1>2, <2>1 DEF Init
  <1>4. ConnectionsInTurn
    BY <1>2 DEF Init, ConnectionsInTurn, ToSet
  <1> QED
    BY <1>1, <1>3, <1>4 DEF Init, TurnInv

LEMMA TurnInvStep == FdInv /\ TurnInv /\ [Next]_vars => TurnInv'
  <1> SUFFICES ASSUME FdInv, TurnInv, [Next]_vars PROVE TurnInv'
    OBVIOUS
  <1>a. /\ connid_ \in Nat \ {0} /\ Built \in Nat /\ mainloop \in Loops
        /\ threadnum_ \in Int
    BY TcpServerAssumption DEF TurnInv, Built, Loops, TcpServerAssumption
  <1>b. \A l \in Loops :
           /\ established[l] \in Seq(Nat) /\ queue[l] \in Seq(Nat)
           /\ Mine(l) \in Seq(Nat)
           /\ ToSet(Mine(l)) = {c \in 1..Built : Turn(c) = l}
           /\ InOrder(Mine(l))
    BY SMTT(30) DEF TurnInv, ConnectionsInTurn, Mine, InOrder
  \* The connections stay as they are.
  <1>c. ASSUME UNCHANGED <<threadnum_, connid_, index_, established, queue>>,
               UNCHANGED <<connfd, tcpconlists, closed>>,
               acceptpc' = "insert" <=> acceptpc = "insert"
        PROVE  TurnInv'
    <2>1. Built' = Built
      BY <1>c DEF Built
    <2> QED
      BY <1>c, <2>1 DEF TurnInv, ConnectionsInTurn, Turn
  <1>1. CASE Start \/ Connect
    BY <1>1, <1>c DEF Start, Connect, acceptor, connections, loops, mode
  <1>2. CASE Accept \/ AcceptFails \/ RetryAccept \/ DropClient \/ ReopenSpare
    BY <1>2, <1>c DEF Accept, AcceptFails, RetryAccept, DropClient, ReopenSpare,
                      At, Goto, connections, loops, mode
  <1>3. CASE BuildConnection
    <2> DEFINE l == getEventLoop
    <2>1. /\ HasLoop /\ acceptpc = "newconn" /\ acceptpc' = "insert"
          /\ connfd' = Append(connfd, confd) /\ index_' = NextIndex
          /\ UNCHANGED <<threadnum_, connid_, tcpconlists, closed>>
          /\ IF l = mainloop
               THEN /\ established' = [established EXCEPT
                                         ![l] = Append(@, connid_)]
                    /\ UNCHANGED queue
               ELSE /\ queue' = [queue EXCEPT ![l] = Append(@, connid_)]
                    /\ UNCHANGED established
      BY <1>3 DEF BuildConnection, At, Goto, mode
    <2>2. Built = connid_ - 1 /\ Built' = connid_ /\ connid_ = Built + 1
      BY <1>a, <2>1 DEF Built
    <2>3. l = Turn(connid_) /\ l \in Loops
      <3>1. CASE threadnum_ = 0
        BY <1>a, <3>1 DEF getEventLoop, Turn
      <3>2. CASE threadnum_ # 0
        <4>1. threadnum_ \in Nat \ {0}
          BY <1>a, <2>1, <3>2 DEF HasLoop
        <4>2. l = Built % threadnum_ /\ Turn(connid_) = Built % threadnum_
          BY <2>2, <3>2, <4>1 DEF getEventLoop, Turn, TurnInv
        <4>3. l \in 0..(threadnum_ - 1)
          BY <1>a, <4>1, <4>2
        <4> QED
          BY <4>2, <4>3, LoopsExist DEF TurnInv
      <3> QED
        BY <3>1, <3>2
    <2>4. index_' = IF threadnum_ <= 0 THEN 0 ELSE Built' % threadnum_
      <3>1. CASE threadnum_ = 0
        BY <2>1, <3>1 DEF NextIndex, TurnInv
      <3>2. CASE threadnum_ # 0
        <4>1. threadnum_ \in Nat \ {0}
          BY <1>a, <2>1, <3>2 DEF HasLoop
        <4>2. index_ = Built % threadnum_
          BY <4>1 DEF TurnInv
        <4>3. ((Built % threadnum_) + 1) % threadnum_ = (Built + 1) % threadnum_
          BY <1>a, <4>1, NextTurn
        <4>4. index_' = (index_ + 1) % threadnum_
          BY <2>1, <3>2 DEF NextIndex
        <4>5. Built' = Built + 1 /\ ~(threadnum_ <= 0)
          BY <2>2, <4>1
        <4> QED
          BY <4>2, <4>3, <4>4, <4>5
      <3> QED
        BY <3>1, <3>2
    <2> HIDE DEF l
    <2>5. /\ established' \in [Loops -> Seq(Nat)] /\ queue' \in [Loops -> Seq(Nat)]
          /\ queue'[mainloop] = <<>>
          /\ \A k \in Loops : Mine(k)' = IF k = l THEN Append(Mine(k), connid_)
                                                  ELSE Mine(k)
      <3>1. CASE l = mainloop
        <4>1. queue[l] = <<>>
          BY <3>1 DEF TurnInv
        <4>2. \A s \in Seq(Nat) : s \o <<>> = s
          OBVIOUS
        <4>3. Append(established[l], connid_) \in Seq(Nat)
          BY <1>a, <1>b, <2>3
        <4>4. /\ established' = [established EXCEPT ![l] = Append(@, connid_)]
              /\ queue' = queue
          BY <2>1, <3>1
        <4>5. \A k \in Loops : k = l => Mine(k)' = Append(established[k], connid_)
          BY <2>3, <4>1, <4>2, <4>3, <4>4 DEF TurnInv, Mine
        <4>6. Append(established[l], connid_) = Append(Mine(l), connid_)
          BY <1>b, <2>3, <4>1, <4>2 DEF Mine
        <4>7. \A k \in Loops : k # l => Mine(k)' = Mine(k)
          BY <4>4 DEF TurnInv, Mine
        <4> QED
          BY <3>1, <4>1, <4>3, <4>4, <4>5, <4>6, <4>7 DEF TurnInv
      <3>2. CASE l # mainloop
        <4>1. established[l] \o Append(queue[l], connid_) = Append(Mine(l), connid_)
          <5>1. /\ established[l] \in Seq(Nat) /\ queue[l] \in Seq(Nat)
                /\ connid_ \in Nat
            BY <1>a, <1>b, <2>3
          <5> QED
            BY <5>1, AppendToQueue DEF Mine
        <4>2. Append(queue[l], connid_) \in Seq(Nat)
          BY <1>a, <1>b, <2>3
        <4> QED
          BY <1>a, <2>1, <2>3, <3>2, <4>1, <4>2 DEF TurnInv, Mine
      <3> QED
        BY <3>1, <3>2
    <2>6. \A k \in Loops :
             /\ ToSet(Mine(k)') = {c \in 1..Built' : Turn(c)' = k}
             /\ InOrder(Mine(k)')
      <3> SUFFICES ASSUME NEW k \in Loops
                   PROVE  /\ ToSet(Mine(k)') = {c \in 1..Built' : Turn(c)' = k}
                          /\ InOrder(Mine(k)')
        OBVIOUS
      <3>1. \A c : Turn(c)' = Turn(c)
        BY <2>1 DEF Turn
      <3>2. \A c : c \in 1..Built' <=> c \in 1..Built \/ c = connid_
        BY <1>a, <2>2
      <3>3. CASE k = l
        <4>1. \A c \in ToSet(Mine(k)) : c < connid_
          BY <1>a, <1>b, <2>2
        <4>2. /\ ToSet(Mine(k)') = ToSet(Mine(k)) \cup {connid_}
              /\ InOrder(Mine(k)')
          <5>1. Mine(k)' = Append(Mine(k), connid_)
            BY <2>5, <3>3
          <5>2. connid_ \in Nat /\ Mine(k) \in Seq(Nat) /\ InOrder(Mine(k))
            BY <1>a, <1>b
          <5>3. /\ ToSet(Append(Mine(k), connid_)) = ToSet(Mine(k)) \cup {connid_}
                /\ InOrder(Append(Mine(k), connid_))
            BY <4>1, <5>2, AppendInOrder
          <5> QED
            BY <5>1, <5>3
        <4> QED
          BY <1>b, <2>3, <3>1, <3>2, <3>3, <4>2
      <3>4. CASE k # l
        BY <1>b, <2>3, <2>5, <3>1, <3>2, <3>4
      <3> QED
        BY <3>3, <3>4
    <2>7. ConnectionsInTurn'
      <3>1. Len(connfd') = Built'
        BY <2>1, <2>2 DEF FdInv, FdTypeOK, TurnInv, ConnectionsInTurn
      <3>2. closed' \subseteq 1..Built'
        BY <1>a, <2>1, <2>2 DEF TurnInv, ConnectionsInTurn
      <3> QED
        BY <2>1, <2>6, <3>1, <3>2
           DEF TurnInv, ConnectionsInTurn, Mine, InOrder
    <2> QED
      BY <2>1, <2>4, <2>5, <2>7 DEF TurnInv
  <1>4. CASE NullLoop
    BY <1>4, <1>c DEF NullLoop, acceptor, connections, loops, mode
  <1>5. CASE InsertConnection
    <2>1. /\ acceptpc = "insert" /\ acceptpc' = "idle"
          /\ tcpconlists' = tcpconlists \cup {connid_} /\ connid_' = connid_ + 1
          /\ UNCHANGED <<threadnum_, index_, connfd, established, queue, closed>>
      BY <1>5 DEF InsertConnection, At, Goto, loops, mode
    <2>2. Built' = Built /\ connid_' \in Nat \ {0}
      BY <1>a, <2>1 DEF Built
    <2>3. tcpconlists' = 1..(connid_' - 1)
      BY <1>a, <2>1 DEF TurnInv, ConnectionsInTurn
    <2> QED
      BY <2>1, <2>2, <2>3 DEF TurnInv, ConnectionsInTurn, Turn
  <1>6. ASSUME NEW l \in Loops, Establish(l) PROVE TurnInv'
    <2>1. /\ queue[l] # <<>>
          /\ established' = [established EXCEPT ![l] = Append(@, Head(queue[l]))]
          /\ queue' = [queue EXCEPT ![l] = Tail(@)]
          /\ UNCHANGED <<threadnum_, connid_, index_, acceptpc>>
          /\ UNCHANGED <<connfd, tcpconlists, closed>>
      BY <1>6 DEF Establish, mode, acceptor, connections
    <2>2. /\ Head(queue[l]) \in Nat /\ Tail(queue[l]) \in Seq(Nat)
          /\ Append(established[l], Head(queue[l])) \in Seq(Nat)
          /\ Append(established[l], Head(queue[l])) \o Tail(queue[l]) = Mine(l)
      <3>1. established[l] \in Seq(Nat) /\ queue[l] \in Seq(Nat)
        BY <1>b
      <3>2. Head(queue[l]) \in Nat /\ Tail(queue[l]) \in Seq(Nat)
        BY <2>1, <3>1
      <3>3. Append(established[l], Head(queue[l])) \in Seq(Nat)
        BY <3>1, <3>2
      <3> QED
        BY <2>1, <3>1, <3>2, <3>3, HeadToEstablished DEF Mine
    <2>3. \A k \in Loops : Mine(k)' = Mine(k)
      BY <2>1, <2>2 DEF TurnInv, Mine
    <2>4. /\ established' \in [Loops -> Seq(Nat)] /\ queue' \in [Loops -> Seq(Nat)]
          /\ queue'[mainloop] = <<>>
      BY <1>a, <2>1, <2>2 DEF TurnInv
    <2>5. Built' = Built
      BY <2>1 DEF Built
    <2> QED
      BY <2>1, <2>3, <2>4, <2>5 DEF TurnInv, ConnectionsInTurn, Mine, Turn
  <1>7. ASSUME NEW l \in Loops, NEW c \in Clients, PeerCloses(l, c)
        PROVE  TurnInv'
    <2>1. /\ c \in ToSet(established[l]) /\ closed' = closed \cup {c}
          /\ UNCHANGED <<threadnum_, connid_, index_, acceptpc, established>>
          /\ UNCHANGED <<queue, connfd, tcpconlists>>
      BY <1>7 DEF PeerCloses, Serves, mode, acceptor, connections
    <2>2. c \in ToSet(Mine(l))
      <3>1. /\ established[l] \in Seq(Nat) /\ queue[l] \in Seq(Nat)
        BY <1>b
      <3> QED
        BY <2>1, <3>1, FirstPart DEF Mine
    <2>3. Built' = Built
      BY <2>1 DEF Built
    <2>4. closed' \subseteq 1..Built'
      <3>1. closed \subseteq 1..Built
        BY DEF TurnInv, ConnectionsInTurn
      <3>2. c \in 1..Built
        BY <1>b, <2>2
      <3> QED
        BY <2>1, <2>3, <3>1, <3>2
    <2> QED
      BY <2>1, <2>3, <2>4 DEF TurnInv, ConnectionsInTurn, Turn
  <1>8. ASSUME NEW l \in Loops, OpenFile(l) \/ CloseFile(l) PROVE TurnInv'
    BY <1>8, <1>c DEF OpenFile, CloseFile, mode, acceptor, connections
  <1>9. CASE UNCHANGED vars
    BY <1>9, <1>c DEF vars, mode, acceptor, connections, loops
  <1> QED
    BY <1>1, <1>2, <1>3, <1>4, <1>5, <1>6, <1>7, <1>8, <1>9
       DEF Next, HandleRead

\* Whatever the order in which the loops establish and close them, the k-th
\* connection is in the table, or about to be, and belongs to the loop whose
\* turn is k, and each loop gets its own in order.
THEOREM ConnectionsAreInTurn == Spec => []ConnectionsInTurn
  <1>1. TurnInv => ConnectionsInTurn
    BY DEF TurnInv
  <1> QED
    BY <1>1, TurnInvInit, TurnInvStep, FdInvariant, PTL DEF Spec
=============================================================================
