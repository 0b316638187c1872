------------------------------- MODULE HttpProofs -------------------------------
(***************************************************************************)
(* Proofs about Http, for any number of clients and any files.             *)
(*                                                                         *)
(* ConnectionOK says at which point of its life a connection is: who holds *)
(* it tells how far its client and its child can be.  Together with what   *)
(* the parent has just accepted (AcceptedOK) it shows that no connection   *)
(* gets a second child, and that a child that reads meets either nothing   *)
(* or the request of its own client.                                       *)
(***************************************************************************)
EXTENDS Http, FiniteSetTheorems, WellFoundedInduction, TLAPS

ConnectionOK(c) ==
  /\ cpc[c] = "connect" => holders[c] = {} /\ child[c] = "none"
  /\ "backlog" \in holders[c] => holders[c] = {"backlog"} /\ child[c] = "none"
  /\ child[c] \in {"none", "recv"} => toServer[c] \in {<< >>, Request(path2file[c])}

AcceptedOK ==
  pc = "fork" => holders[new_fd] = {"parent"} /\ child[new_fd] = "none"

IInv ==
  /\ TypeOK
  /\ toServer = [c \in Clients |-> toServer[c]]
  /\ \A c \in Clients : ConnectionOK(c)
  /\ AcceptedOK

-----------------------------------------------------------------------------
\* Nobody is connected yet.
LEMMA InitInv == Init => IInv
<1> SUFFICES ASSUME Init PROVE IInv
  OBVIOUS
<1>1. TypeOK
  BY DEF Init, TcpInit, HttpServerInit, HttpClientInit, TypeOK, Processes, Ended
<1>2. /\ toServer = [c \in Clients |-> toServer[c]]
      /\ \A c \in Clients : ConnectionOK(c)
      /\ AcceptedOK
  BY DEF Init, TcpInit, HttpServerInit, HttpClientInit, ConnectionOK, AcceptedOK
<1> QED
  BY <1>1, <1>2 DEF IInv

\* The steps of the accept loop and of the signal handler.
LEMMA ParentStep == IInv /\ Parent /\ UNCHANGED client => IInv'
<1> SUFFICES ASSUME IInv, Parent, UNCHANGED client PROVE IInv'
  OBVIOUS
<1> USE DEF IInv, TypeOK, ConnectionOK, AcceptedOK, client, Processes, Ended
<1>1. CASE Accept /\ UNCHANGED <<sigchld, reaping, file, cnt>>
  BY <1>1 DEF Accept
<1>2. CASE Fork /\ UNCHANGED <<sigchld, reaping, file, cnt>>
  BY <1>2 DEF Fork
<1>3. CASE ForkFails /\ UNCHANGED <<sigchld, reaping, file, cnt>>
  BY <1>3 DEF ForkFails, tcp
<1>4. CASE CloseNewFd /\ UNCHANGED <<sigchld, reaping, file, cnt>>
  BY <1>4 DEF CloseNewFd, Close
<1>5. CASE TakeSignal /\ UNCHANGED <<tcp, pc, new_fd, file, cnt>>
  BY <1>5 DEF TakeSignal, tcp
<1>6. CASE sigchld_handler /\ UNCHANGED <<tcp, pc, new_fd, file, cnt>>
  BY <1>6, ZenonT(40) DEF sigchld_handler, Zombies, tcp
<1> QED
  BY <1>1, <1>2, <1>3, <1>4, <1>5, <1>6 DEF Parent

-----------------------------------------------------------------------------
\* A request has a path in its second place.
LEMMA PathOfRequest ==
  ASSUME NEW path
  PROVE  Request(path)[2] = path /\ Len(Request(path)) = 3
BY DEF Request

\* A child that ends closes its descriptor.
LEMMA DieStep ==
  ASSUME IInv, UNCHANGED client, NEW c \in Clients, Die(c),
         child[c] \in {"recv", "first", "rest"},
         cut' \in {cut, cut \cup {c}},
         \E stream : toServer' = [toServer EXCEPT ![c] = stream]
  PROVE  IInv'
<1> USE DEF IInv, TypeOK, ConnectionOK, AcceptedOK, client, Processes, Ended, Die, Close
<1>1. TypeOK'
  OBVIOUS
<1>2. toServer' = [x \in Clients |-> toServer'[x]]
  OBVIOUS
<1>3. \A x \in Clients : ConnectionOK(x)'
  OBVIOUS
<1>4. AcceptedOK'
  OBVIOUS
<1> QED
  BY <1>1, <1>2, <1>3, <1>4

\* A child that has its request opens the file.
LEMMA OpenStep ==
  ASSUME IInv, UNCHANGED client, NEW c \in Clients, NEW path \in Paths \cup {BadRequest},
         Open(c, path), child[c] = "recv",
         cut' \in {cut, cut \cup {c}},
         \E stream : toServer' = [toServer EXCEPT ![c] = stream]
  PROVE  IInv'
<1> USE DEF IInv, TypeOK, ConnectionOK, AcceptedOK, client, Processes, Ended, Open, parent
<1>1. TypeOK'
  OBVIOUS
<1>2. toServer' = [x \in Clients |-> toServer'[x]]
  OBVIOUS
<1>3. \A x \in Clients : ConnectionOK(x)'
  OBVIOUS
<1>4. AcceptedOK'
  OBVIOUS
<1> QED
  BY <1>1, <1>2, <1>3, <1>4

\* The steps of a child.
LEMMA ChildStep ==
  ASSUME IInv, UNCHANGED client, NEW c \in Clients, Child(c)
  PROVE  IInv'
<1>1. toServer = [toServer EXCEPT ![c] = toServer[c]]
  BY DEF IInv
<1>2. CASE ReceiveRequest(c)
  <2>1. /\ child[c] = "recv" /\ Open(c, toServer[c][2])
        /\ \E stream : toServer' = [toServer EXCEPT ![c] = stream]
        /\ cut' \in {cut, cut \cup {c}}
        /\ \E n \in Takes(toServer[c], 3) : n >= 2
    BY <1>2 DEF ReceiveRequest
  <2>2. toServer[c] # << >>
    BY <2>1 DEF Takes, Smaller
  <2>3. toServer[c] = Request(path2file[c])
    BY <2>1, <2>2 DEF IInv, ConnectionOK
  <2>4. toServer[c][2] \in Paths
    BY <2>3, PathOfRequest DEF IInv, TypeOK
  <2> QED
    BY <2>1, <2>4, OpenStep
<1>3. CASE ReceiveLess(c)
  <2>1. /\ child[c] = "recv" /\ cut' = cut \cup {c}
        /\ \/ \E path \in Paths \cup {BadRequest} : Open(c, path)
           \/ Die(c)
        /\ \E stream : toServer' = [toServer EXCEPT ![c] = stream]
    BY <1>1, <1>3 DEF ReceiveLess
  <2> QED
    BY <2>1, OpenStep, DieStep
<1>4. CASE ReceiveFails(c) \/ Killed(c) \/ Exit(c)
  <2>1. /\ child[c] \in {"recv", "first", "rest"} /\ Die(c) /\ cut' = cut /\ toServer' = toServer
    BY <1>4 DEF ReceiveFails, Killed, Exit
  <2> QED
    BY <1>1, <2>1, DieStep
<1>5. CASE SendFirst(c) \/ SendRest(c)
  <2>1. /\ child[c] \in {"first", "rest"} /\ child' = [child EXCEPT ![c] = "rest"]
        /\ cnt' = [cnt EXCEPT ![c] = @ + MAXDATASIZE]
        /\ UNCHANGED <<toServer, holders, reset, left, cut, parent, file>>
    BY <1>5 DEF SendFirst, SendRest, SendAndGoOn
  <2>2. cnt' \in [Clients -> Nat]
    BY <2>1, HttpServerAssumption DEF IInv, TypeOK
  <2> QED
    BY <2>1, <2>2 DEF IInv, TypeOK, ConnectionOK, AcceptedOK, client, Processes, Ended, parent
<1> QED
  BY <1>2, <1>3, <1>4, <1>5 DEF Child

-----------------------------------------------------------------------------
\* A client that ends takes nothing but itself away.
LEMMA EndStep ==
  ASSUME IInv, UNCHANGED server, NEW c \in Clients, NEW how \in Ended, End(c, how),
         cut' \in {cut, cut \cup {c}}
  PROVE  IInv'
<1> USE DEF IInv, TypeOK, ConnectionOK, AcceptedOK, Processes, Ended, End, Leave,
            server, parent, children
<1>1. TypeOK'
  OBVIOUS
<1>2. \A x \in Clients : ConnectionOK(x)'
  OBVIOUS
<1> QED
  BY <1>1, <1>2

\* The steps of a client.
LEMMA ClientStep ==
  ASSUME IInv, UNCHANGED server, NEW c \in Clients, Client(c) \/ Kill(c)
  PROVE  IInv'
<1> USE DEF server, parent, children
<1>1. CASE Connect(c)
  BY <1>1 DEF Connect, IInv, TypeOK, ConnectionOK, AcceptedOK, Processes, Ended
<1>2. CASE SendRequest(c)
  <2>1. TypeOK'
    BY <1>2 DEF SendRequest, IInv, TypeOK, Processes, Ended
  <2>2. toServer' = [x \in Clients |-> toServer'[x]] /\ AcceptedOK'
    BY <1>2 DEF SendRequest, IInv, AcceptedOK
  <2>3. \A x \in Clients : ConnectionOK(x)'
    BY <1>2 DEF SendRequest, IInv, TypeOK, ConnectionOK
  <2> QED
    BY <2>1, <2>2, <2>3 DEF IInv
<1>3. CASE FirstRecv(c) \/ Recv(c)
  <2>1. /\ cpc' = [cpc EXCEPT ![c] = "rest"] \/ cpc' = cpc
        /\ cpc[c] \in {"first", "rest"}
        /\ cut' \in {cut, cut \cup {c}}
        /\ UNCHANGED <<toServer, holders, reset, left, path2file>>
    BY <1>3 DEF FirstRecv, Recv
  <2> QED
    BY <2>1 DEF IInv, TypeOK, ConnectionOK, AcceptedOK, Processes, Ended
<1>4. CASE CrashInHeader(c) \/ Done(c) \/ RecvFails(c) \/ Kill(c)
  <2>1. PICK how \in {"crashed", "done", "failed", "killed"} : End(c, how)
    BY <1>4 DEF CrashInHeader, Done, RecvFails, Kill
  <2>2. cut' \in {cut, cut \cup {c}}
    BY <1>4 DEF CrashInHeader, Done, RecvFails, Kill
  <2> QED
    BY <2>1, <2>2, EndStep DEF Ended
<1> QED
  BY <1>1, <1>2, <1>3, <1>4 DEF Client

\* Every step keeps the invariant.
LEMMA NextStep == IInv /\ [Next]_vars => IInv'
<1> SUFFICES ASSUME IInv, [Next]_vars PROVE IInv'
  OBVIOUS
<1>1. CASE UNCHANGED vars
  BY <1>1 DEF vars, tcp, server, parent, children, client, IInv, TypeOK, ConnectionOK, AcceptedOK,
              Processes, Ended
<1> QED
  BY <1>1, ParentStep, ChildStep, ClientStep DEF Next

\* The inductive invariant holds of every execution.
THEOREM Invariant == Spec => []IInv
BY InitInv, NextStep, PTL DEF Spec

\* The types; a child has its connection open as long as it runs.
THEOREM TypeCorrectness == Spec => []TypeOK
<1>1. IInv => TypeOK
  BY DEF IInv
<1> QED
  BY <1>1, Invariant, PTL

-----------------------------------------------------------------------------
\* A step makes a zombie only with a signal, and the handler returns only
\* when there is none.
LEMMA ZombieStep ==
  IInv /\ ZombiesAreAnnounced /\ [Next]_vars => ZombiesAreAnnounced'
<1> SUFFICES ASSUME IInv, ZombiesAreAnnounced, [Next]_vars PROVE ZombiesAreAnnounced'
  OBVIOUS
<1> USE DEF ZombiesAreAnnounced, Zombies
<1>1. child \in [Clients -> {"none", "recv", "first", "rest", "zombie", "reaped"}]
  BY DEF IInv, TypeOK
<1>2. CASE UNCHANGED vars \/ \E c \in Clients : (Client(c) \/ Kill(c)) /\ UNCHANGED server
  BY <1>2 DEF vars, server, parent, children
<1>3. CASE Parent
  <2>1. CASE ~ reaping /\ (Accept \/ Fork \/ ForkFails \/ CloseNewFd) /\ UNCHANGED <<sigchld, reaping>>
    BY <1>1, <2>1 DEF Accept, Fork, ForkFails, CloseNewFd
  <2>2. CASE TakeSignal
    BY <2>2 DEF TakeSignal
  <2>3. CASE sigchld_handler
    BY <2>3 DEF sigchld_handler
  <2> QED
    BY <1>3, <2>1, <2>2, <2>3 DEF Parent
<1>4. ASSUME NEW c \in Clients, Child(c) PROVE ZombiesAreAnnounced'
  <2>1. CASE Die(c)
    BY <2>1 DEF Die
  <2>2. CASE \E path : Open(c, path)
    BY <1>1, <2>2 DEF Open, parent
  <2>3. CASE \E data : SendAndGoOn(c, data)
    BY <1>1, <2>3 DEF SendAndGoOn, parent
  <2> QED
    BY <1>4, <2>1, <2>2, <2>3 DEF Child, ReceiveRequest, ReceiveLess, ReceiveFails, SendFirst,
                                  SendRest, Killed, Exit
<1> QED
  BY <1>2, <1>3, <1>4 DEF Next

\* No dead child is forgotten, however many die at once and whenever.
THEOREM NoZombieIsForgotten == Spec => []ZombiesAreAnnounced
<1>1. Init => ZombiesAreAnnounced
  BY DEF Init, HttpServerInit, ZombiesAreAnnounced, Zombies
<1> QED
  BY <1>1, ZombieStep, Invariant, PTL DEF Spec

-----------------------------------------------------------------------------
(* The bytes of a file, and what is sent of them.                          *)

\* The places of the bytes that are sent, as in Expected, and how many of
\* them there are among the first n.
Sent(path) ==
  {i \in 1..Len(Files[path]) : \A j \in 1..i : Piece(j) = Piece(i) => Files[path][j] # "NUL"}

Place(path, n) == Cardinality({j \in Sent(path) : j <= n})

\* The same in the words of Expected.
LEMMA ExpectedBytes ==
  ASSUME NEW path \in DOMAIN Files
  PROVE  Expected(path) =
           [k \in 1..Cardinality(Sent(path)) |->
              Files[path][CHOOSE i \in Sent(path) : Place(path, i) = k]]
BY DEF Expected, Sent, Place

\* A file is a sequence.
LEMMA FileTyped ==
  ASSUME NEW path \in DOMAIN Files
  PROVE  Files[path] \in Seq(STRING) /\ Len(Files[path]) \in Nat
BY HttpServerAssumption

\* The piece that begins behind k whole ones.
LEMMA QuotientFact ==
  ASSUME NEW M \in Nat \ {0}, NEW k \in Nat, NEW a \in Nat
  PROVE  (k * M <= a /\ a < k * M + M) <=> a \div M = k
<1> DEFINE q == a \div M
           r == a % M
<1>1. q \in Nat /\ r \in Nat /\ r < M /\ a = q * M + r
  BY SMTT(60)
<1> HIDE DEF q, r
<1>2. ASSUME NEW x \in Nat, NEW y \in Nat, x < y PROVE x * M + M <= y * M
  <2>1. y - x - 1 \in Nat /\ y = x + 1 + (y - x - 1)
    BY <1>2
  <2>2. \A d \in Nat : (x + 1 + d) * M = x * M + M + d * M /\ d * M \in Nat
    BY SMTT(60)
  <2>3. x * M \in Nat
    BY SMTT(60)
  <2> QED
    BY <2>1, <2>2, <2>3
<1>3. q * M \in Nat /\ k * M \in Nat
  BY <1>1, SMTT(60)
<1>4. CASE q < k
  BY <1>1, <1>2, <1>3, <1>4 DEF q
<1>5. CASE k < q
  BY <1>1, <1>2, <1>3, <1>5 DEF q
<1>6. CASE q = k
  BY <1>1, <1>3, <1>6 DEF q
<1> QED
  BY <1>1, <1>4, <1>5, <1>6

\* It consists of the next MAXDATASIZE bytes.
LEMMA PieceFact ==
  ASSUME NEW k \in Nat, NEW n \in Nat, n = k * MAXDATASIZE, NEW i \in Nat \ {0}
  PROVE  (n < i /\ i <= n + MAXDATASIZE) <=> Piece(i) = k
<1>1. MAXDATASIZE \in Nat \ {0} /\ i - 1 \in Nat
  BY HttpServerAssumption
<1>2. (k * MAXDATASIZE <= i - 1 /\ i - 1 < k * MAXDATASIZE + MAXDATASIZE)
        <=> (i - 1) \div MAXDATASIZE = k
  BY <1>1, QuotientFact
<1> QED
  BY <1>1, <1>2 DEF Piece

\* A set of numbers that is not empty has a smallest.
LEMMA HasSmallest ==
  ASSUME NEW S, S \subseteq Nat, S # {}
  PROVE  \E x \in S : \A y \in S : x <= y
<1> DEFINE R == OpToRel(<, Nat)
<1>1. IsWellFoundedOn(R, Nat)
  BY NatLessThanWellFounded
<1>2. \A x, y \in Nat : x < y => <<x, y>> \in R
  BY DEF OpToRel
<1> HIDE DEF R
<1>3. PICK x \in S : \A y \in S : ~ (<<y, x>> \in R)
  BY <1>1, WFMin
<1>4. ASSUME NEW y \in S PROVE x <= y
  <2>1. x \in Nat /\ y \in Nat /\ ~ (y < x)
    BY <1>2, <1>3
  <2> QED
    BY <2>1
<1> QED
  BY <1>4

\* strncpy stops at the first zero.
LEMMA TextFact ==
  ASSUME NEW s \in Seq(STRING)
  PROVE  \E n \in 0..Len(s) :
           /\ Text(s) = SubSeq(s, 1, n)
           /\ \A i \in 1..n : s[i] # "NUL"
           /\ n < Len(s) => s[n + 1] = "NUL"
<1> DEFINE zeros == {i \in 1..Len(s) : s[i] = "NUL"}
           P(t) == IF zeros = {} THEN t = s
                   ELSE Len(t) + 1 \in zeros /\ \A i \in zeros : Len(t) < i
           T == {SubSeq(s, 1, n) : n \in 0..Len(s)}
<1>1. Text(s) = CHOOSE t \in T : P(t)
  BY DEF Text
<1>2. \A n \in 0..Len(s) : SubSeq(s, 1, n) \in Seq(STRING) /\ Len(SubSeq(s, 1, n)) = n
  OBVIOUS
<1>3. \E t \in T : P(t)
  <2>1. CASE zeros = {}
    <3>1. Len(s) \in 0..Len(s) /\ SubSeq(s, 1, Len(s)) = s
      OBVIOUS
    <3> QED
      BY <2>1, <3>1
  <2>2. CASE zeros # {}
    <3>1. zeros \subseteq Nat
      OBVIOUS
    <3>2. PICK z \in zeros : \A i \in zeros : z <= i
      BY <2>2, <3>1, HasSmallest
    <3>3. z \in 1..Len(s) /\ z - 1 \in 0..Len(s)
      OBVIOUS
    <3>4. Len(SubSeq(s, 1, z - 1)) = z - 1
      BY <1>2, <3>3
    <3>5. SubSeq(s, 1, z - 1) \in T
      BY <3>3
    <3>6. \A i \in zeros : z - 1 < i
      BY <3>2, <3>3
    <3>7. Len(SubSeq(s, 1, z - 1)) + 1 \in zeros
      <4>1. z - 1 + 1 = z
        BY <3>3
      <4> QED
        BY <3>2, <3>4, <4>1
    <3>8. \A i \in zeros : Len(SubSeq(s, 1, z - 1)) < i
      BY <3>4, <3>6
    <3>9. P(SubSeq(s, 1, z - 1))
      BY <2>2, <3>7, <3>8
    <3> HIDE DEF P, T
    <3> QED
      BY <3>5, <3>9
  <2> QED
    BY <2>1, <2>2
<1>4. Text(s) \in T /\ P(Text(s))
  <2> HIDE DEF P, T
  <2> QED
    BY <1>1, <1>3
<1>5. PICK n \in 0..Len(s) : Text(s) = SubSeq(s, 1, n)
  BY <1>4
<1>6. Len(Text(s)) = n
  BY <1>2, <1>5
<1>7. CASE zeros = {}
  <2>1. n = Len(s)
    BY <1>4, <1>6, <1>7
  <2>2. \A i \in 1..n : s[i] # "NUL"
    BY <1>7, <2>1
  <2> QED
    BY <1>5, <2>1, <2>2
<1>8. CASE zeros # {}
  <2>1. n + 1 \in zeros /\ \A i \in zeros : n < i
    BY <1>4, <1>6, <1>8
  <2>2. \A i \in 1..n : s[i] # "NUL"
    BY <1>5, <2>1
  <2> QED
    BY <1>5, <2>1, <2>2
<1> QED
  BY <1>7, <1>8

\* What a part of a sequence is.
LEMMA PartOf ==
  ASSUME NEW S, NEW s \in Seq(S), NEW a \in Nat \ {0}, NEW b \in Nat, a <= b + 1, b <= Len(s)
  PROVE  /\ SubSeq(s, a, b) \in Seq(S) /\ Len(SubSeq(s, a, b)) = b - a + 1
         /\ \A q \in 1..(b - a + 1) : SubSeq(s, a, b)[q] = s[a + q - 1]
<1>1. SubSeq(s, a, b) \in Seq(S)
  OBVIOUS
<1>2. Len(SubSeq(s, a, b)) = b - a + 1
  OBVIOUS
<1>3. ASSUME NEW q \in 1..(b - a + 1) PROVE SubSeq(s, a, b)[q] = s[a + q - 1]
  OBVIOUS
<1> QED
  BY <1>1, <1>2, <1>3

\* Of the piece behind n bytes the text before the first zero is sent.
LEMMA SentOfPiece ==
  ASSUME NEW path \in DOMAIN Files, NEW k \in Nat, NEW n \in Nat, n = k * MAXDATASIZE,
         n <= Len(Files[path]), NEW t,
         t = Text(SubSeq(Files[path], n + 1, Smaller(n + MAXDATASIZE, Len(Files[path]))))
  PROVE  /\ t \in Seq(STRING) /\ n + Len(t) <= Len(Files[path]) /\ Len(t) <= MAXDATASIZE
         /\ \A q \in 1..Len(t) : t[q] = Files[path][n + q]
         /\ {j \in Sent(path) : n < j /\ j <= n + MAXDATASIZE} = (n + 1)..(n + Len(t))
<1> DEFINE f == Files[path]
           end == Smaller(n + MAXDATASIZE, Len(f))
           s == SubSeq(f, n + 1, end)
<1>0. MAXDATASIZE \in Nat \ {0} /\ f \in Seq(STRING) /\ Len(f) \in Nat
  BY HttpServerAssumption, FileTyped
<1>1. end \in Nat /\ n <= end /\ end <= Len(f) /\ end <= n + MAXDATASIZE
      /\ (end = Len(f) \/ end = n + MAXDATASIZE)
  BY <1>0 DEF Smaller
<1> HIDE DEF f, end
<1>2. /\ s \in Seq(STRING) /\ Len(s) = end - n
      /\ \A q \in 1..Len(s) : s[q] = f[n + q]
  <2>1. n + 1 \in Nat \ {0} /\ n + 1 <= end + 1 /\ end - (n + 1) + 1 = end - n
    BY <1>1
  <2>2. /\ s \in Seq(STRING) /\ Len(s) = end - n
        /\ \A q \in 1..(end - n) : s[q] = f[n + 1 + q - 1]
    BY <1>0, <1>1, <2>1, PartOf
  <2>3. \A q \in 1..(end - n) : n + 1 + q - 1 = n + q
    BY <1>1
  <2> HIDE DEF s
  <2> QED
    BY <2>2, <2>3
<1> HIDE DEF s
<1>3. PICK m \in 0..Len(s) :
        /\ Text(s) = SubSeq(s, 1, m)
        /\ \A i \in 1..m : s[i] # "NUL"
        /\ m < Len(s) => s[m + 1] = "NUL"
  BY <1>2, TextFact
<1>4. t = SubSeq(s, 1, m)
  BY <1>3 DEF s, end, f
<1>5. m \in Nat /\ m <= end - n
  BY <1>1, <1>2
<1>6. t \in Seq(STRING) /\ Len(t) = m /\ \A q \in 1..m : t[q] = s[q]
  <2> DEFINE a == 1
  <2>1. a \in Nat \ {0} /\ m \in Nat /\ a <= m + 1 /\ m <= Len(s) /\ s \in Seq(STRING)
    BY <1>1, <1>2, <1>5
  <2>2. m - a + 1 = m /\ \A q \in 1..m : a + q - 1 = q
    BY <1>5
  <2>3. t = SubSeq(s, a, m)
    BY <1>4
  <2> HIDE DEF a
  <2>4. /\ SubSeq(s, a, m) \in Seq(STRING) /\ Len(SubSeq(s, a, m)) = m - a + 1
        /\ \A q \in 1..(m - a + 1) : SubSeq(s, a, m)[q] = s[a + q - 1]
    BY <2>1, PartOf
  <2> QED
    BY <2>2, <2>3, <2>4
<1>7. \A q \in 1..m : q \in 1..Len(s) /\ s[q] = f[n + q]
  BY <1>2, <1>5
<1>8. ASSUME NEW i \in Nat \ {0} PROVE Piece(i) = k <=> (n < i /\ i <= n + MAXDATASIZE)
  BY PieceFact
<1>9. ASSUME NEW j \in (n + 1)..(n + m) PROVE j \in Sent(path) /\ n < j /\ j <= n + MAXDATASIZE
  <2>1. j \in Nat \ {0} /\ n < j /\ j <= n + MAXDATASIZE /\ j \in 1..Len(f)
    BY <1>0, <1>1, <1>5
  <2>2. Piece(j) = k
    BY <1>8, <2>1
  <2>3. ASSUME NEW i \in 1..j, Piece(i) = Piece(j) PROVE f[i] # "NUL"
    <3>1. i \in Nat \ {0} /\ n < i
      BY <1>8, <2>2, <2>3
    <3>2. i - n \in 1..m /\ n + (i - n) = i
      BY <1>5, <3>1
    <3> QED
      BY <1>3, <1>7, <3>2, ZenonT(40)
  <2> QED
    BY <2>1, <2>3 DEF Sent, f
<1>10. ASSUME NEW j \in Sent(path), n < j, j <= n + MAXDATASIZE PROVE j \in (n + 1)..(n + m)
  <2>1. j \in 1..Len(f) /\ j \in Nat \ {0}
    BY DEF Sent, f
  <2>2. Piece(j) = k
    BY <1>8, <1>10, <2>1
  <2>3. j <= n + m
    <3> SUFFICES ASSUME n + m < j PROVE FALSE
      BY <1>5, <2>1
    <3>1. j <= end
      BY <1>0, <1>1, <1>10, <2>1
    <3>2. m < Len(s) /\ m + 1 \in 1..Len(s)
      BY <1>1, <1>2, <1>5, <2>1, <3>1, SMTT(30)
    <3>3. f[n + (m + 1)] = "NUL"
      BY <1>2, <1>3, <3>2
    <3>4. /\ n + (m + 1) \in Nat \ {0} /\ n + (m + 1) \in 1..j
          /\ n < n + (m + 1) /\ n + (m + 1) <= n + MAXDATASIZE
      BY <1>0, <1>1, <1>5, <1>10, <2>1, <3>1
    <3>5. Piece(n + (m + 1)) = k
      BY <1>8, <3>4
    <3> QED
      BY <2>2, <3>3, <3>4, <3>5 DEF Sent, f
  <2> QED
    BY <1>5, <1>10, <2>1, <2>3
<1>11. {j \in Sent(path) : n < j /\ j <= n + MAXDATASIZE} = (n + 1)..(n + m)
  BY <1>9, <1>10
<1>12. \A q \in 1..m : t[q] = f[n + q]
  BY <1>6, <1>7
<1>13. n + m <= Len(f) /\ m <= MAXDATASIZE
  BY <1>0, <1>1, <1>5
<1> QED
  BY <1>6, <1>11, <1>12, <1>13 DEF f

\* The places are counted.
LEMMA PlaceTyped ==
  ASSUME NEW path \in DOMAIN Files, NEW n \in Nat
  PROVE  /\ Sent(path) \subseteq Nat \ {0} /\ IsFiniteSet(Sent(path))
         /\ IsFiniteSet({j \in Sent(path) : j <= n})
         /\ Place(path, n) \in Nat /\ Place(path, n) <= Cardinality(Sent(path))
         /\ Cardinality(Sent(path)) \in Nat
         /\ n >= Len(Files[path]) => Place(path, n) = Cardinality(Sent(path))
         /\ n = 0 => Place(path, n) = 0
<1> DEFINE A == {j \in Sent(path) : j <= n}
<1>1. Len(Files[path]) \in Nat
  BY FileTyped
<1>2. Sent(path) \subseteq 1..Len(Files[path])
  BY DEF Sent
<1>3. Sent(path) \subseteq Nat \ {0}
  BY <1>1, <1>2
<1>4. IsFiniteSet(1..Len(Files[path]))
  BY <1>1, FS_Interval
<1>5. IsFiniteSet(Sent(path))
  BY <1>2, <1>4, FS_Subset
<1>6. A \in SUBSET Sent(path)
  OBVIOUS
<1>7. IsFiniteSet(A) /\ Cardinality(A) <= Cardinality(Sent(path))
  BY <1>5, <1>6, FS_Subset
<1>8. Cardinality(A) \in Nat /\ Cardinality(Sent(path)) \in Nat
  BY <1>5, <1>7, FS_CardinalityType
<1>9. n >= Len(Files[path]) => A = Sent(path)
  BY <1>1, <1>2
<1>10. n = 0 => A = {}
  BY <1>3
<1>11. Cardinality({}) = 0
  BY FS_EmptySet
<1>12. Place(path, n) = Cardinality(A)
  BY DEF Place
<1> HIDE DEF A
<1>13. IsFiniteSet({j \in Sent(path) : j <= n})
  BY <1>7 DEF A
<1> QED
  BY <1>3, <1>5, <1>7, <1>8, <1>9, <1>10, <1>11, <1>12, <1>13

\* A place between two others, one of which is sent, counts.
LEMMA PlaceGrows ==
  ASSUME NEW path \in DOMAIN Files, NEW a \in Nat, NEW b \in Sent(path), a < b
  PROVE  Place(path, a) < Place(path, b)
<1> DEFINE A == {j \in Sent(path) : j <= a}
           B == {j \in Sent(path) : j <= b}
<1>1. b \in Nat /\ Sent(path) \subseteq Nat \ {0}
  BY PlaceTyped
<1>2. IsFiniteSet(A) /\ IsFiniteSet(B)
  BY <1>1, PlaceTyped
<1>3. A \in SUBSET B
  BY <1>1
<1>4. b \in B /\ b \notin A
  BY <1>1
<1>5. Cardinality(A) \in Nat /\ Cardinality(B) \in Nat
  BY <1>2, FS_CardinalityType
<1> HIDE DEF A, B
<1>6. Cardinality(A) <= Cardinality(B) /\ (Cardinality(A) = Cardinality(B) => A = B)
  BY <1>2, <1>3, FS_Subset
<1>7. Cardinality(A) < Cardinality(B)
  BY <1>4, <1>5, <1>6
<1>8. Place(path, a) = Cardinality(A) /\ Place(path, b) = Cardinality(B)
  BY DEF Place, A, B
<1> QED
  BY <1>7, <1>8

\* The byte at its place in what is expected.
LEMMA ExpectedAt ==
  ASSUME NEW path \in DOMAIN Files, NEW i \in Sent(path)
  PROVE  /\ Place(path, i) \in 1..Cardinality(Sent(path))
         /\ Expected(path)[Place(path, i)] = Files[path][i]
<1>1. Sent(path) \subseteq Nat \ {0} /\ Cardinality(Sent(path)) \in Nat
  BY PlaceTyped
<1>2. /\ Place(path, i) \in Nat /\ Place(path, i) <= Cardinality(Sent(path))
      /\ Place(path, 0) = 0
  BY <1>1, PlaceTyped
<1>3. Place(path, 0) < Place(path, i)
  BY <1>1, PlaceGrows
<1>4. Place(path, i) \in 1..Cardinality(Sent(path))
  BY <1>1, <1>2, <1>3
<1>5. ASSUME NEW j \in Sent(path), Place(path, j) = Place(path, i) PROVE j = i
  <2>1. j \in Nat /\ i \in Nat /\ Place(path, j) \in Nat /\ Place(path, i) \in Nat
    BY <1>1, PlaceTyped
  <2>2. i < j => Place(path, i) < Place(path, j)
    BY <2>1, PlaceGrows
  <2>3. j < i => Place(path, j) < Place(path, i)
    BY <2>1, PlaceGrows
  <2> QED
    BY <1>5, <2>1, <2>2, <2>3
<1>6. (CHOOSE j \in Sent(path) : Place(path, j) = Place(path, i)) = i
  BY <1>5
<1>7. Expected(path) =
        [k \in 1..Cardinality(Sent(path)) |->
           Files[path][CHOOSE j \in Sent(path) : Place(path, j) = k]]
  BY ExpectedBytes
<1> QED
  BY <1>4, <1>6, <1>7

\* The next piece of the file is the next of what is expected.
LEMMA BodyGrows ==
  ASSUME NEW path \in DOMAIN Files, NEW k \in Nat, NEW n \in Nat, n = k * MAXDATASIZE,
         n <= Len(Files[path]), NEW t,
         t = Text(SubSeq(Files[path], n + 1, Smaller(n + MAXDATASIZE, Len(Files[path]))))
  PROVE  /\ t \in Seq(STRING)
         /\ Place(path, n + MAXDATASIZE) = Place(path, n) + Len(t)
         /\ \A q \in 1..Len(t) : Expected(path)[Place(path, n) + q] = t[q]
<1>0. MAXDATASIZE \in Nat \ {0}
  BY HttpServerAssumption
<1>1. /\ t \in Seq(STRING) /\ n + Len(t) <= Len(Files[path]) /\ Len(t) <= MAXDATASIZE
      /\ \A q \in 1..Len(t) : t[q] = Files[path][n + q]
      /\ {j \in Sent(path) : n < j /\ j <= n + MAXDATASIZE} = (n + 1)..(n + Len(t))
  BY SentOfPiece
<1>2. Len(t) \in Nat
  BY <1>1
<1>3. Sent(path) \subseteq Nat \ {0}
  BY PlaceTyped
<1>4. ASSUME NEW m \in Nat, NEW q \in Nat, n + q <= m, m <= n + MAXDATASIZE,
             q <= Len(t), q = Len(t) \/ m = n + q
      PROVE  Place(path, m) = Place(path, n) + q
  <2> DEFINE A == {j \in Sent(path) : j <= n}
             B == {j \in Sent(path) : j <= m}
             C == (n + 1)..(n + q)
  <2>1. B = A \cup C
    <3>1. ASSUME NEW j \in B PROVE j \in A \cup C
      <4>1. j \in Nat /\ j \in Sent(path) /\ j <= m
        BY <1>3
      <4>2. n < j => j \in (n + 1)..(n + Len(t))
        BY <1>0, <1>1, <1>4, <4>1
      <4> QED
        BY <1>2, <1>4, <4>1, <4>2
    <3>2. ASSUME NEW j \in C PROVE j \in B
      <4>1. j \in (n + 1)..(n + Len(t)) /\ j <= m
        BY <1>2, <1>4
      <4> QED
        BY <1>1, <4>1
    <3>3. \A j \in A : j \in B
      BY <1>3, <1>4
    <3> QED
      BY <3>1, <3>2, <3>3
  <2>2. A \cap C = {}
    BY <1>3
  <2>3. IsFiniteSet(A) /\ Cardinality(A) \in Nat
    BY PlaceTyped DEF Place
  <2>4. IsFiniteSet(C) /\ Cardinality(C) = q
    <3>1. n + 1 \in Int /\ n + q \in Int
      BY <1>4
    <3> DEFINE a == n + 1
               b == n + q
    <3>2. a \in Int /\ b \in Int
      BY <3>1
    <3>3. (IF a > b THEN 0 ELSE b - a + 1) = q
      BY <1>4
    <3> HIDE DEF a, b
    <3>4. IsFiniteSet(a..b) /\ Cardinality(a..b) = IF a > b THEN 0 ELSE b - a + 1
      BY <3>2, FS_Interval
    <3>5. IsFiniteSet(a..b) /\ Cardinality(a..b) = q
      BY <3>3, <3>4
    <3> QED
      BY <3>5 DEF a, b
  <2> HIDE DEF A, B, C
  <2>5. Cardinality(A \cup C) = Cardinality(A) + Cardinality(C) - Cardinality(A \cap C)
    BY <2>3, <2>4, FS_Union
  <2>6. Cardinality({}) = 0
    BY FS_EmptySet
  <2>7. Cardinality(A \cup C) = Cardinality(A) + Cardinality(C) - 0
    BY <2>2, <2>5, <2>6
  <2>8. Cardinality(A \cup C) = Cardinality(A) + q
    BY <1>4, <2>3, <2>4, <2>7
  <2>9. Cardinality(B) = Cardinality(A) + q
    BY <2>1, <2>8
  <2> QED
    BY <2>9 DEF Place, A, B
<1>5. Place(path, n + MAXDATASIZE) = Place(path, n) + Len(t)
  BY <1>0, <1>1, <1>2, <1>4
<1>6. ASSUME NEW q \in 1..Len(t) PROVE Expected(path)[Place(path, n) + q] = t[q]
  <2>1. q \in Nat /\ n + q \in Nat /\ q <= Len(t) /\ n + q <= n + MAXDATASIZE
    BY <1>0, <1>1, <1>2
  <2>2. Place(path, n + q) = Place(path, n) + q
    BY <1>4, <2>1
  <2>3. n + q \in Sent(path)
    <3>1. n + q \in (n + 1)..(n + Len(t))
      BY <1>2, <2>1
    <3> QED
      BY <1>1, <3>1
  <2>4. Expected(path)[Place(path, n + q)] = Files[path][n + q]
    BY <2>3, ExpectedAt
  <2> QED
    BY <1>1, <2>2, <2>4
<1> QED
  BY <1>1, <1>5, <1>6

-----------------------------------------------------------------------------
(* Streams.                                                                *)

\* Sequences are the same when their elements are.
LEMMA SameElements ==
  ASSUME NEW S, NEW s \in Seq(S), NEW t \in Seq(S), Len(s) = Len(t),
         \A i \in 1..Len(s) : s[i] = t[i]
  PROVE  s = t
OBVIOUS

\* A sequence of some things is one of more things.
LEMMA Widened ==
  ASSUME NEW S, NEW T, S \subseteq T, NEW s \in Seq(S)
  PROVE  s \in Seq(T)
<1>1. Len(s) \in Nat /\ s \in [1..Len(s) -> S]
  OBVIOUS
<1>2. s \in [1..Len(s) -> T]
  BY <1>1
<1> QED
  BY <1>1, <1>2

\* What concatenation is.
LEMMA Joined ==
  ASSUME NEW S, NEW s \in Seq(S), NEW t \in Seq(S), NEW u, u = s \o t
  PROVE  /\ u \in Seq(S) /\ Len(u) = Len(s) + Len(t)
         /\ \A i \in 1..Len(s) : u[i] = s[i]
         /\ \A q \in 1..Len(t) : u[Len(s) + q] = t[q]
OBVIOUS

\* A beginning of a sequence.
LEMMA Beginning ==
  ASSUME NEW S, NEW s \in Seq(S), NEW n \in Nat, n <= Len(s)
  PROVE  /\ SubSeq(s, 1, n) \in Seq(S) /\ Len(SubSeq(s, 1, n)) = n
         /\ \A i \in 1..n : SubSeq(s, 1, n)[i] = s[i]
OBVIOUS

\* The longest beginning is the sequence.
LEMMA WholeSequence ==
  ASSUME NEW S, NEW s \in Seq(S)
  PROVE  SubSeq(s, 1, Len(s)) = s
OBVIOUS

\* It grows by what comes next.
LEMMA BeginningGrows ==
  ASSUME NEW S, NEW s \in Seq(S), NEW t \in Seq(S), NEW a \in Nat, a + Len(t) <= Len(s),
         \A q \in 1..Len(t) : s[a + q] = t[q]
  PROVE  SubSeq(s, 1, a) \o t = SubSeq(s, 1, a + Len(t))
<1> DEFINE h == SubSeq(s, 1, a)
           g == SubSeq(s, 1, a + Len(t))
           u == h \o t
<1>1. Len(t) \in Nat /\ Len(s) \in Nat /\ a <= Len(s)
  OBVIOUS
<1>2. h \in Seq(S) /\ Len(h) = a /\ \A i \in 1..a : h[i] = s[i]
  BY <1>1, Beginning
<1>3. /\ g \in Seq(S) /\ Len(g) = a + Len(t)
      /\ \A i \in 1..(a + Len(t)) : g[i] = s[i]
  BY <1>1, Beginning
<1> HIDE DEF h, g
<1>4. /\ u \in Seq(S) /\ Len(u) = Len(h) + Len(t)
      /\ \A i \in 1..Len(h) : u[i] = h[i]
      /\ \A q \in 1..Len(t) : u[Len(h) + q] = t[q]
  <2>1. h \in Seq(S) /\ t \in Seq(S) /\ u = h \o t
    BY <1>2
  <2> HIDE DEF u
  <2> QED
    BY <2>1, Joined
<1> HIDE DEF u
<1>5. ASSUME NEW i \in 1..(a + Len(t)) PROVE u[i] = g[i]
  <2>1. CASE i \in 1..a
    BY <1>2, <1>3, <1>4, <2>1
  <2>2. CASE i \notin 1..a
    <3>1. i - a \in 1..Len(t) /\ a + (i - a) = i
      BY <1>1, <2>2
    <3>2. u[i] = t[i - a] /\ s[i] = t[i - a]
      BY <1>2, <1>4, <3>1
    <3> QED
      BY <1>3, <3>2
  <2> QED
    BY <2>1, <2>2
<1>6. Len(u) = Len(g)
  BY <1>2, <1>3, <1>4
<1>7. u = g
  BY <1>3, <1>4, <1>5, <1>6, SameElements
<1> QED
  BY <1>7 DEF u, h, g

\* What is taken off a stream and what is left of it.
LEMMA TakenAndLeft ==
  ASSUME NEW S, NEW s \in Seq(S), NEW n \in Nat, n <= Len(s)
  PROVE  /\ Drop(s, n) \in Seq(S) /\ Len(Drop(s, n)) = Len(s) - n
         /\ \A q \in 1..(Len(s) - n) : Drop(s, n)[q] = s[n + q]
         /\ SubSeq(s, 1, n) \o Drop(s, n) = s
<1> DEFINE d == Drop(s, n)
<1>1. Len(s) \in Nat /\ n + 1 \in Nat \ {0} /\ n + 1 <= Len(s) + 1 /\ Len(s) <= Len(s)
  OBVIOUS
<1>2. /\ d \in Seq(S) /\ Len(d) = Len(s) - (n + 1) + 1
      /\ \A q \in 1..(Len(s) - (n + 1) + 1) : d[q] = s[n + 1 + q - 1]
  BY <1>1, PartOf DEF Drop
<1>3. Len(s) - (n + 1) + 1 = Len(s) - n /\ \A q \in 1..(Len(s) - n) : n + 1 + q - 1 = n + q
  BY <1>1
<1>4. d \in Seq(S) /\ Len(d) = Len(s) - n /\ \A q \in 1..(Len(s) - n) : d[q] = s[n + q]
  BY <1>2, <1>3
<1> HIDE DEF d
<1>5. n + Len(d) = Len(s) /\ \A q \in 1..Len(d) : s[n + q] = d[q]
  BY <1>1, <1>4
<1>6. SubSeq(s, 1, n) \o d = SubSeq(s, 1, n + Len(d))
  BY <1>1, <1>4, <1>5, BeginningGrows
<1>7. SubSeq(s, 1, Len(s)) = s
  OBVIOUS
<1>8. SubSeq(s, 1, n) \o d = s
  BY <1>5, <1>6, <1>7
<1> QED
  BY <1>4, <1>8 DEF d

\* The first part of a beginning is a beginning.
LEMMA FirstOfBeginning ==
  ASSUME NEW S, NEW s \in Seq(S), NEW m \in Nat, m <= Len(s),
         NEW o \in Seq(S), NEW r \in Seq(S), o \o r = SubSeq(s, 1, m)
  PROVE  Len(o) \in 0..Len(s) /\ o = SubSeq(s, 1, Len(o))
<1>1. Len(o) \in Nat /\ Len(r) \in Nat /\ Len(s) \in Nat
  OBVIOUS
<1> DEFINE u == SubSeq(s, 1, m)
<1>2. u \in Seq(S) /\ Len(u) = m /\ \A i \in 1..m : u[i] = s[i]
  BY Beginning
<1>3. u = o \o r
  OBVIOUS
<1> HIDE DEF u
<1>4. /\ Len(u) = Len(o) + Len(r)
      /\ \A i \in 1..Len(o) : u[i] = o[i]
  BY <1>3, Joined
<1>5. Len(o) <= m /\ \A i \in 1..Len(o) : o[i] = s[i]
  BY <1>1, <1>2, <1>4
<1> DEFINE b == SubSeq(s, 1, Len(o))
<1>6. b \in Seq(S) /\ Len(b) = Len(o) /\ \A i \in 1..Len(o) : b[i] = s[i]
  BY <1>1, <1>5, Beginning
<1> HIDE DEF b
<1>7. o = b
  BY <1>5, <1>6, SameElements
<1> QED
  BY <1>1, <1>5, <1>7 DEF b

\* Three streams in a row.
LEMMA InARow ==
  ASSUME NEW S, NEW a \in Seq(S), NEW b \in Seq(S), NEW d \in Seq(S),
         NEW u, u = a \o b, NEW v, v = b \o d, NEW x, x = u \o d, NEW y, y = a \o v
  PROVE  x = y
<1>1. Len(a) \in Nat /\ Len(b) \in Nat /\ Len(d) \in Nat
  OBVIOUS
<1>2. /\ u \in Seq(S) /\ Len(u) = Len(a) + Len(b)
      /\ \A i \in 1..Len(a) : u[i] = a[i]
      /\ \A q \in 1..Len(b) : u[Len(a) + q] = b[q]
  BY Joined
<1>3. /\ v \in Seq(S) /\ Len(v) = Len(b) + Len(d)
      /\ \A i \in 1..Len(b) : v[i] = b[i]
      /\ \A q \in 1..Len(d) : v[Len(b) + q] = d[q]
  BY Joined
<1>4. /\ x \in Seq(S) /\ Len(x) = Len(u) + Len(d)
      /\ \A i \in 1..Len(u) : x[i] = u[i]
      /\ \A q \in 1..Len(d) : x[Len(u) + q] = d[q]
  <2>1. u \in Seq(S) /\ x = u \o d
    BY <1>2
  <2> QED
    BY <2>1, Joined
<1>5. /\ y \in Seq(S) /\ Len(y) = Len(a) + Len(v)
      /\ \A i \in 1..Len(a) : y[i] = a[i]
      /\ \A q \in 1..Len(v) : y[Len(a) + q] = v[q]
  <2>1. v \in Seq(S) /\ y = a \o v
    BY <1>3
  <2> QED
    BY <2>1, Joined
<1>6. Len(x) = Len(y) /\ Len(x) = Len(a) + Len(b) + Len(d)
  BY <1>1, <1>2, <1>3, <1>4, <1>5
<1>7. ASSUME NEW i \in 1..Len(x) PROVE x[i] = y[i]
  <2>1. CASE i \in 1..Len(a)
    <3>1. i \in 1..Len(u)
      BY <1>1, <1>2, <2>1
    <3> QED
      BY <1>2, <1>4, <1>5, <2>1, <3>1
  <2>2. CASE i - Len(a) \in 1..Len(b)
    <3> DEFINE q == i - Len(a)
    <3>1. q \in 1..Len(b) /\ i \in 1..Len(u) /\ q \in 1..Len(v) /\ i = Len(a) + q
      BY <1>1, <1>2, <1>3, <1>6, <2>2
    <3> HIDE DEF q
    <3>2. x[i] = b[q]
      BY <1>2, <1>4, <3>1
    <3>3. y[i] = b[q]
      BY <1>3, <1>5, <3>1
    <3> QED
      BY <3>2, <3>3
  <2>3. CASE i \notin 1..Len(a) /\ i - Len(a) \notin 1..Len(b)
    <3> DEFINE q == i - Len(a) - Len(b)
    <3>1. /\ q \in 1..Len(d) /\ i = Len(u) + q
          /\ Len(b) + q \in 1..Len(v) /\ i = Len(a) + (Len(b) + q)
      BY <1>1, <1>2, <1>3, <1>6, <2>3
    <3> HIDE DEF q
    <3>2. x[i] = d[q]
      BY <1>4, <3>1
    <3>3. y[i] = d[q]
      BY <1>3, <1>5, <3>1
    <3> QED
      BY <3>2, <3>3
  <2> QED
    BY <2>1, <2>2, <2>3
<1> QED
  BY <1>4, <1>5, <1>6, <1>7, SameElements

\* Concatenation and a beginning, by names that keep the provers from
\* rewriting them.
Join(s, t) == s \o t

Front(s, n) == SubSeq(s, 1, n)

\* The loop of the client moves bytes from the connection to its file.
LEMMA MovedOver ==
  ASSUME NEW S, NEW o \in Seq(S), NEW s \in Seq(S), NEW n \in Nat, n <= Len(s)
  PROVE  /\ Join(o, Front(s, n)) \in Seq(S) /\ Drop(s, n) \in Seq(S)
         /\ Join(Join(o, Front(s, n)), Drop(s, n)) = Join(o, s)
<1> DEFINE b == SubSeq(s, 1, n)
           d == Drop(s, n)
<1>1. b \in Seq(S)
  BY Beginning
<1>2. d \in Seq(S) /\ b \o d = s
  BY TakenAndLeft
<1> HIDE DEF b, d
<1>3. o \o b \in Seq(S)
  BY <1>1
<1> DEFINE x == (o \o b) \o d
           y == o \o s
<1>4. s = b \o d
  BY <1>2
<1>5. x = (o \o b) \o d /\ y = o \o s
  OBVIOUS
<1> HIDE DEF x, y
<1>6. x = y
  <2> DEFINE u == o \o b
  <2>1. u = o \o b /\ x = u \o d
    BY <1>5
  <2>2. b \in Seq(S) /\ d \in Seq(S) /\ y = o \o s
    BY <1>1, <1>2, <1>5
  <2> HIDE DEF u
  <2> QED
    BY <1>4, <2>1, <2>2, InARow, SMTT(30)
<1> QED
  BY <1>2, <1>3, <1>6 DEF b, d, x, y, Join, Front

\* An answer is a header, which has five tokens, and a body.
IsAnswer(S, x, h, b) ==
  /\ x \in Seq(S) /\ Len(x) = 5 + Len(b)
  /\ \A i \in 1..5 : x[i] = h[i]
  /\ \A q \in 1..Len(b) : x[5 + q] = b[q]

\* A header of five tokens and the body behind it.
LEMMA HeaderAndBody ==
  ASSUME NEW S, NEW h \in Seq(S), NEW b \in Seq(S), NEW x, x = Join(h, b)
  PROVE  Len(h) = 5 => IsAnswer(S, x, h, b)
<1> DEFINE P(k) == /\ x \in Seq(S) /\ Len(x) = k + Len(b)
                   /\ \A i \in 1..k : x[i] = h[i]
                   /\ \A q \in 1..Len(b) : x[k + q] = b[q]
<1>1. P(Len(h))
  BY Joined DEF Join
<1>2. Len(h) = 5 => P(5)
  <2> HIDE DEF P
  <2> QED
    BY <1>1
<1> QED
  BY <1>2 DEF IsAnswer

\* What a recv of n tokens, five of them a header, leaves for the file.
FirstText(x, n) == SubSeq(SubSeq(x, 1, n), 6, n)

\* A first recv that takes the whole header writes what comes behind it.
LEMMA BehindTheHeader ==
  ASSUME NEW S, NEW h, NEW b \in Seq(S), NEW x, IsAnswer(S, x, h, b),
         NEW n \in Nat, 5 <= n, n <= Len(x)
  PROVE  FirstText(x, n) \in Seq(S) /\ Drop(x, n) \in Seq(S) /\ Join(FirstText(x, n), Drop(x, n)) = b
<1>0. /\ x \in Seq(S) /\ Len(x) = 5 + Len(b)
      /\ \A q \in 1..Len(b) : x[5 + q] = b[q]
  BY DEF IsAnswer
<1>1. Len(b) \in Nat
  OBVIOUS
<1>2. /\ x \in Seq(S) /\ Len(x) \in Nat /\ Len(x) = 5 + Len(b)
      /\ \A q \in 1..Len(b) : x[5 + q] = b[q]
  BY <1>0, <1>1
<1> DEFINE f == SubSeq(x, 1, n)
           m == n - 5
           w == SubSeq(f, 6, n)
           g == SubSeq(b, 1, m)
           d == Drop(x, n)
           e == Drop(b, m)
<1>3. f \in Seq(S) /\ Len(f) = n /\ \A i \in 1..n : f[i] = x[i]
  BY <1>2, Beginning
<1> HIDE DEF f
<1>4. m \in Nat /\ m <= Len(b) /\ 5 + m = n
  BY <1>1, <1>2
<1>5. /\ w \in Seq(S) /\ Len(w) = m
      /\ \A q \in 1..m : w[q] = f[5 + q]
  <2> DEFINE six == 6
  <2>1. six \in Nat \ {0} /\ six <= n + 1 /\ n <= Len(f) /\ w = SubSeq(f, six, n)
    BY <1>3
  <2>2. n - six + 1 = m /\ \A q \in 1..m : six + q - 1 = 5 + q
    BY <1>4
  <2> HIDE DEF six, m, w
  <2>3. /\ w \in Seq(S) /\ Len(w) = n - six + 1
        /\ \A q \in 1..(n - six + 1) : w[q] = f[six + q - 1]
    BY <1>3, <2>1, PartOf
  <2> QED
    BY <2>2, <2>3
<1> HIDE DEF m, w
<1>6. g \in Seq(S) /\ Len(g) = m /\ \A i \in 1..m : g[i] = b[i]
  BY <1>4, Beginning
<1>7. /\ d \in Seq(S) /\ Len(d) = Len(x) - n
      /\ \A q \in 1..(Len(x) - n) : d[q] = x[n + q]
  BY <1>2, TakenAndLeft
<1>8. /\ e \in Seq(S) /\ Len(e) = Len(b) - m
      /\ \A q \in 1..(Len(b) - m) : e[q] = b[m + q]
      /\ g \o e = b
  BY <1>4, TakenAndLeft
<1> HIDE DEF d, e, g
<1>9. w = g
  <2>1. ASSUME NEW q \in 1..m PROVE w[q] = g[q]
    <3>1. q \in 1..Len(b) /\ 5 + q \in 1..n
      BY <1>1, <1>4
    <3> QED
      BY <1>2, <1>3, <1>5, <1>6, <3>1
  <2> QED
    BY <1>5, <1>6, <2>1, SameElements
<1>10. d = e
  <2>1. Len(x) - n = Len(b) - m
    <3>1. m = n - 5
      BY DEF m
    <3> QED
      BY <1>1, <1>2, <3>1
  <2>2. ASSUME NEW q \in 1..(Len(b) - m) PROVE d[q] = e[q]
    <3>1. q \in Nat /\ m + q \in 1..Len(b) /\ n + q = 5 + (m + q)
      BY <1>1, <1>4
    <3>2. x[n + q] = b[m + q]
      BY <1>2, <3>1
    <3> QED
      BY <1>7, <1>8, <2>1, <3>2
  <2> QED
    BY <1>7, <1>8, <2>1, <2>2, SameElements
<1>11. w \o d = b
  BY <1>8, <1>9, <1>10
<1>12. FirstText(x, n) = w /\ Drop(x, n) = d
  BY DEF FirstText, w, d, f
<1> QED
  BY <1>5, <1>7, <1>11, <1>12 DEF Join

\* The words of the headers.
Statuses == {"200 OK", "404 Not Found"}

Words == Statuses \cup {"CR", "LF", "Whoops"}

\* The header has five tokens, with its first CR and LF in the second and third place.
LEMMA HeaderFact ==
  ASSUME NEW S, Words \subseteq S, NEW status \in Statuses
  PROVE  /\ Header(status) \in Seq(S) /\ Len(Header(status)) = 5
         /\ Header(status)[1] # "LF" /\ Header(status)[2] = "CR"
         /\ Header(status)[3] = "LF" /\ Header(status)[4] = "CR"
<1>1. status # "LF"
  BY Zenon DEF Statuses
<1>2. status \in S /\ "CR" \in S /\ "LF" \in S
  <2>1. status \in Words /\ "CR" \in Words /\ "LF" \in Words
    BY Zenon DEF Words
  <2> QED
    BY <2>1
<1> QED
  BY <1>1, <1>2 DEF Header

\* The search for the end of the header finds it.
LEMMA EndOfHeader ==
  ASSUME NEW S, NEW buf \in Seq(S), Len(buf) >= 5,
         buf[1] # "LF", buf[2] = "CR", buf[3] = "LF", buf[4] = "CR"
  PROVE  HeaderEnds(buf) # {} /\ pos(buf) = 6
<1> DEFINE l == Len(buf) - 1
<1>1. buf[1] # "LF" /\ buf[2] # "LF" /\ buf[3] = "LF" /\ buf[4] = "CR"
  OBVIOUS
<1>2. l \in Nat /\ l >= 4
  OBVIOUS
<1>3. HeaderEnds(buf) = {i \in 1..l : buf[i] = "LF" /\ buf[i + 1] = "CR"}
  BY DEF HeaderEnds
<1> HIDE DEF l
<1>4. 3 \in HeaderEnds(buf)
  <2>1. 3 \in 1..l /\ 3 + 1 = 4
    BY <1>2
  <2> QED
    BY <1>1, <1>3, <2>1
<1>5. 1 \notin HeaderEnds(buf) /\ 2 \notin HeaderEnds(buf)
  BY <1>1, <1>3
<1>6. ASSUME NEW j \in HeaderEnds(buf) PROVE j \in Nat /\ 3 <= j
  <2>1. j \in 1..l /\ j # 1 /\ j # 2
    BY <1>3, <1>5
  <2> QED
    BY <1>2, <2>1
<1>7. FirstOf(HeaderEnds(buf)) = 3
  <2> DEFINE E == HeaderEnds(buf)
             P(i) == \A j \in E : i <= j
  <2>1. 3 \in E /\ P(3)
    BY <1>4, <1>6
  <2>2. \A i \in E : P(i) => i = 3
    BY <1>4, <1>6
  <2>3. FirstOf(E) = CHOOSE i \in E : P(i)
    BY DEF FirstOf
  <2> HIDE DEF E, P
  <2>4. FirstOf(E) = 3
    BY <2>1, <2>2, <2>3
  <2> QED
    BY <2>4 DEF E
<1> QED
  BY <1>4, <1>7 DEF pos

-----------------------------------------------------------------------------
(* The invariant of the streams.                                           *)

\* What a client is to get, how many bytes of it are in the first n bytes of
\* the file (a file that is not there is answered at once), and what the
\* child has sent so far.
Body(c) == Expected(path2file[c])

Upto(path, n) == IF path \in DOMAIN Files THEN Place(path, n) ELSE IF n = 0 THEN 0 ELSE 1

SentBody(c) == SubSeq(Body(c), 1, Upto(path2file[c], cnt[c]))

\* The tokens of the streams.
Tokens ==
  STRING \cup Words
  \cup UNION {{Expected(path)[k] : k \in DOMAIN Expected(path)} : path \in Paths}

\* A client has nothing before its child answers.
NothingYet(c) ==
  child[c] \in {"none", "recv", "first"} =>
    /\ toClient[c] = << >> /\ output[c] = << >> /\ cnt[c] = 0
    /\ cpc[c] \notin {"rest", "done"}

\* The child reads the file that was asked for, by whole pieces.
RightFile(c) ==
  /\ child[c] \in {"first", "rest"} => file[c] = path2file[c]
  /\ \E k \in Nat : cnt[c] = k * MAXDATASIZE
  /\ child[c] = "rest" => cnt[c] # 0

\* What was sent is with the client or on its way there, behind the header
\* until the client has got past that; it is everything when the child is gone.
OnItsWay(c) ==
  child[c] \in {"rest", "zombie", "reaped"} /\ cpc[c] \notin Ended =>
    /\ cpc[c] = "rest" => output[c] \o toClient[c] = SentBody(c)
    /\ cpc[c] # "rest" =>
         \E status \in Statuses : toClient[c] = Header(status) \o SentBody(c)
    /\ child[c] # "rest" => SentBody(c) = Body(c)

\* What was written is a beginning of what was to be.
Written(c) ==
  /\ \E n \in 0..Len(Body(c)) : output[c] = SubSeq(Body(c), 1, n)
  /\ cpc[c] = "done" => output[c] = Body(c)

StreamOK(c) ==
  /\ toClient[c] \in Seq(Tokens) /\ output[c] \in Seq(Tokens)
  /\ NothingYet(c) /\ RightFile(c) /\ OnItsWay(c) /\ Written(c)

StreamInv ==
  /\ toClient = [c \in Clients |-> toClient[c]]
  /\ output = [c \in Clients |-> output[c]]
  /\ \A c \in Clients \ cut : StreamOK(c)

\* What the streams carry are tokens.
LEMMA TokensFact == STRING \subseteq Tokens /\ Words \subseteq Tokens /\ "Whoops" \in Tokens
<1> DEFINE T == UNION {{Expected(path)[k] : k \in DOMAIN Expected(path)} : path \in Paths}
<1>1. Tokens = STRING \cup Words \cup T
  BY DEF Tokens
<1>2. "Whoops" \in Words
  BY Zenon DEF Words
<1> HIDE DEF T
<1> QED
  BY <1>1, <1>2

\* What is expected is a sequence, of which SentBody is a beginning.
LEMMA BodyTyped ==
  ASSUME TypeOK, NEW c \in Clients
  PROVE  /\ Body(c) \in Seq(Tokens)
         /\ path2file[c] \in DOMAIN Files => Len(Body(c)) = Cardinality(Sent(path2file[c]))
         /\ path2file[c] \notin DOMAIN Files => Body(c) = <<"Whoops">> /\ Len(Body(c)) = 1
<1> DEFINE path == path2file[c]
           b == Body(c)
           N == Cardinality(Sent(path))
<1>1. path \in Paths
  BY DEF TypeOK
<1>2. CASE path \in DOMAIN Files
  <2>1. N \in Nat
    BY <1>2, PlaceTyped
  <2>2. b = [k \in 1..N |-> Files[path][CHOOSE i \in Sent(path) : Place(path, i) = k]]
    BY <1>2, ExpectedBytes DEF Body
  <2>3. DOMAIN b = 1..N /\ b = [k \in 1..N |-> b[k]]
    BY <2>2
  <2>4. ASSUME NEW k \in 1..N PROVE b[k] \in Tokens
    <3> DEFINE T(p) == {Expected(p)[i] : i \in DOMAIN Expected(p)}
    <3>1. k \in DOMAIN Expected(path) /\ b = Expected(path)
      BY <2>3 DEF Body
    <3>2. b[k] \in T(path)
      BY <3>1
    <3>3. Tokens = STRING \cup Words \cup UNION {T(p) : p \in Paths}
      BY DEF Tokens
    <3> HIDE DEF T, b, path
    <3> QED
      BY <1>1, <3>2, <3>3
  <2> HIDE DEF b, N
  <2>5. b \in [1..N -> Tokens]
    BY <2>3, <2>4
  <2>6. b \in Seq(Tokens) /\ Len(b) = N
    BY <2>1, <2>5
  <2> QED
    BY <1>2, <2>6 DEF b, N
<1>3. CASE path \notin DOMAIN Files
  <2>1. b = <<"Whoops">>
    BY <1>3 DEF Body, Expected
  <2>2. "Whoops" \in Tokens
    BY TokensFact
  <2> QED
    BY <1>3, <2>1, <2>2
<1> QED
  BY <1>2, <1>3

\* How far the child has got.
LEMMA UptoTyped ==
  ASSUME TypeOK, NEW c \in Clients, NEW n \in Nat
  PROVE  Upto(path2file[c], n) \in Nat /\ Upto(path2file[c], n) <= Len(Body(c))
<1>1. CASE path2file[c] \in DOMAIN Files
  <2>1. Place(path2file[c], n) \in Nat /\ Place(path2file[c], n) <= Cardinality(Sent(path2file[c]))
    BY <1>1, PlaceTyped
  <2>2. Len(Body(c)) = Cardinality(Sent(path2file[c]))
    BY <1>1, BodyTyped
  <2> QED
    BY <1>1, <2>1, <2>2 DEF Upto
<1>2. CASE path2file[c] \notin DOMAIN Files
  <2>1. Len(Body(c)) = 1
    BY <1>2, BodyTyped
  <2> QED
    BY <1>2, <2>1 DEF Upto
<1> QED
  BY <1>1, <1>2

\* All that StreamOK speaks of.
view(c) == <<toClient[c], output[c], cnt[c], child[c], cpc[c], file[c], path2file[c]>>

\* The streams of a connection stay as they are when all they speak of does.
LEMMA SameView ==
  ASSUME NEW c \in Clients, StreamOK(c), UNCHANGED view(c)
  PROVE  StreamOK(c)'
BY DEF view, StreamOK, NothingYet, RightFile, OnItsWay, Written, Body, SentBody

\* At first nothing is sent.
LEMMA InitStream == Init => StreamInv
<1> SUFFICES ASSUME Init PROVE StreamInv
  OBVIOUS
<1>1. TypeOK
  BY InitInv DEF IInv
<1>2. /\ toClient = [c \in Clients |-> << >>] /\ output = [c \in Clients |-> << >>]
      /\ cut = {}
  BY DEF Init, TcpInit, HttpClientInit
<1>3. ASSUME NEW c \in Clients PROVE StreamOK(c)
  <2>1. /\ toClient[c] = << >> /\ output[c] = << >> /\ cnt[c] = 0
        /\ child[c] = "none" /\ cpc[c] = "connect"
    BY <1>2 DEF Init, HttpServerInit, HttpClientInit
  <2>2. << >> \in Seq(Tokens)
    OBVIOUS
  <2>3. Body(c) \in Seq(Tokens)
    BY <1>1, BodyTyped
  <2>4. Len(Body(c)) \in Nat /\ SubSeq(Body(c), 1, 0) = << >>
    BY <2>3
  <2>5. Written(c)
    BY <2>1, <2>4 DEF Written
  <2>6. RightFile(c)
    <3>1. 0 \in Nat /\ 0 = 0 * MAXDATASIZE
      BY HttpServerAssumption
    <3> QED
      BY <2>1, <3>1 DEF RightFile
  <2>7. NothingYet(c) /\ OnItsWay(c)
    BY <2>1 DEF NothingYet, OnItsWay
  <2> QED
    BY <2>1, <2>2, <2>5, <2>6, <2>7 DEF StreamOK
<1> QED
  BY <1>2, <1>3 DEF StreamInv

\* The parent forks and reaps, and touches no stream.
LEMMA ParentStream ==
  ASSUME IInv, Parent, UNCHANGED client, NEW c \in Clients \ cut', StreamOK(c)
  PROVE  c \notin cut /\ StreamOK(c)'
<1>1. UNCHANGED <<toClient, output, cnt, cpc, file, path2file, cut>>
  BY DEF Parent, Accept, Fork, ForkFails, CloseNewFd, TakeSignal, sigchld_handler, tcp, client
<1>2. \/ child'[c] = child[c]
      \/ child[c] = "none" /\ child'[c] = "recv"
      \/ child[c] = "zombie" /\ child'[c] = "reaped"
  <2>1. child \in [Clients -> {"none", "recv", "first", "rest", "zombie", "reaped"}]
    BY DEF IInv, TypeOK
  <2>2. pc = "fork" => child[new_fd] = "none"
    BY DEF IInv, AcceptedOK
  <2> QED
    BY <2>1, <2>2 DEF Parent, Accept, Fork, ForkFails, CloseNewFd, TakeSignal, sigchld_handler,
                      Zombies
<1> QED
  BY <1>1, <1>2 DEF StreamOK, NothingYet, RightFile, OnItsWay, Written, Body, SentBody

\* A child that is gone leaves the streams as they are.
LEMMA DieStream ==
  ASSUME NEW c \in Clients, StreamOK(c), Die(c), UNCHANGED client, TypeOK,
         child[c] \in {"recv", "first", "rest"},
         cpc[c] \in Ended \/ (child[c] = "rest" /\ SentBody(c) = Body(c))
  PROVE  StreamOK(c)'
<1>1. UNCHANGED <<toClient, output, cnt, cpc, file, path2file>> /\ child'[c] = "zombie"
  BY DEF Die, client, TypeOK
<1>2. NothingYet(c)' /\ RightFile(c)' /\ Written(c)'
  BY <1>1 DEF StreamOK, NothingYet, RightFile, Written, Body
<1>3. OnItsWay(c)'
  <2>1. SentBody(c)' = SentBody(c) /\ Body(c)' = Body(c)
    BY <1>1 DEF SentBody, Body
  <2>2. CASE cpc[c] \in Ended
    BY <1>1, <2>2 DEF OnItsWay
  <2>3. CASE cpc[c] \notin Ended
    <3>1. child[c] = "rest" /\ SentBody(c) = Body(c)
      BY <2>3
    <3> QED
      BY <1>1, <2>1, <2>3, <3>1 DEF OnItsWay, StreamOK
  <2> QED
    BY <2>2, <2>3
<1> QED
  BY <1>1, <1>2, <1>3 DEF StreamOK

\* What senddata sends of the file that was asked for.
LEMMA NextPiece ==
  ASSUME TypeOK, NEW c \in Clients, NEW k \in Nat, NEW n \in Nat, n = k * MAXDATASIZE,
         file[c] = path2file[c], path2file[c] \in DOMAIN Files, n <= Len(Files[path2file[c]])
  PROVE  /\ senddata(c, n) \in Seq(Tokens)
         /\ SubSeq(Body(c), 1, Upto(path2file[c], n)) \o senddata(c, n)
              = SubSeq(Body(c), 1, Upto(path2file[c], n + MAXDATASIZE))
<1> DEFINE path == path2file[c]
           t == senddata(c, n)
           a == Place(path, n)
           z == Place(path, n + MAXDATASIZE)
           b == Body(c)
<1>0. MAXDATASIZE \in Nat \ {0} /\ n + MAXDATASIZE \in Nat
  BY HttpServerAssumption
<1>1. t = Text(SubSeq(Files[path], n + 1, Smaller(n + MAXDATASIZE, Len(Files[path]))))
  BY DEF senddata, string
<1> HIDE DEF t
<1>2. /\ t \in Seq(STRING)
      /\ z = a + Len(t)
      /\ \A q \in 1..Len(t) : b[a + q] = t[q]
  BY <1>1, BodyGrows DEF Body
<1>3. t \in Seq(Tokens) /\ Len(t) \in Nat
  <2>1. STRING \subseteq Tokens /\ t \in Seq(STRING)
    BY <1>2, TokensFact
  <2>2. t \in Seq(Tokens)
    BY <2>1, Widened, Zenon
  <2> QED
    BY <2>2
<1>4. Upto(path, n) = a /\ Upto(path, n + MAXDATASIZE) = z
  BY DEF Upto
<1>5. b \in Seq(Tokens)
  BY BodyTyped
<1>6. a \in Nat /\ z <= Len(b)
  BY <1>0, <1>4, UptoTyped
<1> HIDE DEF a, z, b
<1>7. SubSeq(b, 1, a) \o t = SubSeq(b, 1, a + Len(t))
  BY <1>2, <1>3, <1>5, <1>6, BeginningGrows
<1>8. SubSeq(b, 1, a) \o t = SubSeq(b, 1, z)
  BY <1>2, <1>7
<1> QED
  BY <1>3, <1>4, <1>8 DEF t, b

\* What the child sends is behind what it has sent already.
LEMMA GoneOn ==
  ASSUME TypeOK, NEW c \in Clients, NEW data, SendAndGoOn(c, data), UNCHANGED client,
         toClient = [x \in Clients |-> toClient[x]]
  PROVE  /\ toClient'[c] = IF c \in left THEN toClient[c] ELSE toClient[c] \o data
         /\ child'[c] = "rest" /\ cnt'[c] = cnt[c] + MAXDATASIZE
         /\ UNCHANGED <<output, cpc, file, path2file, left>>
         /\ c \in left <=> cpc[c] \in Ended
<1>1. /\ toClient' = [toClient EXCEPT ![c] = IF c \in left THEN @ ELSE @ \o data]
      /\ cnt' = [cnt EXCEPT ![c] = @ + MAXDATASIZE]
      /\ child' = [child EXCEPT ![c] = "rest"]
      /\ UNCHANGED <<output, cpc, file, path2file, left>>
  BY DEF SendAndGoOn, Write, client
<1>2. /\ cnt = [x \in Clients |-> cnt[x]] /\ child = [x \in Clients |-> child[x]]
      /\ c \in left <=> cpc[c] \in Ended
  BY DEF TypeOK
<1> QED
  BY <1>1, <1>2

\* The count and the file after it.
LEMMA GoneOnFile ==
  ASSUME TypeOK, NEW c \in Clients, RightFile(c), child[c] \in {"first", "rest"},
         child'[c] = "rest", cnt'[c] = cnt[c] + MAXDATASIZE, UNCHANGED <<file, path2file>>
  PROVE  RightFile(c)'
<1>0. MAXDATASIZE \in Nat \ {0}
  BY HttpServerAssumption
<1>1. PICK k \in Nat : cnt[c] = k * MAXDATASIZE
  BY DEF RightFile
<1>2. k + 1 \in Nat /\ cnt'[c] = (k + 1) * MAXDATASIZE
  BY <1>0, <1>1, SMTT(60)
<1>3. cnt[c] \in Nat /\ cnt'[c] # 0
  BY <1>0 DEF TypeOK
<1>4. \E j \in Nat : cnt'[c] = j * MAXDATASIZE
  BY <1>2
<1>5. file'[c] = path2file'[c]
  BY DEF RightFile
<1> QED
  BY <1>3, <1>4, <1>5 DEF RightFile

\* The answer, whose body is the first piece.
LEMMA FirstAnswer ==
  ASSUME IInv, NEW c \in Clients \ cut', StreamOK(c), SendFirst(c), UNCHANGED client,
         toClient = [x \in Clients |-> toClient[x]]
  PROVE  StreamOK(c)'
<1> DEFINE path == path2file[c]
           b == Body(c)
<1>0. MAXDATASIZE \in Nat \ {0} /\ TypeOK
  BY HttpServerAssumption DEF IInv
<1>1. child[c] = "first" /\ SendAndGoOn(c, response(c))
  BY DEF SendFirst
<1>2. /\ toClient[c] = << >> /\ output[c] = << >> /\ cnt[c] = 0
      /\ cpc[c] \notin {"rest", "done"} /\ file[c] = path
  BY <1>1 DEF StreamOK, NothingYet, RightFile
<1>3. /\ toClient'[c] = IF c \in left THEN toClient[c] ELSE toClient[c] \o response(c)
      /\ child'[c] = "rest" /\ cnt'[c] = cnt[c] + MAXDATASIZE
      /\ UNCHANGED <<output, cpc, file, path2file, left>>
      /\ c \in left <=> cpc[c] \in Ended
  BY <1>0, <1>1, GoneOn
<1>4. RightFile(c)'
  BY <1>0, <1>1, <1>3, GoneOnFile DEF StreamOK
<1>5. NothingYet(c)' /\ Written(c)' /\ output'[c] \in Seq(Tokens)
  BY <1>3 DEF StreamOK, NothingYet, Written, Body
<1>6. b \in Seq(Tokens) /\ Upto(path, 0) \in Nat /\ Upto(path, 0) <= Len(b)
  BY <1>0, BodyTyped, UptoTyped
<1>7. Upto(path, 0) = 0
  BY PlaceTyped DEF Upto
<1>8. SubSeq(b, 1, 0) = << >>
  BY <1>6
<1>9. cnt'[c] = MAXDATASIZE /\ 0 + MAXDATASIZE = MAXDATASIZE
  BY <1>0, <1>2, <1>3
<1>10. SentBody(c)' = SubSeq(b, 1, Upto(path, MAXDATASIZE)) /\ Body(c)' = b
  BY <1>3, <1>9 DEF SentBody, Body
<1>11. path # BadRequest
  BY <1>0, HttpServerAssumption DEF TypeOK
<1>12. \E status \in Statuses : response(c) = Header(status) \o SentBody(c)' /\ SentBody(c)' \in Seq(Tokens)
  <2>1. CASE path \in DOMAIN Files
    <3> DEFINE t == senddata(c, 0)
    <3>1. 0 = 0 * MAXDATASIZE /\ 0 \in Nat /\ 0 <= Len(Files[path])
      BY <1>0, <2>1, FileTyped
    <3>2. /\ t \in Seq(Tokens)
          /\ SubSeq(b, 1, Upto(path, 0)) \o t = SubSeq(b, 1, Upto(path, 0 + MAXDATASIZE))
      BY <1>0, <1>2, <2>1, <3>1, NextPiece
    <3> HIDE DEF t
    <3>3. << >> \o t = t
      BY <3>2
    <3>4. t = SentBody(c)'
      BY <1>7, <1>8, <1>9, <1>10, <3>2, <3>3
    <3>5. response(c) = Header("200 OK") \o t
      BY <1>2, <1>11, <2>1, Zenon DEF response, t
    <3>6. "200 OK" \in Statuses
      BY Zenon DEF Statuses
    <3> QED
      BY <3>2, <3>4, <3>5, <3>6, Zenon
  <2>2. CASE path \notin DOMAIN Files
    <3>1. b = <<"Whoops">>
      BY <1>0, <2>2, BodyTyped
    <3>2. Upto(path, MAXDATASIZE) = 1
      BY <1>0, <2>2 DEF Upto
    <3>3. SentBody(c)' = b
      <4>1. Len(b) = 1
        BY <1>0, <2>2, BodyTyped
      <4> HIDE DEF b
      <4>2. SubSeq(b, 1, Len(b)) = b
        BY <1>6, WholeSequence
      <4> QED
        BY <1>10, <3>2, <4>1, <4>2
    <3>4. response(c) = Header("404 Not Found") \o <<"Whoops">>
      BY <1>2, <1>11, <2>2, Zenon DEF response
    <3>5. "404 Not Found" \in Statuses
      BY Zenon DEF Statuses
    <3> QED
      BY <1>6, <3>1, <3>3, <3>4, <3>5, Zenon
  <2> QED
    BY <2>1, <2>2
<1>13. PICK status \in Statuses :
         response(c) = Header(status) \o SentBody(c)' /\ SentBody(c)' \in Seq(Tokens)
  BY <1>12
<1>14. response(c) \in Seq(Tokens) /\ << >> \o response(c) = response(c)
  <2> DEFINE h == Header(status)
             d == SentBody(c)'
  <2>1. h \in Seq(Tokens) /\ d \in Seq(Tokens) /\ response(c) = h \o d
    BY <1>13, TokensFact, HeaderFact
  <2> HIDE DEF h, d
  <2> QED
    BY <2>1
<1>15. toClient'[c] = IF c \in left THEN << >> ELSE response(c)
  BY <1>2, <1>3, <1>14
<1>16. toClient'[c] \in Seq(Tokens)
  BY <1>14, <1>15
<1>17. OnItsWay(c)'
  <2>1. cpc'[c] # "rest" /\ child'[c] = "rest"
    BY <1>2, <1>3
  <2>2. cpc'[c] \notin Ended => toClient'[c] = Header(status) \o SentBody(c)'
    BY <1>3, <1>13, <1>15
  <2> QED
    BY <1>13, <2>1, <2>2 DEF OnItsWay
<1> QED
  BY <1>4, <1>5, <1>16, <1>17 DEF StreamOK

\* Something more is sent behind what is on its way.
LEMMA Behind ==
  ASSUME NEW S, NEW a \in Seq(S), NEW b \in Seq(S), NEW t \in Seq(S), NEW s, s = Join(a, b)
  PROVE  Join(a, Join(b, t)) = Join(s, t)
<1> DEFINE u == a \o b
           v == b \o t
           x == u \o t
           y == a \o v
<1>1. u = a \o b /\ v = b \o t /\ x = u \o t /\ y = a \o v
  OBVIOUS
<1> HIDE DEF u, v, x, y
<1>2. x = y
  BY <1>1, InARow
<1>3. s = u
  BY <1>1 DEF Join
<1>4. Join(s, t) = Join(u, t) /\ Join(u, t) = x /\ Join(b, t) = v /\ Join(a, v) = y
  BY <1>1, <1>3 DEF Join
<1> QED
  BY <1>2, <1>4

\* One more piece.
LEMMA OneMorePiece ==
  ASSUME IInv, NEW c \in Clients \ cut', StreamOK(c), SendRest(c), UNCHANGED client,
         toClient = [x \in Clients |-> toClient[x]]
  PROVE  StreamOK(c)'
<1> DEFINE path == path2file[c]
           t == senddata(c, cnt[c])
<1>0. MAXDATASIZE \in Nat \ {0} /\ TypeOK /\ cnt[c] \in Nat
  BY HttpServerAssumption DEF IInv, TypeOK
<1>1. child[c] = "rest" /\ SendAndGoOn(c, t) /\ cnt[c] < Len(string(c)) + 1
  BY DEF SendRest
<1>2. file[c] = path /\ cnt[c] # 0
  BY <1>1 DEF StreamOK, RightFile
<1>3. /\ toClient'[c] = IF c \in left THEN toClient[c] ELSE toClient[c] \o t
      /\ child'[c] = "rest" /\ cnt'[c] = cnt[c] + MAXDATASIZE
      /\ UNCHANGED <<output, cpc, file, path2file, left>>
      /\ c \in left <=> cpc[c] \in Ended
  BY <1>0, <1>1, GoneOn
<1>4. RightFile(c)'
  BY <1>0, <1>1, <1>3, GoneOnFile DEF StreamOK
<1>5. NothingYet(c)' /\ Written(c)' /\ output'[c] \in Seq(Tokens)
  BY <1>3 DEF StreamOK, NothingYet, Written, Body
<1>6. path \in DOMAIN Files /\ cnt[c] <= Len(Files[path])
  <2>1. CASE path \in DOMAIN Files
    <3>1. string(c) = Files[path] /\ Len(Files[path]) \in Nat
      BY <1>2, <2>1, FileTyped DEF string
    <3> QED
      BY <1>0, <1>1, <2>1, <3>1
  <2>2. CASE path \notin DOMAIN Files
    <3>1. Len(string(c)) = 0
      BY <1>2, <2>2 DEF string
    <3> QED
      BY <1>0, <1>1, <1>2, <3>1
  <2> QED
    BY <2>1, <2>2
<1>7. t \in Seq(Tokens) /\ SentBody(c) \o t = SentBody(c)'
  <2>1. PICK k \in Nat : cnt[c] = k * MAXDATASIZE
    BY DEF StreamOK, RightFile
  <2>2. /\ t \in Seq(Tokens)
        /\ SubSeq(Body(c), 1, Upto(path, cnt[c])) \o t
             = SubSeq(Body(c), 1, Upto(path, cnt[c] + MAXDATASIZE))
    BY <1>0, <1>2, <1>6, <2>1, NextPiece
  <2>3. SentBody(c)' = SubSeq(Body(c), 1, Upto(path, cnt[c] + MAXDATASIZE))
    BY <1>3 DEF SentBody, Body
  <2> QED
    BY <2>2, <2>3 DEF SentBody
<1> HIDE DEF t
<1>8. CASE c \in left
  <2>1. toClient'[c] = toClient[c]
    BY <1>3, <1>8
  <2>2. toClient'[c] \in Seq(Tokens)
    BY <2>1 DEF StreamOK
  <2>3. OnItsWay(c)'
    BY <1>3, <1>8 DEF OnItsWay
  <2> QED
    BY <1>4, <1>5, <2>2, <2>3 DEF StreamOK
<1>9. CASE c \notin left
  <2>1. toClient'[c] = toClient[c] \o t /\ toClient[c] \in Seq(Tokens) /\ output[c] \in Seq(Tokens)
    BY <1>3, <1>9 DEF StreamOK
  <2>2. toClient'[c] \in Seq(Tokens)
    BY <1>7, <2>1
  <2>3. SentBody(c) \in Seq(Tokens)
    <3>1. Upto(path, cnt[c]) \in Nat /\ Upto(path, cnt[c]) <= Len(Body(c)) /\ Body(c) \in Seq(Tokens)
      BY <1>0, BodyTyped, UptoTyped
    <3> QED
      BY <3>1, Beginning DEF SentBody
  <2>4. CASE cpc[c] = "rest"
    <3>1. output[c] \o toClient[c] = SentBody(c)
      BY <1>1, <1>3, <1>9, <2>4 DEF StreamOK, OnItsWay
    <3>2. output[c] \o (toClient[c] \o t) = SentBody(c) \o t
      <4>1. SentBody(c) = Join(output[c], toClient[c])
        BY <3>1 DEF Join
      <4>2. Join(output[c], Join(toClient[c], t)) = Join(SentBody(c), t)
        BY <1>7, <2>1, <4>1, Behind
      <4> QED
        BY <4>2 DEF Join
    <3>3. output'[c] \o toClient'[c] = SentBody(c)'
      BY <1>3, <1>7, <2>1, <3>2
    <3>4. OnItsWay(c)'
      BY <1>3, <2>4, <3>3 DEF OnItsWay
    <3> QED
      BY <1>4, <1>5, <2>2, <3>4 DEF StreamOK
  <2>5. CASE cpc[c] # "rest"
    <3>1. PICK status \in Statuses : toClient[c] = Header(status) \o SentBody(c)
      BY <1>1, <1>3, <1>9, <2>5 DEF StreamOK, OnItsWay
    <3> DEFINE h == Header(status)
    <3>2. h \in Seq(Tokens) /\ h \o SentBody(c) = toClient[c]
      BY <3>1, TokensFact, HeaderFact
    <3> HIDE DEF h
    <3>3. h \o (SentBody(c) \o t) = toClient[c] \o t
      <4>1. toClient[c] = Join(h, SentBody(c))
        BY <3>2 DEF Join
      <4>2. Join(h, Join(SentBody(c), t)) = Join(toClient[c], t)
        BY <1>7, <2>3, <3>2, <4>1, Behind
      <4> QED
        BY <4>2 DEF Join
    <3>4. toClient'[c] = h \o SentBody(c)'
      BY <1>7, <2>1, <3>3
    <3>5. \E s \in Statuses : toClient'[c] = Header(s) \o SentBody(c)'
      BY <3>4 DEF h
    <3>6. OnItsWay(c)'
      BY <1>3, <2>5, <3>5 DEF OnItsWay
    <3> QED
      BY <1>4, <1>5, <2>2, <3>6 DEF StreamOK
  <2> QED
    BY <2>4, <2>5
<1> QED
  BY <1>8, <1>9

\* When the count has passed the end, everything was sent.
LEMMA EverythingSent ==
  ASSUME IInv, NEW c \in Clients, StreamOK(c), child[c] = "rest", cnt[c] >= Len(string(c)) + 1
  PROVE  SentBody(c) = Body(c)
<1> DEFINE path == path2file[c]
           b == Body(c)
<1>0. TypeOK /\ cnt[c] \in Nat /\ file[c] = path
  BY DEF IInv, TypeOK, StreamOK, RightFile
<1>1. b \in Seq(Tokens)
  BY <1>0, BodyTyped
<1>2. Upto(path, cnt[c]) = Len(b)
  <2>1. CASE path \in DOMAIN Files
    <3>1. string(c) = Files[path] /\ Len(Files[path]) \in Nat
      BY <1>0, <2>1, FileTyped DEF string
    <3>2. cnt[c] >= Len(Files[path])
      BY <1>0, <3>1
    <3>3. Place(path, cnt[c]) = Cardinality(Sent(path))
      BY <1>0, <2>1, <3>2, PlaceTyped
    <3>4. Len(b) = Cardinality(Sent(path))
      BY <1>0, <2>1, BodyTyped
    <3> QED
      BY <2>1, <3>3, <3>4 DEF Upto
  <2>2. CASE path \notin DOMAIN Files
    <3>1. Len(b) = 1
      BY <1>0, <2>2, BodyTyped
    <3>2. Len(string(c)) = 0
      BY <1>0, <2>2 DEF string
    <3>3. cnt[c] # 0
      BY <1>0, <3>2
    <3> QED
      BY <2>2, <3>1, <3>3 DEF Upto
  <2> QED
    BY <2>1, <2>2
<1> HIDE DEF b
<1>3. SubSeq(b, 1, Len(b)) = b
  BY <1>1, WholeSequence
<1> QED
  BY <1>2, <1>3 DEF SentBody, b

\* The steps of a child.
LEMMA ChildStream ==
  ASSUME IInv, NEW c \in Clients \ cut', StreamOK(c), Child(c), UNCHANGED client,
         toClient = [x \in Clients |-> toClient[x]]
  PROVE  StreamOK(c)'
<1>0. TypeOK /\ (c \in left <=> cpc[c] \in Ended)
  BY DEF IInv, TypeOK
<1>1. CASE ReceiveRequest(c)
  <2>1. PICK n \in Takes(toServer[c], 3) :
          /\ n >= 2
          /\ Open(c, toServer[c][2])
          /\ cut' = IF n < 3 THEN cut \cup {c} ELSE cut
    BY <1>1 DEF ReceiveRequest
  <2>2. child[c] = "recv" /\ toServer[c] # << >>
    BY <1>1, <2>1 DEF ReceiveRequest, Takes, Smaller
  <2>3. toServer[c] = Request(path2file[c])
    BY <2>2 DEF IInv, ConnectionOK
  <2>4. toServer[c][2] = path2file[c]
    BY <2>3, PathOfRequest
  <2>5. /\ child'[c] = "first" /\ file'[c] = path2file[c]
        /\ UNCHANGED <<toClient, output, cnt, cpc, path2file>>
    BY <1>0, <2>1, <2>4 DEF Open, client, TypeOK
  <2> QED
    BY <2>2, <2>5 DEF StreamOK, NothingYet, RightFile, OnItsWay, Written, Body
<1>2. CASE ReceiveLess(c)
  BY <1>2 DEF ReceiveLess
<1>3. CASE ReceiveFails(c) \/ Killed(c)
  <2>1. c \in left /\ Die(c) /\ child[c] \in {"recv", "first", "rest"}
    BY <1>3 DEF ReceiveFails, Killed
  <2> QED
    BY <1>0, <2>1, DieStream
<1>4. CASE Exit(c)
  <2>1. Die(c) /\ child[c] = "rest" /\ cnt[c] >= Len(string(c)) + 1
    BY <1>4 DEF Exit
  <2>2. SentBody(c) = Body(c)
    BY <2>1, EverythingSent
  <2> QED
    BY <1>0, <2>1, <2>2, DieStream
<1>5. CASE SendFirst(c)
  BY <1>5, FirstAnswer
<1>6. CASE SendRest(c)
  BY <1>6, OneMorePiece
<1> QED
  BY <1>1, <1>2, <1>3, <1>4, <1>5, <1>6 DEF Child

-----------------------------------------------------------------------------
\* What a client takes is at most what is there.
LEMMA TakesFact ==
  ASSUME NEW S, NEW s \in Seq(S), NEW size \in Nat, NEW n \in Takes(s, size)
  PROVE  n \in Nat /\ n <= Len(s) /\ s # << >>
BY DEF Takes, Smaller

\* The beginning that was written, when it and the rest are what was sent.
LEMMA WrittenWell ==
  ASSUME TypeOK, NEW c \in Clients, NEW o \in Seq(Tokens), NEW r \in Seq(Tokens),
         o \o r = SentBody(c)
  PROVE  \E n \in 0..Len(Body(c)) : o = SubSeq(Body(c), 1, n)
<1> DEFINE b == Body(c)
           m == Upto(path2file[c], cnt[c])
<1>1. cnt[c] \in Nat
  BY DEF TypeOK
<1>2. b \in Seq(Tokens) /\ m \in Nat /\ m <= Len(b)
  BY <1>1, BodyTyped, UptoTyped
<1>3. o \o r = SubSeq(b, 1, m)
  BY DEF SentBody
<1> HIDE DEF b, m
<1>4. Len(o) \in 0..Len(b) /\ o = SubSeq(b, 1, Len(o))
  BY <1>2, <1>3, FirstOfBeginning
<1> QED
  BY <1>4 DEF b

\* The first recv, of the whole header at least.
LEMMA FirstRecvStream ==
  ASSUME IInv, NEW c \in Clients \ cut', StreamOK(c), FirstRecv(c), UNCHANGED server,
         toClient = [x \in Clients |-> toClient[x]],
         output = [x \in Clients |-> output[x]]
  PROVE  StreamOK(c)'
<1> DEFINE s == toClient[c]
           d == SentBody(c)
<1>0. TypeOK /\ cnt[c] \in Nat /\ ClientBuf \in Nat /\ s \in Seq(Tokens)
  BY HttpClientAssumption DEF IInv, TypeOK, StreamOK
<1>1. PICK n \in Takes(s, ClientBuf) :
        LET buf == SubSeq(s, 1, n)
        IN  /\ HeaderEnds(buf) # {}
            /\ \E text \in IF pos(buf) <= n + 1 THEN {SubSeq(buf, pos(buf), n)} ELSE Junk :
                 output' = [output EXCEPT ![c] = text]
            /\ toClient' = [toClient EXCEPT ![c] = Drop(@, n)]
            /\ cut' = IF n < Len(Header("200 OK")) THEN cut \cup {c} ELSE cut
  BY DEF FirstRecv
<1>2. n \in Nat /\ n <= Len(s) /\ s # << >>
  BY <1>0, TakesFact
<1>3. Len(Header("200 OK")) = 5
  <2>1. "200 OK" \in Statuses
    BY Zenon DEF Statuses
  <2> QED
    BY <2>1, TokensFact, HeaderFact
<1>4. 5 <= n
  <2> DEFINE l == Len(Header("200 OK"))
  <2>1. ~ (n < l)
    BY <1>1
  <2>2. l = 5
    BY <1>3
  <2> HIDE DEF l
  <2> QED
    BY <1>2, <2>1, <2>2
<1>5. cpc[c] = "first" /\ cpc[c] \notin Ended /\ cpc[c] # "rest"
  BY DEF FirstRecv, Ended
<1>6. child[c] \in {"rest", "zombie", "reaped"}
  BY <1>0, <1>2 DEF StreamOK, NothingYet, TypeOK
<1>7. PICK status \in Statuses : s = Header(status) \o d
  BY <1>5, <1>6 DEF StreamOK, OnItsWay
<1>8. d \in Seq(Tokens)
  <2>1. /\ Upto(path2file[c], cnt[c]) \in Nat /\ Upto(path2file[c], cnt[c]) <= Len(Body(c))
        /\ Body(c) \in Seq(Tokens)
    BY <1>0, BodyTyped, UptoTyped
  <2> QED
    BY <2>1, Beginning DEF SentBody
<1> DEFINE h == Header(status)
           buf == SubSeq(s, 1, n)
           text == SubSeq(buf, 6, n)
           rest == Drop(s, n)
<1>9. /\ h \in Seq(Tokens) /\ Len(h) = 5
      /\ h[1] # "LF" /\ h[2] = "CR" /\ h[3] = "LF" /\ h[4] = "CR"
  BY TokensFact, HeaderFact
<1>10. s = h \o d
  BY <1>7
<1> HIDE DEF h, d, s
<1>11. IsAnswer(Tokens, s, h, d)
  <2>1. h \in Seq(Tokens)
    BY <1>9
  <2>2. s = Join(h, d)
    BY <1>10 DEF Join
  <2>3. Len(h) = 5 => IsAnswer(Tokens, s, h, d)
    BY <1>8, <2>1, <2>2, HeaderAndBody
  <2> QED
    BY <1>9, <2>3
<1>12. buf \in Seq(Tokens) /\ Len(buf) = n /\ \A i \in 1..n : buf[i] = s[i]
  BY <1>0, <1>2, Beginning
<1>13. text \in Seq(Tokens) /\ rest \in Seq(Tokens) /\ Join(text, rest) = d
  <2>1. text = FirstText(s, n) /\ rest = Drop(s, n)
    BY DEF FirstText
  <2> HIDE DEF text, rest
  <2> QED
    BY <1>2, <1>4, <1>8, <1>11, <2>1, BehindTheHeader
<1> HIDE DEF buf
<1>14. pos(buf) = 6
  <2>1. buf[1] = h[1] /\ buf[2] = h[2] /\ buf[3] = h[3] /\ buf[4] = h[4]
    <3>1. \A i \in 1..4 : i \in 1..n /\ i \in 1..5
      BY <1>2, <1>4
    <3> QED
      BY <1>11, <1>12, <3>1 DEF IsAnswer
  <2>2. Len(buf) >= 5
    BY <1>2, <1>4, <1>12
  <2> QED
    BY <1>9, <1>12, <2>1, <2>2, EndOfHeader
<1>15. output' = [output EXCEPT ![c] = text] /\ toClient' = [toClient EXCEPT ![c] = rest]
  <2>1. \E w \in IF pos(buf) <= n + 1 THEN {SubSeq(buf, pos(buf), n)} ELSE Junk :
          output' = [output EXCEPT ![c] = w]
    BY <1>1 DEF buf
  <2>2. 6 <= n + 1
    BY <1>2, <1>4
  <2>3. toClient' = [toClient EXCEPT ![c] = rest]
    BY <1>1 DEF s
  <2> QED
    BY <1>14, <2>1, <2>2, <2>3
<1> HIDE DEF text, rest
<1>16. output'[c] = text /\ toClient'[c] = rest
  BY <1>15
<1>17. UNCHANGED <<cnt, child, file, path2file>> /\ cpc'[c] = "rest"
  BY <1>0 DEF FirstRecv, server, parent, children, TypeOK
<1>18. Body(c)' = Body(c) /\ SentBody(c)' = d
  BY <1>17 DEF Body, SentBody, d
<1>19. \E m \in 0..Len(Body(c)) : text = SubSeq(Body(c), 1, m)
  <2>1. text \o rest = SentBody(c)
    BY <1>13 DEF d, Join
  <2> QED
    BY <1>0, <1>13, <2>1, WrittenWell
<1>20. Written(c)'
  BY <1>16, <1>17, <1>18, <1>19 DEF Written
<1>21. NothingYet(c)' /\ RightFile(c)'
  BY <1>6, <1>17 DEF NothingYet, RightFile, StreamOK
<1>22. OnItsWay(c)'
  <2>1. output'[c] \o toClient'[c] = SentBody(c)'
    BY <1>13, <1>16, <1>18 DEF Join
  <2>2. child[c] # "rest" => SentBody(c) = Body(c)
    BY <1>5, <1>6 DEF StreamOK, OnItsWay
  <2>3. child'[c] # "rest" => SentBody(c)' = Body(c)'
    BY <1>17, <1>18, <2>2 DEF d
  <2> QED
    BY <1>17, <2>1, <2>3 DEF OnItsWay
<1> QED
  BY <1>13, <1>16, <1>20, <1>21, <1>22 DEF StreamOK

\* The loop.
LEMMA RecvStream ==
  ASSUME IInv, NEW c \in Clients \ cut', StreamOK(c), Recv(c), UNCHANGED server,
         toClient = [x \in Clients |-> toClient[x]],
         output = [x \in Clients |-> output[x]]
  PROVE  StreamOK(c)'
<1> DEFINE s == toClient[c]
           o == output[c]
<1>0. TypeOK /\ ClientBuf \in Nat /\ s \in Seq(Tokens) /\ o \in Seq(Tokens)
  BY HttpClientAssumption DEF IInv, StreamOK
<1>1. PICK n \in Takes(s, ClientBuf) :
        /\ output' = [output EXCEPT ![c] = @ \o SubSeq(s, 1, n)]
        /\ toClient' = [toClient EXCEPT ![c] = Drop(@, n)]
  BY DEF Recv
<1>2. n \in Nat /\ n <= Len(s) /\ s # << >>
  BY <1>0, TakesFact
<1>3. cpc[c] = "rest" /\ cpc[c] \notin Ended
  BY DEF Recv, Ended
<1>4. child[c] \in {"rest", "zombie", "reaped"}
  BY <1>0, <1>2 DEF StreamOK, NothingYet, TypeOK
<1>5. o \o s = SentBody(c) /\ (child[c] # "rest" => SentBody(c) = Body(c))
  BY <1>3, <1>4 DEF StreamOK, OnItsWay
<1>6. output'[c] = o \o SubSeq(s, 1, n) /\ toClient'[c] = Drop(s, n)
  BY <1>1
<1>7. UNCHANGED <<cpc, cnt, child, file, path2file>>
  BY DEF Recv, server, parent, children
<1> HIDE DEF s, o
<1>8. /\ o \o SubSeq(s, 1, n) \in Seq(Tokens) /\ Drop(s, n) \in Seq(Tokens)
      /\ (o \o SubSeq(s, 1, n)) \o Drop(s, n) = o \o s
  <2>1. /\ Join(o, Front(s, n)) \in Seq(Tokens) /\ Drop(s, n) \in Seq(Tokens)
        /\ Join(Join(o, Front(s, n)), Drop(s, n)) = Join(o, s)
    BY <1>0, <1>2, MovedOver
  <2> QED
    BY <2>1 DEF Join, Front
<1>9. /\ output'[c] \in Seq(Tokens) /\ toClient'[c] \in Seq(Tokens)
      /\ output'[c] \o toClient'[c] = SentBody(c)
  BY <1>5, <1>6, <1>8
<1>10. Body(c)' = Body(c) /\ SentBody(c)' = SentBody(c)
  BY <1>7 DEF Body, SentBody
<1>11. \E m \in 0..Len(Body(c)) : output'[c] = SubSeq(Body(c), 1, m)
  BY <1>0, <1>9, WrittenWell
<1>12. Written(c)'
  BY <1>3, <1>7, <1>10, <1>11 DEF Written
<1>13. NothingYet(c)' /\ RightFile(c)'
  BY <1>4, <1>7 DEF NothingYet, RightFile, StreamOK
<1>14. OnItsWay(c)'
  BY <1>3, <1>5, <1>7, <1>9, <1>10 DEF OnItsWay
<1> QED
  BY <1>9, <1>12, <1>13, <1>14 DEF StreamOK

\* A client that ends well has read to the end, and nobody is left to send.
LEMMA EndStream ==
  ASSUME IInv, NEW c \in Clients, StreamOK(c), NEW how \in Ended, End(c, how),
         how = "done" => Done(c),
         UNCHANGED <<server, output>>,
         toClient = [x \in Clients |-> toClient[x]]
  PROVE  StreamOK(c)'
<1>0. TypeOK
  BY DEF IInv
<1>1. /\ toClient'[c] = << >> /\ cpc'[c] = how
      /\ UNCHANGED <<cnt, child, file, path2file, output>>
  BY <1>0 DEF End, Leave, server, parent, children, TypeOK
<1>2. << >> \in Seq(Tokens)
  OBVIOUS
<1>3. how = "done" => child[c] \notin {"none", "recv", "first"} /\ output[c] = Body(c)
  <2> SUFFICES ASSUME how = "done"
               PROVE  child[c] \notin {"none", "recv", "first"} /\ output[c] = Body(c)
    OBVIOUS
  <2>1. cpc[c] = "rest" /\ toClient[c] = << >> /\ holders[c] = {} /\ cpc[c] \notin Ended
    BY DEF Done, AtEnd, Ended
  <2>2. child[c] \in {"zombie", "reaped"}
    BY <1>0, <2>1 DEF TypeOK, StreamOK, NothingYet
  <2>3. output[c] \o toClient[c] = Body(c) /\ output[c] \in Seq(Tokens)
    BY <2>1, <2>2 DEF StreamOK, OnItsWay
  <2>4. output[c] \o << >> = output[c]
    BY <2>3
  <2> QED
    BY <2>1, <2>2, <2>3, <2>4
<1>4. NothingYet(c)'
  <2>1. how # "rest"
    BY DEF Ended
  <2> QED
    BY <1>1, <1>3, <2>1 DEF StreamOK, NothingYet
<1>5. Written(c)'
  BY <1>1, <1>3 DEF StreamOK, Written, Body
<1>6. RightFile(c)' /\ OnItsWay(c)'
  BY <1>1 DEF StreamOK, RightFile, OnItsWay
<1> QED
  BY <1>1, <1>2, <1>4, <1>5, <1>6 DEF StreamOK

\* The steps of a client.
LEMMA ClientStream ==
  ASSUME IInv, NEW c \in Clients \ cut', StreamOK(c), Client(c) \/ Kill(c), UNCHANGED server,
         toClient = [x \in Clients |-> toClient[x]],
         output = [x \in Clients |-> output[x]]
  PROVE  StreamOK(c)'
<1>1. CASE Connect(c) \/ SendRequest(c)
  <2>1. UNCHANGED <<toClient, output, cnt, child, file, path2file>>
    BY <1>1 DEF Connect, SendRequest, server, parent, children
  <2>2. cpc[c] \in {"connect", "send"} /\ cpc'[c] \in {"send", "first"}
    BY <1>1 DEF Connect, SendRequest, IInv, TypeOK
  <2> QED
    BY <2>1, <2>2 DEF StreamOK, NothingYet, RightFile, OnItsWay, Written, Body, SentBody, Ended
<1>2. CASE FirstRecv(c)
  BY <1>2, FirstRecvStream
<1>3. CASE Recv(c)
  BY <1>3, RecvStream
<1>4. CASE CrashInHeader(c)
  BY <1>4 DEF CrashInHeader
<1>5. CASE Done(c)
  <2>1. End(c, "done") /\ UNCHANGED output /\ "done" \in Ended
    BY <1>5 DEF Done, Ended
  <2> QED
    BY <1>5, <2>1, EndStream
<1>6. CASE RecvFails(c) \/ Kill(c)
  <2>1. PICK how \in {"failed", "killed"} : End(c, how)
    BY <1>6 DEF RecvFails, Kill
  <2>2. UNCHANGED output /\ how \in Ended /\ how # "done"
    BY <1>6 DEF RecvFails, Kill, Ended
  <2> QED
    BY <2>1, <2>2, EndStream
<1> QED
  BY <1>1, <1>2, <1>3, <1>4, <1>5, <1>6 DEF Client

\* Nobody else touches the streams of a connection.
LEMMA OthersStream ==
  ASSUME IInv, NEW c \in Clients \ cut', StreamOK(c), NEW d \in Clients \ {c},
         \/ Child(d) /\ UNCHANGED client
         \/ (Client(d) \/ Kill(d)) /\ UNCHANGED server,
         toClient = [x \in Clients |-> toClient[x]],
         output = [x \in Clients |-> output[x]]
  PROVE  StreamOK(c)'
<1>0. TypeOK
  BY DEF IInv
<1>1. CASE Child(d) /\ UNCHANGED client
  <2>1. CASE Die(d)
    BY <1>0, <1>1, <2>1, SameView DEF Die, view, client, TypeOK
  <2>2. CASE \E path : Open(d, path)
    BY <1>0, <1>1, <2>2, SameView DEF Open, view, client, TypeOK
  <2>3. CASE \E data : SendAndGoOn(d, data)
    BY <1>0, <1>1, <2>3, SameView DEF SendAndGoOn, Write, view, client, TypeOK
  <2> QED
    BY <1>1, <2>1, <2>2, <2>3 DEF Child, ReceiveRequest, ReceiveLess, ReceiveFails, SendFirst,
                                  SendRest, Killed, Exit
<1>2. CASE (Client(d) \/ Kill(d)) /\ UNCHANGED server
  <2>1. UNCHANGED <<cnt, child, file>>
    BY <1>2 DEF server, parent, children
  <2>2. CASE \E how : End(d, how) /\ UNCHANGED output
    BY <1>0, <2>1, <2>2, SameView DEF End, Leave, view, TypeOK
  <2>3. CASE Connect(d) \/ SendRequest(d)
    BY <1>0, <2>1, <2>3, SameView DEF Connect, SendRequest, view, TypeOK
  <2>4. CASE FirstRecv(d)
    <3>1. /\ \E text : output' = [output EXCEPT ![d] = text]
          /\ \E rest : toClient' = [toClient EXCEPT ![d] = rest]
          /\ cpc' = [cpc EXCEPT ![d] = "rest"] /\ path2file' = path2file
      BY <2>4 DEF FirstRecv
    <3> QED
      BY <1>0, <2>1, <3>1, SameView DEF view, TypeOK
  <2>5. CASE Recv(d)
    <3>1. /\ \E text : output' = [output EXCEPT ![d] = text]
          /\ \E rest : toClient' = [toClient EXCEPT ![d] = rest]
          /\ cpc' = cpc /\ path2file' = path2file
      BY <2>5 DEF Recv
    <3> QED
      BY <1>0, <2>1, <3>1, SameView DEF view, TypeOK
  <2> QED
    BY <1>2, <2>2, <2>3, <2>4, <2>5 DEF Client, CrashInHeader, Done, RecvFails, Kill
<1> QED
  BY <1>1, <1>2

\* The two streams stay functions of the clients, and a connection that was cut
\* stays so.
LEMMA StreamsTyped ==
  ASSUME [Next]_vars,
         toClient = [x \in Clients |-> toClient[x]],
         output = [x \in Clients |-> output[x]]
  PROVE  /\ toClient' = [x \in Clients |-> toClient'[x]]
         /\ output' = [x \in Clients |-> output'[x]]
         /\ cut \subseteq cut'
<1>1. CASE UNCHANGED vars
  BY <1>1 DEF vars, tcp, client
<1>2. CASE Parent /\ UNCHANGED client
  <2>1. UNCHANGED <<toClient, output, cut>>
    BY <1>2 DEF Parent, Accept, Fork, ForkFails, CloseNewFd, TakeSignal, sigchld_handler, tcp, client
  <2> QED
    BY <2>1
<1>3. ASSUME NEW c \in Clients, Child(c), UNCHANGED client
      PROVE  /\ toClient' = [x \in Clients |-> toClient'[x]]
             /\ output' = output /\ cut \subseteq cut'
  <2>1. toClient' = toClient \/ \E data : toClient' = [toClient EXCEPT ![c] = data]
    BY <1>3 DEF Child, ReceiveRequest, ReceiveLess, ReceiveFails, SendFirst, SendRest, Killed, Exit,
                Die, Open, SendAndGoOn, Write
  <2>2. cut' = cut \/ cut' = cut \cup {c}
    BY <1>3 DEF Child, ReceiveRequest, ReceiveLess, ReceiveFails, SendFirst, SendRest, Killed, Exit,
                Open, SendAndGoOn
  <2> QED
    BY <1>3, <2>1, <2>2 DEF client
<1>4. ASSUME NEW c \in Clients, Client(c) \/ Kill(c)
      PROVE  /\ toClient' = [x \in Clients |-> toClient'[x]]
             /\ output' = [x \in Clients |-> output'[x]] /\ cut \subseteq cut'
  <2>1. toClient' = toClient \/ \E rest : toClient' = [toClient EXCEPT ![c] = rest]
    BY <1>4 DEF Client, Connect, SendRequest, FirstRecv, CrashInHeader, Recv, Done, RecvFails, Kill,
                End, Leave
  <2>2. output' = output \/ \E text : output' = [output EXCEPT ![c] = text]
    BY <1>4 DEF Client, Connect, SendRequest, FirstRecv, CrashInHeader, Recv, Done, RecvFails, Kill
  <2>3. cut' = cut \/ cut' = cut \cup {c}
    BY <1>4 DEF Client, Connect, SendRequest, FirstRecv, CrashInHeader, Recv, Done, RecvFails, Kill
  <2> QED
    BY <2>1, <2>2, <2>3
<1> QED
  BY <1>1, <1>2, <1>3, <1>4 DEF Next

\* Every step keeps the invariant of the streams.
LEMMA StreamStep == IInv /\ StreamInv /\ [Next]_vars => StreamInv'
<1> SUFFICES ASSUME IInv, StreamInv, [Next]_vars PROVE StreamInv'
  OBVIOUS
<1>1. /\ toClient = [x \in Clients |-> toClient[x]]
      /\ output = [x \in Clients |-> output[x]]
  BY DEF StreamInv
<1>2. /\ toClient' = [x \in Clients |-> toClient'[x]]
      /\ output' = [x \in Clients |-> output'[x]]
      /\ cut \subseteq cut'
  BY <1>1, StreamsTyped
<1>3. ASSUME NEW c \in Clients \ cut' PROVE StreamOK(c)'
  <2>1. c \in Clients /\ StreamOK(c)
    BY <1>2 DEF StreamInv
  <2>2. CASE UNCHANGED vars
    BY <2>1, <2>2, SameView DEF vars, tcp, server, children, client, view
  <2>3. CASE Parent /\ UNCHANGED client
    BY <2>1, <2>3, ParentStream
  <2>4. CASE Child(c) /\ UNCHANGED client
    BY <1>1, <2>1, <2>4, ChildStream
  <2>5. CASE (Client(c) \/ Kill(c)) /\ UNCHANGED server
    BY <1>1, <2>1, <2>5, ClientStream
  <2>6. ASSUME NEW d \in Clients \ {c},
               \/ Child(d) /\ UNCHANGED client
               \/ (Client(d) \/ Kill(d)) /\ UNCHANGED server
        PROVE  StreamOK(c)'
    BY <1>1, <2>1, <2>6, OthersStream
  <2> QED
    BY <2>2, <2>3, <2>4, <2>5, <2>6 DEF Next
<1> QED
  BY <1>2, <1>3 DEF StreamInv

\* What the streams carry makes every client's file a beginning of what it asked for.
LEMMA StreamsMakeFiles == IInv /\ StreamInv => OutputIsFile
<1> SUFFICES ASSUME IInv, StreamInv, NEW c \in Clients \ cut
             PROVE  /\ Len(output[c]) <= Len(Body(c))
                    /\ output[c] = SubSeq(Body(c), 1, Len(output[c]))
                    /\ cpc[c] = "done" => output[c] = Body(c)
  BY DEF OutputIsFile, Body
<1> DEFINE b == Body(c)
<1>1. StreamOK(c) /\ b \in Seq(Tokens)
  BY BodyTyped DEF IInv, StreamInv
<1>2. PICK n \in 0..Len(b) : output[c] = SubSeq(b, 1, n)
  BY <1>1 DEF StreamOK, Written
<1>3. cpc[c] = "done" => output[c] = b
  BY <1>1 DEF StreamOK, Written
<1> HIDE DEF b
<1>4. n \in Nat /\ n <= Len(b)
  BY <1>1, <1>2
<1>5. Len(output[c]) = n
  BY <1>1, <1>2, <1>4, Beginning
<1>6. Len(output[c]) <= Len(b) /\ output[c] = SubSeq(b, 1, Len(output[c]))
  BY <1>2, <1>4, <1>5
<1> QED
  BY <1>3, <1>6 DEF b

\* A client whose request and header came in one piece each writes the bytes of
\* the file it asked for, in order and to the last, for any number of clients,
\* any files and any size of a piece.
THEOREM ClientsGetTheirFiles == Spec => []OutputIsFile
<1>1. Spec => []StreamInv
  BY InitStream, StreamStep, Invariant, PTL DEF Spec
<1> QED
  BY <1>1, StreamsMakeFiles, Invariant, PTL
=================================================================================
