------------------------------- MODULE HttpClient -------------------------------
(***************************************************************************)
(* http_client.c: a client asks for one path and writes the body of the    *)
(* answer to its output file.                                              *)
(***************************************************************************)
EXTENDS Tcp

CONSTANT ClientBuf   \* MAXDATASIZE - 1 of the client

ASSUME HttpClientAssumption == ClientBuf \in Nat /\ ClientBuf > Len(Header("200 OK"))

VARIABLES
  cpc,          \* where each client is, or how it has ended
  path2file,    \* the path it was started with
  output        \* what it has written

client == <<cpc, path2file, output>>

Ended == {"done", "failed", "crashed", "killed"}

HttpClientInit ==
  /\ cpc = [c \in Clients |-> "connect"]
  /\ path2file \in [Clients -> Paths]
  /\ output = [c \in Clients |-> << >>]

Connect(c) ==
  /\ cpc[c] = "connect"
  /\ cpc' = [cpc EXCEPT ![c] = "send"]
  /\ holders' = [holders EXCEPT ![c] = {"backlog"}]
  /\ UNCHANGED <<toServer, toClient, reset, left, cut, path2file, output>>

\* The server answers data for a closed connection with a reset.
SendRequest(c) ==
  /\ cpc[c] = "send"
  /\ cpc' = [cpc EXCEPT ![c] = "first"]
  /\ toServer' = [toServer EXCEPT ![c] = Request(path2file[c])]
  /\ reset' = IF holders[c] = {} THEN reset \cup {c} ELSE reset
  /\ UNCHANGED <<toClient, holders, left, cut, path2file, output>>

End(c, how) ==
  /\ cpc' = [cpc EXCEPT ![c] = how]
  /\ Leave(c)
  /\ UNCHANGED <<toServer, holders, reset, path2file>>

AtEnd(c) == toClient[c] = << >> /\ holders[c] = {}

\* The first recv.  HeaderEnds are the places of an LF that a CR follows.
HeaderEnds(buf) == {i \in 1..(Len(buf) - 1) : buf[i] = "LF" /\ buf[i + 1] = "CR"}

FirstOf(S) == CHOOSE i \in S : \A j \in S : i <= j

\* Mutant of pos: the line feed of the empty line is taken for the body.
EarlyPos(buf) == FirstOf(HeaderEnds(buf)) + 2

pos(buf) == FirstOf(HeaderEnds(buf)) + 3

\* What may follow the zero after numbytes, where buf was never written.
Junk == {<< >>, <<"junk">>}

FirstRecv(c) ==
  /\ cpc[c] = "first"
  /\ \E n \in Takes(toClient[c], ClientBuf) :
       LET buf == SubSeq(toClient[c], 1, n)
       IN  /\ HeaderEnds(buf) # {}
           /\ \E text \in IF pos(buf) <= n + 1 THEN {SubSeq(buf, pos(buf), n)} ELSE Junk :
                output' = [output EXCEPT ![c] = text]
           /\ toClient' = [toClient EXCEPT ![c] = Drop(@, n)]
           /\ cut' = IF n < Len(Header("200 OK")) THEN cut \cup {c} ELSE cut
  /\ cpc' = [cpc EXCEPT ![c] = "rest"]
  /\ UNCHANGED <<toServer, holders, reset, left, path2file>>

\* The search for the end of the header runs off the end of buf, as the header
\* was cut or nothing came at all: strchr returns a null pointer.
CrashInHeader(c) ==
  /\ cpc[c] = "first"
  /\ \/ AtEnd(c)
     \/ \E n \in Takes(toClient[c], ClientBuf) : HeaderEnds(SubSeq(toClient[c], 1, n)) = {}
  /\ cut' = cut \cup {c}
  /\ End(c, "crashed")
  /\ UNCHANGED output

\* The loop.
Recv(c) ==
  /\ cpc[c] = "rest"
  /\ \E n \in Takes(toClient[c], ClientBuf) :
       /\ output' = [output EXCEPT ![c] = @ \o SubSeq(toClient[c], 1, n)]
       /\ toClient' = [toClient EXCEPT ![c] = Drop(@, n)]
  /\ UNCHANGED <<toServer, holders, reset, left, cut, cpc, path2file>>

Done(c) ==
  /\ cpc[c] = "rest"
  /\ AtEnd(c)
  /\ End(c, "done")
  /\ UNCHANGED <<cut, output>>

\* recv returns -1.
RecvFails(c) ==
  /\ cpc[c] \in {"first", "rest"}
  /\ c \in reset
  /\ End(c, "failed")
  /\ UNCHANGED <<cut, output>>

Client(c) ==
  \/ Connect(c) \/ SendRequest(c)
  \/ FirstRecv(c) \/ CrashInHeader(c) \/ Recv(c) \/ Done(c) \/ RecvFails(c)

\* The user kills the client.
Kill(c) ==
  /\ cpc[c] \notin Ended
  /\ End(c, "killed")
  /\ UNCHANGED <<cut, output>>
=================================================================================
