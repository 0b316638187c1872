---------------------------------- MODULE Http ----------------------------------
(***************************************************************************)
(* mp1: http_server and its http_clients.                                  *)
(***************************************************************************)
EXTENDS HttpServer, HttpClient

CONSTANT Lively   \* clients whose processes are scheduled: others may stall

ASSUME HttpAssumption == Lively \subseteq Clients

vars == <<tcp, server, client>>

Init == TcpInit /\ HttpServerInit /\ HttpClientInit

Next ==
  \/ Parent /\ UNCHANGED client
  \/ \E c \in Clients :
       \/ Child(c) /\ UNCHANGED client
       \/ (Client(c) \/ Kill(c)) /\ UNCHANGED server

Spec == Init /\ [][Next]_vars

\* Every process runs on unless it is blocked, but for the clients that stall.
FairSpec ==
  /\ Spec
  /\ WF_vars(Parent /\ UNCHANGED client)
  /\ \A c \in Clients : WF_vars(Child(c) /\ UNCHANGED client)
  /\ \A c \in Lively : WF_vars(Client(c) /\ UNCHANGED server)

-----------------------------------------------------------------------------
Processes == {"backlog", "parent", "child"}

\* The variables keep to their types; a child has its connection open.
TypeOK ==
  /\ holders \in [Clients -> SUBSET Processes]
  /\ reset \subseteq Clients
  /\ left = {c \in Clients : cpc[c] \in Ended}
  /\ cut \subseteq Clients
  /\ pc \in {"accept", "fork", "close"}
  /\ new_fd \in Clients
  /\ sigchld \in BOOLEAN
  /\ reaping \in BOOLEAN
  /\ child \in [Clients -> {"none", "recv", "first", "rest", "zombie", "reaped"}]
  /\ file \in [Clients -> Paths \cup {BadRequest}]
  /\ cnt \in [Clients -> Nat]
  /\ cpc \in [Clients -> {"connect", "send", "first", "rest"} \cup Ended]
  /\ path2file \in [Clients -> Paths]
  /\ \A c \in Clients :
       ("child" \in holders[c]) <=> (child[c] \in {"recv", "first", "rest"})

\* The bytes of a file that a client is to get: all but those that share a
\* piece of MAXDATASIZE with a zero byte and do not come before it.
Piece(i) == (i - 1) \div MAXDATASIZE

Expected(path) ==
  IF path \in DOMAIN Files
  THEN LET f == Files[path]
           sent == {i \in 1..Len(f) : \A j \in 1..i : Piece(j) = Piece(i) => f[j] # "NUL"}
           place(i) == Cardinality({j \in sent : j <= i})
       IN  [k \in 1..Cardinality(sent) |-> f[CHOOSE i \in sent : place(i) = k]]
  ELSE <<"Whoops">>

\* A client whose request and header were received in one piece each writes what it
\* asked for in the order of the file, whatever the pieces of the rest and
\* whatever other children, clients and signals do in the meantime, and ends
\* well only with the whole of it, although nothing tells it the length.
OutputIsFile ==
  \A c \in Clients \ cut :
    /\ Len(output[c]) <= Len(Expected(path2file[c]))
    /\ output[c] = SubSeq(Expected(path2file[c]), 1, Len(output[c]))
    /\ cpc[c] = "done" => output[c] = Expected(path2file[c])

\* No dead child waits for a signal that is not to come: several that die at
\* once are announced by one signal, or die in the midst of the handler.
ZombiesAreAnnounced == Zombies # {} => sigchld \/ reaping

\* A client that is not stalled ends, whatever the others do or fail to do.
ClientsEnd == \A c \in Lively : <>(cpc[c] \in Ended)

\* A client that ends, in whatever way, leaves no process and no
\* descriptor behind in the server.
NothingLeftBehind ==
  \A c \in Clients :
    c \in left ~> (holders[c] = {} /\ child[c] \in {"none", "reaped"})
=================================================================================
