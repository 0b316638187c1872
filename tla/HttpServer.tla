------------------------------- MODULE HttpServer -------------------------------
(***************************************************************************)
(* http_server.c: the accept loop of the parent, the children that it      *)
(* forks for every connection, and the SIGCHLD handler that interrupts it. *)
(***************************************************************************)
EXTENDS Tcp

CONSTANTS
  Files,         \* the bytes of the files, by their paths
  MAXDATASIZE    \* bytes of a file that are sent at a time

VARIABLES
  pc, new_fd,    \* where the parent is, and the connection it has accepted
  sigchld,       \* SIGCHLD is pending
  reaping,       \* the parent is in sigchld_handler
  child,         \* where the child of each connection is
  file, cnt      \* a child's fptr, by the path, and its cnt

parent == <<pc, new_fd, sigchld, reaping>>
children == <<child, file, cnt>>
server == <<parent, children>>

BadRequest == "400 Bad Request"

\* It is no path, and a file is a sequence of tokens.
ASSUME HttpServerAssumption ==
  /\ MAXDATASIZE \in Nat \ {0}
  /\ BadRequest \notin Paths
  /\ Files \in [DOMAIN Files -> Seq(STRING)]

HttpServerInit ==
  /\ pc = "accept"
  /\ new_fd \in Clients
  /\ sigchld = FALSE
  /\ reaping = FALSE
  /\ child = [c \in Clients |-> "none"]
  /\ file = [c \in Clients |-> BadRequest]
  /\ cnt = [c \in Clients |-> 0]

-----------------------------------------------------------------------------
\* The accept loop.
Accept ==
  /\ pc = "accept"
  /\ \E c \in Clients :
       /\ holders[c] = {"backlog"}
       /\ new_fd' = c
       /\ holders' = [holders EXCEPT ![c] = {"parent"}]
  /\ pc' = "fork"
  /\ UNCHANGED <<toServer, toClient, reset, left, cut, child>>

\* The child has a copy of the descriptor.
Fork ==
  /\ pc = "fork"
  /\ child' = [child EXCEPT ![new_fd] = "recv"]
  /\ holders' = [holders EXCEPT ![new_fd] = @ \cup {"child"}]
  /\ pc' = "close"
  /\ UNCHANGED <<toServer, toClient, reset, left, cut, new_fd>>

\* fork returns -1, which the parent does not tell from a child's number.
ForkFails ==
  /\ pc = "fork"
  /\ pc' = "close"
  /\ UNCHANGED <<tcp, new_fd, child>>

\* Mutant of CloseNewFd: the parent keeps its descriptor.
KeepNewFd ==
  /\ pc = "close"
  /\ pc' = "accept"
  /\ UNCHANGED <<tcp, new_fd, child>>

CloseNewFd ==
  /\ pc = "close"
  /\ Close("parent", new_fd)
  /\ pc' = "accept"
  /\ UNCHANGED <<toServer, toClient, left, cut, new_fd, child>>

Zombies == {c \in Clients : child[c] = "zombie"}

\* The signal is taken when the handler is not running; it stands for all
\* the children that have died since.
TakeSignal ==
  /\ sigchld
  /\ ~ reaping
  /\ sigchld' = FALSE
  /\ reaping' = TRUE
  /\ UNCHANGED <<child>>

\* Mutant of sigchld_handler: one waitpid for one signal.
ReapOne ==
  /\ reaping
  /\ reaping' = FALSE
  /\ \E c \in Zombies : child' = [child EXCEPT ![c] = "reaped"]
  /\ UNCHANGED sigchld

\* A waitpid of the loop, the last one of which finds no one.
sigchld_handler ==
  /\ reaping
  /\ reaping' = (Zombies # {})
  /\ \/ \E c \in Zombies : child' = [child EXCEPT ![c] = "reaped"]
     \/ Zombies = {} /\ UNCHANGED child
  /\ UNCHANGED sigchld

Parent ==
  \/ /\ ~ reaping
     /\ Accept \/ Fork \/ ForkFails \/ CloseNewFd
     /\ UNCHANGED <<sigchld, reaping, file, cnt>>
  \/ /\ TakeSignal \/ sigchld_handler
     /\ UNCHANGED <<tcp, pc, new_fd, file, cnt>>

-----------------------------------------------------------------------------
\* A child that exits, is killed or crashes: its descriptor is closed.
Die(c) ==
  /\ child' = [child EXCEPT ![c] = "zombie"]
  /\ sigchld' = TRUE
  /\ Close("child", c)
  /\ UNCHANGED <<toClient, left, pc, new_fd, reaping, file, cnt>>

Open(c, path) ==
  /\ file' = [file EXCEPT ![c] = path]
  /\ child' = [child EXCEPT ![c] = "first"]
  /\ UNCHANGED <<toClient, holders, reset, left, parent, cnt>>

\* The one recv takes the request up to the end of the path at least.
ReceiveRequest(c) ==
  /\ child[c] = "recv"
  /\ \E n \in Takes(toServer[c], 3) :
       /\ n >= 2
       /\ Open(c, toServer[c][2])
       /\ toServer' = [toServer EXCEPT ![c] = Drop(@, n)]
       /\ cut' = IF n < 3 THEN cut \cup {c} ELSE cut

\* It takes less, or nothing as the client is gone: the rest of buf was
\* never written, and whatever is there decides (undefined behaviour).
ReceiveLess(c) ==
  /\ child[c] = "recv"
  /\ \/ /\ 1 \in Takes(toServer[c], 3)
        /\ toServer' = [toServer EXCEPT ![c] = Drop(@, 1)]
     \/ /\ toServer[c] = << >>
        /\ c \in left
        /\ UNCHANGED toServer
  /\ cut' = cut \cup {c}
  /\ \/ \E path \in Paths \cup {BadRequest} : Open(c, path)
     \/ Die(c)

\* recv returns -1.
ReceiveFails(c) ==
  /\ child[c] = "recv"
  /\ c \in left
  /\ Die(c)
  /\ UNCHANGED <<toServer, cut>>

\* A file that cannot be opened has no bytes; nor has a bad request.
string(c) == IF file[c] \in DOMAIN Files THEN Files[file[c]] ELSE << >>

\* strncpy, strlen: the bytes before the first that is zero.
Text(s) ==
  LET zeros == {i \in 1..Len(s) : s[i] = "NUL"}
  IN  CHOOSE t \in {SubSeq(s, 1, n) : n \in 0..Len(s)} :
        IF zeros = {} THEN t = s
        ELSE Len(t) + 1 \in zeros /\ \A i \in zeros : Len(t) < i

\* Mutant of senddata: the zero that ends the copy takes the place of a byte.
ShortSendData(c, from) ==
  Text(SubSeq(string(c), from + 1, Smaller(from + MAXDATASIZE - 1, Len(string(c)))))

senddata(c, from) ==
  Text(SubSeq(string(c), from + 1, Smaller(from + MAXDATASIZE, Len(string(c)))))

response(c) ==
  CASE file[c] = BadRequest -> Header(BadRequest)
    [] file[c] \in DOMAIN Files -> Header("200 OK") \o senddata(c, 0)
    [] OTHER -> Header("404 Not Found") \o <<"Whoops">>

SendAndGoOn(c, data) ==
  /\ Write(c, data)
  /\ cnt' = [cnt EXCEPT ![c] = @ + MAXDATASIZE]
  /\ child' = [child EXCEPT ![c] = "rest"]
  /\ UNCHANGED <<toServer, holders, reset, left, cut, parent, file>>

SendFirst(c) ==
  /\ child[c] = "first"
  /\ SendAndGoOn(c, response(c))

\* The loop runs once more for a file of a whole number of pieces.
SendRest(c) ==
  /\ child[c] = "rest"
  /\ cnt[c] < Len(string(c)) + 1
  /\ SendAndGoOn(c, senddata(c, cnt[c]))

\* SIGPIPE: a send after the client is gone.
Killed(c) ==
  /\ child[c] = "first" \/ (child[c] = "rest" /\ cnt[c] < Len(string(c)) + 1)
  /\ c \in left
  /\ Die(c)
  /\ UNCHANGED <<toServer, cut>>

\* close, then fclose and exit.  After a 404 the fclose gets a null pointer
\* and the child crashes, which is the same for everyone else.
Exit(c) ==
  /\ child[c] = "rest"
  /\ cnt[c] >= Len(string(c)) + 1
  /\ Die(c)
  /\ UNCHANGED <<toServer, cut>>

Child(c) ==
  \/ ReceiveRequest(c) \/ ReceiveLess(c) \/ ReceiveFails(c)
  \/ SendFirst(c) \/ SendRest(c) \/ Killed(c) \/ Exit(c)
=================================================================================
