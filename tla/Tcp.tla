---------------------------------- MODULE Tcp ----------------------------------
(***************************************************************************)
(* The connections of mp1 and the kernel that keeps them (external).       *)
(*                                                                         *)
(* Each client makes one connection, named after it.  Data is a stream: a  *)
(* sequence of tokens (a word of a header, a byte of a file) of which a    *)
(* recv takes any nonempty beginning that fits its buffer.  A connection   *)
(* is closed when the last process that holds a descriptor of it has       *)
(* closed that; closed with data it has not read it is reset, and the      *)
(* client may then fail to read what is still on its way.                  *)
(***************************************************************************)
EXTENDS Integers, Sequences, FiniteSets

CONSTANTS
  Clients,
  Paths,        \* the paths a request may name
  SendBuffer,   \* tokens on the way to a client at which send blocks
  Segmented     \* whether a recv may take less than what has been sent

ASSUME TcpAssumption == SendBuffer \in Nat \ {0} /\ Segmented \in BOOLEAN

VARIABLES
  toServer, toClient,   \* the two streams of each connection
  holders,              \* processes with a descriptor: "backlog", "parent", "child"
  reset,                \* connections that were reset
  left,                 \* clients that are gone, and their end of the connection with them
  cut                   \* history: connections on which a recv that should have
                        \* taken a whole request or header has not

tcp == <<toServer, toClient, holders, reset, left, cut>>

TcpInit ==
  /\ toServer = [c \in Clients |-> << >>]
  /\ toClient = [c \in Clients |-> << >>]
  /\ holders = [c \in Clients |-> {}]
  /\ reset = {}
  /\ left = {}
  /\ cut = {}

Smaller(a, b) == IF a <= b THEN a ELSE b

\* How much of a stream a recv with room for size tokens may take.
Takes(stream, size) ==
  LET most == Smaller(size, Len(stream))
  IN  IF Segmented THEN 1..most ELSE {most} \ {0}

Drop(stream, n) == SubSeq(stream, n + 1, Len(stream))

\* send to a client.  It blocks while there is no room.
Write(c, data) ==
  /\ c \in left \/ Len(toClient[c]) < SendBuffer
  /\ toClient' = [toClient EXCEPT ![c] = IF c \in left THEN @ ELSE @ \o data]

\* Mutant of Close: shutdown, which ends the connection for everyone.
Shutdown(process, c) ==
  /\ holders' = [holders EXCEPT ![c] = {}]
  /\ UNCHANGED reset

Close(process, c) ==
  /\ holders' = [holders EXCEPT ![c] = @ \ {process}]
  /\ reset' = IF holders[c] = {process} /\ toServer[c] # << >> THEN reset \cup {c} ELSE reset

\* The client exits, or is killed.
Leave(c) ==
  /\ left' = left \cup {c}
  /\ toClient' = [toClient EXCEPT ![c] = << >>]

\* The messages of both programs.
Request(path) == <<"GET", path, "HTTP/1.1">>

Header(status) == <<status, "CR", "LF", "CR", "LF">>
================================================================================
