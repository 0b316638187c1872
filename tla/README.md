# Verification of the ECE 438 machine problems

The repository holds four independent programs, or pairs of programs, of a
networking course. This directory models them in TLA+, checks the models with
TLC and proves theorems about them with TLAPS. Line numbers are those of the
files under `src/`.

## 1. The system

### mp2: reliable file transfer over UDP (`mp2/src`)

`reliable_sender` sends a file to `reliable_receiver` with a protocol of its own
on top of UDP: a SYN handshake, cumulative acknowledgements, slow start, congestion
avoidance and fast recovery, receive timeouts, and a FIN exchange. They share nothing but
the datagrams (`TCP_header`, `TCP_lib.h:11`): flags, sequence number,
acknowledgement number, send time, and up to `MSS` bytes.

| part | state | operations |
|---|---|---|
| `reliablyTransfer` (`sender_main.C:85`) | `my_state`; the window `cw_head`, `cw_width`, `next_pkt`, `ssthresh`, `dupAckCnt`; the send times `time_q`; the chunk of the file in memory and its `cw_head_offset` | one `case` per state; each sends, then blocks in `TCP_receive` until a datagram or a timeout |
| `reliablyReceive` (`receiver_main.C:112`) | `my_state`, the destination file | the same |
| `packets_buffer` (`receiver_main.C:52`) | `head`, `after_tail`, the vectors `packets` and `flags` | `gotpacket`, `get_ack` |
| UDP (external) | datagrams on their way | loss, duplication, reordering |

Hard: every step of one program interleaves with every step of the other and of the
network; timeouts fire while answers travel; acknowledgements from before a timeout, a
window movement or a chunk arrive after it; acknowledgement arithmetic is
`int32_t` in one state and `uint32_t` in others; the length of `time_q` and the
window have to stay in step although both jump; the receiver ends without comparing
lengths. Correct means: the destination file is always a prefix of the
source, both sides end only when it is whole, the sender drops nothing that has not
arrived, and over a path that is not broken the transfer completes.

### mp3: routing (`mp3/src`)

`distvec` and `linkstate` read a topology, compute the routing tables of all nodes, write
them, forward the messages of a message file along them, and repeat this after every
line of a changes file. `graph.h` has all of it: `Node` (a `node_vector`
of edge cost, distance, next hop, ancestor per destination) and `Graph`.

| part | state | operations |
|---|---|---|
| graph and forwarding | the vectors of all nodes | `parseFile`, `parseLineChange`, `set_edge`, `clear_Vectors`, `output_message` |
| distance vector | the same, `change_flag` | `set_vector_DV`, the rounds of `output_DV` |
| link state | the same, a list used as a heap | `set_vector_LS`, `output_LS` |

There is no concurrency, but the algorithms are iterative and in place: a round of
distance vector mixes routes of this round and the last, and takes the *last* of
several better neighbors rather than the best. The link state search
grows the vector it is working on and keeps parts of it from one search to the next. Correct means: tables
hold shortest paths with ties to the smallest next hop (distance vector) or last hop (link state), messages cost what
the tables say, and rounds, searches and forwarding end.

### mp4: CSMA (`mp4/src/csma.cpp`)

A simulation of nodes that share a channel: backoff, range and collision
count per node, a clock, and the time utilized. Correct means: backoffs stay in their
range, the utilization is that of the channel, and the loop ends.

### mp1: HTTP and datagram demos (`mp1/src`)

`http_server` forks a child per connection; the child reads one request and sends one file in
pieces, and the parent reaps dead children in a SIGCHLD handler. `http_client` writes
the body of the answer to a file.

| part | state | operations |
|---|---|---|
| the parent of `http_server.c` | the accepted descriptor; pending and running signal handler | `accept`, `fork`, `close`; `sigchld_handler` |
| its children | `fptr`, `cnt` | one `recv`, the pieces, `close` and `exit` |
| `http_client.c` | the output file | `connect`, `send`, the first `recv` with the header, the loop of the others |
| TCP and the kernel (external) | two streams per connection, who holds its descriptors | cuts, resets, SIGPIPE |

Hard: every process interleaves with all others and with signals, of which one stands for
many; a connection ends only when both processes have closed it; TCP cuts the header and the
request anywhere, while both sides look at their first `recv` only; either side may be gone. Correct
means: the body arrives unchanged, nobody waits for the client of another, and
no child or descriptor stays behind.

`talker` and `listener` exchange one datagram.

`PROJECT.json` lists the hazards of each at the line where they bite.

## 2. The modules

    FileTransfer            what mp2 promises               (abstract)
        ^ refined by
    ReliableTransfer  =  Sender  +  Receiver  +  network
        |                  |           |
        |                 Udp     Udp, PacketsBuffer
        +-- FairTransfer         fairness, liveness
    OpenReceiver       =  Receiver with several senders on its port
    PacketsBufferProofs  <-  ReliableTransferProofs  <-  WindowProofs

    Routing                 what both programs of mp3 promise  (abstract)
        ^ refined by
    Graph  <-  DistanceVector  <-  MCDistanceVector, DistanceVectorProofs
           <-  LinkState       <-  MCLinkState, LinkStateProofs
           <-  MCGraph (message files), GraphProofs (shortest paths)

    Tcp  <-  HttpServer  <-  Http  <-  MCHttp
         <-  HttpClient  <-          HttpProofs
    Csma   <-  MCCsma, CsmaProofs

### Sender, Receiver, PacketsBuffer, Udp

A program is a thread that runs the code of its state (`sphase`, `rphase` = `"run"`) and
then blocks in `recvfrom` (`"recv"`). One action is the code between two such
points: everything it sends, assigns and decides happens in that action, since nothing
of the other program can be observed in between.
The states of the models are the values of the two `my_state`s, with `crashed` for a
process that dies (`std::bad_alloc`, or a pop that leaves the deque's memory).

| Sender | code | | Receiver | code |
|---|---|---|---|---|
| `SendSyn`, `SynTimeout`, `NotSyn`, `GotSyn` | `s_0`, `s_wait_syn` | | `WaitForSyn` | `s_0` |
| `FillWindow`, `FillWindowOnce` | the send loops | | `AnswerSyn`, `AnswerSynAgain` | `s_reveived_syn` |
| `ReceiveTimeout`, `TimeOut` | timeouts, `s_time_out` | | `FinBeforeData`, `FirstData` | the rest of it |
| `IgnoredAck`, `DuplicateAck`, `InflateWindow`, `AdvanceWindow`, `CrashInPop` | the answers in the three sending states | | `MoreData`, `FinAfterData` | `s_receiving` |
| `Retransmit` | `s_before_fast_recovery` | | `SendOwnFin`, `FinAgain`, | `s_received_fin` |
| `CheckNextChunk` | `s_check_next_chunk` | | `LastDatagram`, `FinTimeout` | |
| `SendFin`, `RetryFin`, `AwaitFinAck`, `AckFin`, `NoFin` | `s_ready_send_fin` | | `gotpacket` = `TakeHead`, `TakeRun`, `FillSlot`, `Grow`, `Stale` | `packets_buffer` |

Abstractions:

- *Packets, not bytes.* Lengths and offsets count packets; the content of a packet is its
  position in the file, so that any exchange, repetition or loss shows. A
  source file shorter than `bytesToTransfer` is as in the code: the bytes of the buffer
  that `fread` does not fill are sent like others. `Total` is at least one (a transfer of zero bytes
  has no working path, see the hazards).
- *Windows are integers.* `cw_width_double` and `ssthresh` are kept by their integer
  parts. Where the fraction decides (`Grown`, `AfterSlowStart`), every result that some
  fraction gives is allowed.
- *`time_q` is its length.* Its values feed only the timeout's duration. A pop from an empty
  `std::queue` is undefined; the model follows libstdc++, where the length turns
  negative, and the process dies when the iterator leaves the deque's node (`DequeNode`).
- *A timeout may fire whenever the program waits with one armed.* Durations and round-trip
  estimates are left out.
- *A `sendto` that fails* is retried by the code. Its one effect on the state, a second
  send time, is kept (`ExtraPushes`); in `s_congestion_avoidance` there is no retry
  and the packet is not sent, and the model does the same. At most one send of a burst fails.
- *32 bits.* `Wrap` stands for 2^32 and `U32` for the conversions to `uint32_t`,
  with the assumption (`WrapAssumption`) that 2^32 is far above the number of packets;
  `MemSlots` is how many slots a vector can grow by before it throws.
- *The network.* `Ordered = FALSE` keeps a set of everything ever sent from
  which anything may be delivered at any time, again or never: all of loss, duplication and reordering.
  `Ordered = TRUE` is a queue of `Capacity` that loses datagrams and drops at its tail.

`written` is a history of what went to the destination file.

`OpenReceiver` is the receiver alone with everything that senders of the file
could send on the way from the start: restarted senders, and old ones that still repeat a FIN.

### Graph, DistanceVector, Routing

`edge`, `dist` and `nexthop` are matrices: row i is node i's `node_vector`. `stage`
says where `output_DV` is: in a round (`Update` is `set_vector_DV` of one node,
`EndRound` the test of `change_flag`), reading messages, forwarding one
(`Hop`), or done. `ChangeLink` is a line of the changes file: the new edge, then
`clear_Vectors`, then the messages from the start of the file again.
`set_vector_DV` writes only the node's own row and reads only its row and those of its
neighbors, never an entry it has written for another destination: hence one
step with all destinations.

Assumptions on the input, all named in `GraphAssumption` or visible in `Change`: changes
name two different nodes of the topology (see hazard `graph.h:228` for others), costs are
not negative and below `LARGEST_MAGIC_NUMBER` or none (`LinkCosts`). `GraphInit` chooses the links the topology
file names: their entries have the other end for a next hop, with `NON_EDGE` too, and all others have the 0 that `Node::Node`, `set_edge`
and `increase_size2` store (`Direct`). `TypeOK` of the distance vector program says that such an
entry has no route. The last node is named by some line, as it is the lines that create the nodes (`IsNamed`).
`walked` is a history: the cost of the edges a message has passed.

`Routing` is what the two programs promise: tables are announced when they hold the shortest
paths (the largest estimate from below), a message is accepted exactly if there is
a route, each hop passes an edge and is paid for by the distance, and links change only between two
rounds of messages. It leaves open how tables are found, among them everything
`set_vector_DV` and `set_vector_LS` do.

### LinkState

`Start` fills the heap of one node, `Pop` takes the smallest pair, `Climb` is one turn of the loop
that looks for the first hop, `Visit` the loop over the vector of the popped node, `NextNode` the
`break` at an unreachable pair. Changes may name new nodes (`LinkChange`): `size` is the number of nodes, `len` the length
of each vector, which `Visit` extends where it meets a longer one.

- The heap is a set of numbers: the distance in a pair is that of the entry, since every assignment to one is
  followed by one to the other. A `visited_flag` is set iff an entry has left the heap, except for
  the own entry, which `clear_vector` passes over (`own_visited`).
- An entry that is not there yet is represented by one without edge and route, and is created as the code creates it where a
  step makes it part of a vector (`Created`, `IsNew`). Entries that `increase_size2` pushed at the end of the topology file have ancestor 0
  (`IsPushed`, `Own`), others their own node.
- `Visit` is one step: the loop writes only the own vector, each entry once, and reads another node's edges.
  When the popped node is the own one, both are the same vector, and no entry is read after it was written.
- `CostAssumption`: costs do not add up to `LARGEST_MAGIC_NUMBER`. Line 183 does not cut them
  off, while line 197 does.

### Tcp, HttpServer, HttpClient, Http

Every process has a program counter; a step is a system call with what follows up to the next. `holders` says which processes
have a descriptor of a connection, `"backlog"` standing for the kernel before `accept`. A
connection is named by its client. `Accept`, `Fork`, `ForkFails` and `CloseNewFd` are the loop of the parent,
`TakeSignal` and `sigchld_handler` interrupt it between any two of them. A child goes through
`ReceiveRequest`, `SendFirst`, `SendRest` and `Exit`.

- *Streams, not bytes.* A stream is a sequence of tokens: the words of a request, the status line, CR, LF, the bytes of
  a file. With `Segmented` a `recv` returns any beginning; without, all there is. Words do not break up: a cut
  in one acts like a cut before it.
- *Undefined behaviour.* When the request or the header is cut, the programs read what was
  never written. `ReceiveLess` lets the child do anything it could do: open any path, answer
  400, or die. `FirstRecv` allows `Junk` after a header without its last LF; `CrashInHeader` is the search that
  meets no LF. `cut` remembers such connections, as `OutputIsFile` is not about them.
- *The end.* `close`, `fclose`, `free` and `exit` of a child are one step: that `fclose` crashes after a 404 makes
  no difference to anyone, since the answer is sent and the connection closed before.
- *The kernel.* A close with unread data resets the connection, after which the client may fail to read. A `send`
  to a client that is gone succeeds without effect or kills the child. A full buffer blocks. Resets are not lost.
- A client may be killed at any time (`Kill`), and clients that are not `Lively` may stop anywhere.

### Csma

One action per `case` of the switch: `Idle`, `Transmit(k)`, `Collide`. `busy` is a
history: the ticks in which a packet is on the channel. Input values are
constrained to those for which the program is defined (no empty list, no range of zero).

## 3. What is checked

Every run ends in `CHECK_DEADLOCK FALSE`: all these programs end.

| run | instance | properties | what it shows |
|---|---|---|---|
| `any_network` | unordered; 5 packets in one chunk | `TypeOK`, `TimeQueueCovers`, `FinImpliesComplete`, `FinIsAnswered` | the window never becomes zero; `time_q` always has the send times that `front()` needs, in spite of timeouts, stale acknowledgements and jumps of `next_pkt`; FIN only after the whole file, and no end of the sender before the receiver has taken it |
| `any_network_chunks` | unordered; 6 packets in two chunks | `AckedIsReceived`, `Implements` | the sender never moves past what is written, also across chunks; the pair implements `FileTransfer` |
| `ordered_path` | queue of 3; 6 packets in two chunks | `StaleAckRecognised`, `NoLateSyn` | no acknowledgement of an old window or chunk passes for a new one; no SYN gets into the buffer |
| `fair_transfer` | queue of 3; 4 packets | `Delivered` | under `FairSpec` the file arrives and the receiver ends |
| `open_receiver` | 4 packets, any sender | `FileIntegrity`, `BufferAligned`, `AcksAreWritten` | file, buffer and acknowledgements agree whatever order the packets arrive in |
| `distance_vector` | all graphs on 3 nodes, costs 0, 1, 3, INF 5, any change | `TypeOK`, `NeverTooShort`, `RoutesConverged`, `CostOfPath`, `Implements` | tables are shortest when written and never too short before; the program implements `Routing` |
| `distance_vector_paths` | all graphs on 4 nodes, costs 1, 3, INF 9, any change | `ShortestPaths`, `LowestNextHop`, `Terminates` | the same against the textbook definition of shortest paths, the cheapest walks of at most n - 1 edges (`Within`); ties; the program ends |
| `link_state` | all graphs on up to 3 nodes, costs 0, 1, 3, two changes that may add nodes | `TypeOK`, `Implements`, `SearchEnds` | the program implements `Routing`; the climb never meets a missing ancestor nor a circle, though the own entry keeps its flag and ancestor |
| `link_state_paths` | all graphs on up to 4 nodes, costs 1, 3, one change that may add nodes | `VisitedIsFinal`, `LowestLastHop`, `EntryExists`, `ShortestPaths`, `Terminates` | what has left the heap is final; vectors that grow in the search give shortest paths and reach as far as forwarding reads; ties; the program ends |
| `http_stream` | one client, streams cut anywhere, files of 3 and 4 bytes (one zero) in pieces of 2, and no file | `TypeOK`, `OutputIsFile` | pieces are neither lost nor repeated nor mixed up, whatever the cuts, kills and failing forks |
| `http` | two clients, one of which may stall | `OutputIsFile`, `ZombiesAreAnnounced`, `ClientsEnd`, `NothingLeftBehind` | one signal for several children is enough; no client waits for another; connections leave nothing behind |
| `csma` | up to 5 nodes, 8 lists of ranges, 3 lengths, 3 times | `TypeOK`, `BackoffInRange`, `UtilizationExact`, `TwinsInLockstep`, `TwinsNeverTransmit`, `Terminates` | the clock and the backoffs fit; nodes that are congruent modulo every range starve |

For each property `PROJECT.json` names a plausible bug (an operator marked "Mutant" in the
module) that makes TLC find it violated.

**Bounds, and why they are enough.** Five or six packets let the window grow
through slow start, reach the initial threshold of 2 (3 in `fair_transfer`), enter
congestion avoidance, and have three duplicate acknowledgements trigger fast recovery, with packets
left to send in each. Two chunks of three are the smallest instance in which
acknowledgements of the first are on the way when the second is numbered. `MaxWindow` (6 or 7)
stops the inflation of the window in fast recovery, when it is already wider than what is left of the
chunk; it only guards `InflateWindow`. `MaxQueue` 20 bounds the
pushes to `time_q`, which repeated failures could make arbitrarily long. `Wrap` 1000
and `MemSlots` 100 keep the proportions of the code (memory less than 2^32 slots, both far
above the counts of packets); `DequeNode` 64 is libstdc++'s. Four nodes give both routing programs
routes of three edges, alternatives of equal cost and the two-node loop that
counts to infinity where tables are not cleared; INF 9 equals the cost of a path of three
edges of cost 3, and INF 5 is below one of two, so routes saturate. `MaxChanges` 1 is one change after convergence from any
graph; a second starts from a state that is itself converged, as
the proofs confirm for any number. For `link_state` a second change matters, as the own entries keep
what the search before has left; in `link_state_paths` a change that adds the fourth node to three
makes short and long vectors meet along a route. INF is above the sum of
the costs of any path, as `CostAssumption` demands.
Two children are enough for one signal to stand for both, or to come in the midst of the handler. `SendBuffer` lets
a child block after its first piece. The pieces of 2 and the `ClientBuf` of 6, one more than a
header, cut a file of four bytes in every way; a header has to fit the client's buffer, as it does in the code.
The two runs of mp1 divide the work: `http_stream` has the cuts, `http` the processes.
The twins of `csma` need two nodes that differ by a multiple of all ranges:
nodes 0 and 4 for `<<2, 4>>`.

**Fairness.**
- `FairTransfer!FairSpec`: a thread that is not blocked runs on and an armed
  timeout eventually expires (weak fairness of each thread: the OS schedules it). Timeouts may still come
  too early every time. The path: if a side sends for ever, the other side receives for ever, and not
  every acknowledgement of a FIN that is answered for ever is lost. Nothing says that
  a given packet arrives. `SendMayFail` is off in this run: a host where every send fails
  has no fair path.
- Only the receiver's end is promised. The last acknowledgements of a FIN may be lost and the receiver
  leaves after five seconds; then `s_ready_send_fin` sends its FIN for ever, as no code bounds the
  retries. No protocol can promise both ends; the property says what holds.
- `Http!FairSpec`: weak fairness of the parent with its handler, of every child and of the clients in `Lively`: the OS
  schedules every process that is not blocked. Nothing is assumed of the other clients.
- `DistanceVector!FairSpec`, `LinkState!FairSpec` and `Csma!Spec`: weak fairness of `Next`, one
  thread that never blocks. `Terminates` of the two routing programs is checked with positive
  costs: with cost 0 two next hops may point at each other and
  `output_message` does not end; `SearchEnds` is checked with cost 0 too.

## 4. What is proved

All for every value of the constants, from the assumptions named in the modules.

| module | theorem | |
|---|---|---|
| `ReliableTransferProofs` | `TypeCorrectness`, `FileIsPrefix`, `BufferIsAligned`, `AckedPacketsAreReceived`, `AcksCoverTheFile`, `FinMeansComplete`, `SenderEndsAfterReceiver` | invariants of `ReliableTransfer!Spec`, for every file, chunk size and either network |
| | `Refinement` | `Spec => Implements`: the pair implements `FileTransfer` |
| | `AnySenderIsSafe` | `FileIntegrity`, `BufferAligned`, `AcksAreWritten` of `OpenReceiver`, whoever sends |
| `WindowProofs` | `SendTimesCoverTheWindow`, `StaleAcksAreRecognised` | on either network, with the scope the properties have |
| | `NoSynAfterTheHandshake` | from the assumption that the memory has room for a chunk |
| `GraphProofs` | `WithinIsShortest` | of any graph: the two definitions of a shortest path agree |
| `DistanceVectorProofs` | `TypeCorrectness`, `DistancesNeverTooShort`, `TablesAreShortest`, `DistancesAreShortest`, `NextHopsAreLowest`, `MessagesCostTheirDistance` | for every topology, message file and sequence of changes |
| | `Refinement` | `Spec => Implements`: the program implements `Routing` |
| `LinkStateProofs` | `TypeCorrectness`, `PoppedIsFinal`, `DistancesAreShortest`, `MessagesFindTheirEntry`, `MessagesCostTheirDistance` | the same, with changes that add nodes |
| | `LastHopIsLowest` | from the assumption that no edge costs 0 |
| | `Refinement` | `Spec => Implements`: the program implements `Routing` |
| `HttpProofs` | `TypeCorrectness`, `NoZombieIsForgotten`, `ClientsGetTheirFiles` | for any number of clients, files, sizes of pieces and cuts of the streams |
| `CsmaProofs` | `TypeCorrectness`, `BackoffStaysInRange`, `TwinsStayInLockstep`, `TwinsStarve`, `UtilizationIsExact` | for all inputs |

**mp2.** None of the invariants is inductive alone: that the file is a prefix
depends on what is in flight, which depends on what the sender believes, which depends on acknowledgements
in flight. `IInv` closes the circle. `BufferInv` says that slot i of the buffer can
only hold packet `head + i - 1`. `SenderInv` says that sequence numbers equal file positions
(`cw_head_offset = file_offset` until the end) and `Acked <= head`.
`NetworkInv` says of each datagram who could have sent it: data only below
`SentLimit`, the end of the chunk in memory; an acknowledgement only of what is
in the file; a FIN only when the file is whole. `head` and `SentLimit` only grow, so that what was
true of a datagram when it was sent stays true however long it travels (`SentLimitGrows`,
`SenderFrame`, `ReceiverFrame`); from there one lemma per action
(`FillWindowStep`, `AcceptStep`, ...) and one (`GotPacketFact` of `PacketsBufferProofs`) for the whole buffer.
`NewAckFact` is the lemma on `uint32_t` arithmetic: an acknowledgement that is taken for new and
survives the pops is one of the current chunk, as a wrapped one would have to pop some 2^32
send times. `StepRefines` then maps a step that writes to `Deliver`, the two
ends to `SenderFinishes` and `ReceiverFinishes`, and all others, crashes included, to a stutter.
`FinIsAnswered` relates the two ends: the sender is done only if the receiver has taken the FIN. It is inductive together
with the step before it (`FinAnsweredInv`: a sender in the second `TCP_receive` of `s_ready_send_fin` has heard a receiver that closes),
given `NetworkInv`'s claim that nothing but a closing receiver sends a FIN flag (`WayToTheEnd`).

`AnySenderIsSafe` is about the receiver alone. `AnyInv` needs none of what ties the receiver to one sender: packet k carries
position k whoever sends it, and whatever has no data has a sequence number that does not fit the memory
(`AnyAccept`, from `OpenAssumption`). `SameReceiver` says that the receivers of both compositions are one.

**The window.** `TimeQueueCovers` is not inductive: what a step pops depends on how far the window has been
filled. `QueueInv` adds that the sender sends only while packets of the chunk are left, and that wherever it
waits for an acknowledgement its whole window is in flight; so `next_pkt` never jumps over packets that were not sent
since the timeout (`RetransmitKeepsQueue`), and a timeout, which empties the queue, sets `next_pkt` back too.

**The order of datagrams.** Three invariants about the channels, each proved on top of those before.
`FirstPacketInv`: until packet 0 is in the file the window is one, and nothing else was sent or acknowledged.
`HandshakeInv`: on a path that keeps the order the SYNs are in front of everything else, hence consumed when the receiver leaves
`s_reveived_syn`, and no packet is more than a chunk ahead. `AckOrderInv`: acknowledgements on such a path never fall, and
none is older than the last one taken, so that `uint32_t` arithmetic has nothing to wrap around. `NoSynAfterTheHandshake` assumes
`ChunkPkts <= MemSlots`: a chunk of `MAX_FILE_LEN` = 10^8 bytes has some 70000 packets (`sender_main.C:52`), and the vectors of the
receiver grow by at most that many strings of which one has data.

**Shortest paths.** `NeverTooShort` compares distances with every estimate from below, without recursion; `ShortestPaths` compares
them with `Within`, the textbook's recursion over the number of edges. `GraphProofs` shows that they mean the same. tlapm reads a
recursive function as a choice, so that its recursion has to be proved first (`WithinFact`, by gluing finite beginnings of
it); induction is over sets of numbers (`Induction`), which needs no operator as parameter. `Least` is the cost of the cheapest walks of any length,
and is the largest estimate. As long as some nodes need more than k edges, one of them needs k + 1 (`OneNodeMore`): otherwise those
nodes could all cost one more and still be an estimate. So n - 1 edges suffice for n nodes (`ExactNodes`).

**Distance vector.** The distances are never below an estimate (`NeverTooShort`).
`IInv` adds `RoundOK`: in a round without a change so far, the nodes already passed are settled
(nothing improves them), since nothing they read has changed. When the round ends all are, which is
`RoutesConverged` and `LowestNextHop`. `RouteOK` says that a route is never better than
the one its next hop now has: distances only fall between two `clear_Vectors`.
`StepRefines` maps the last round to `Announce` (`SettledIsShortest`), the steps of `output_message` to `Refuse`,
`Accept`, `Hop` (`NextHopFits`) and `Deliver`, and all updates before to stutters.

**Link state.** A row of the tables is fresh (as parsing or `clear_vector` leaves it), done, or the one the search is at (`RowsOK`). A
fresh entry may have ancestor 0, but only without an edge (`RowFresh`). The search is
Dijkstra's, and its invariant has the textbook's parts: no distance of node's row is too short (`NotTooShort`, against every
`Lower`, an estimate seen from the other end), what has left the heap (`Popped`) is at most as far as what has not, and what was visited
(`Passed`) is settled. Four things are this program's own. The vector grows in the search: an entry that is new was not there to be
improved, and must still be no nearer than what is popped. Line 183 does not cut distances off at INF: every visit adds one edge, so a distance is at most
`MaxCost * (visits + 1)`, and `CostAssumption` keeps that below INF. The next hop is found by climbing ancestors:
ancestors of visited entries were visited, and share their next hop (`ClimbOK`, `RoutesOK`), also where the own entry has kept
an ancestor from an earlier search (`OwnOK`). Ties: an ancestor is the lowest of those *visited so far* (`LastHopOK`), which becomes the lowest of
all only if nothing at the same distance is visited later; with an edge of cost 0 it may be, hence the assumption of `LastHopIsLowest`
(`0 \notin Costs`). `PoppedIsFinal` follows in any state of the search, since distances cut off at that of a popped entry are an
estimate. When the last row is done all are exact (`RowsExact`) and `StepRefines` maps that step to `Announce`; that the next hop fits the next node's row,
which another search has computed, is `NextHopFits`.

**HTTP.** `IInv` has the types, `ConnectionOK` (a connection in the backlog has no child; a child that has not read yet
meets nothing or the request of its own client) and `AcceptedOK` (the parent forks for a connection that only it
holds), without which a path that is opened could be anything and a connection could get two
children. `ZombiesAreAnnounced` is then inductive by itself: whatever makes a zombie sets the
signal, and the handler returns only when it finds none.
`ClientsGetTheirFiles` needs `StreamInv`: of every connection that was not cut, what the child still has to send, what is on its way and
what the client has written make up, in this order, the answer for the path of its request. What is sent is counted in bytes of the file, of which some
are dropped (`strncpy` ends at a zero byte, and with it the piece): `SentOfPiece` and `BodyGrows` say that a piece of `MAXDATASIZE` more adds
to `Sent` just what `Expected` has of it. `HttpServerAssumption` says what the proof needs of the
constants: pieces are not empty, files are sequences of bytes, and no path is the mark of a bad request.

**CSMA.** `IInv` has the type of the input, `BackoffInRange` and `TwinsInLockstep`,
`ClockOK` (`utilized_time` never lags behind the overshoot of the last packet) and `BusyOK`
(`busy` has as many ticks as `utilized_time`, all of those past `max_time` among them). Twins: `(id + t) % R` is equal
for numbers congruent modulo R (`SameRemainder`, `TwinsDraw`).

**Only model-checked:** `Delivered`, `Terminates`, `SearchEnds`, `ClientsEnd` and `NothingLeftBehind`: liveness under fairness is out of the
prover's reach. Every invariant that a run checks, and every refinement, is a theorem.

## 5. What the properties do not promise

These follow from the code and are visible in the models as the scope of a property:

- On a path that reorders, the sender can take an acknowledgement of the chunk before for
  one of about 2^32 and die in the pops (`CrashInPop`), and the receiver can meet a late SYN in
  `s_receiving` and die of `bad_alloc`. The file stays a prefix (`Implements`).
- `graph.h:228`: after a change that names a new node the distance vector program reads past the end of the
  vectors of all other nodes. Nothing can be said of what follows; `DistanceVector` leaves it out.
- A header that does not arrive in the client's first `recv`, or a request that the child does not get
  in one piece: the client may crash, write less or junk. TCP permits it, and `OutputIsFile` excludes exactly these.
- A client that gets no answer, as `fork` has failed, crashes on a null pointer; `ClientsEnd` counts that as an end.
- `receiver_main.C:193`: a FIN of an earlier sender that arrives before the first packet closes the receiver. The file is a prefix
  of the source (`OpenReceiver`), and nothing says that it is the whole.
- `sender_main.C:538`: the sender repeats its FIN for ever when the receiver is gone; `FinIsAnswered` and `Delivered` say nothing of that end.
- `graph.h:418`: forwarding may go in a circle of edges that cost 0.
- `sender_main.C:58`, a remaining time of exactly zero disarms the timeout: durations are not
  modelled.

**Not modelled:** `talker` and `listener` (one datagram, no state); socket setup and the parsing of paths in mp1;
makefiles, scripts, object files and sample data; parsing of arguments and files; output formats;
round-trip estimation; the rounding of the utilization.

## 6. Plan

Order of work; done: 1 to 8.

1. mp2: `Udp`, `PacketsBuffer`, `Receiver`, `Sender`, `ReliableTransfer`, `FileTransfer`,
   `FairTransfer`, `OpenReceiver`; safety, refinement, liveness; proofs.
2. mp3: `Graph`, `DistanceVector`; checks and proofs.
3. mp4: `Csma`; checks and proofs.
4. `LinkState` on top of `Graph`, with changes that add nodes; `Routing`, which both programs implement; the
   refinement of distance vector proved.
5. mp1: `Tcp`, `HttpServer`, `HttpClient`, `Http`.
6. The inventory and the list of hazards, kept up with the models.
7. Proofs about `LinkState`: popped distances are final and never too short, hence `Implements`; about `Http`: `OutputIsFile` by an invariant
   on what is sent, on the way and written.
8. Proofs of `TimeQueueCovers`, and of `StaleAckRecognised` and `NoLateSyn` on
   ordered paths (invariants about the order of the queues); of `OpenReceiver`; of the two definitions of shortest paths (`GraphProofs`).
9. Left: safety lemmas that liveness rests on, such as a measure that every round of distance vector and every step
   of the link state search lowers.
