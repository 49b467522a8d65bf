----------------------------- MODULE FeedSystem -----------------------------
(***************************************************************************)
(* The whole system: one exchange_sim process (publisher thread and        *)
(* recovery server thread) and the feed_handler processes, over multicast  *)
(* and TCP.                                                                *)
(***************************************************************************)
EXTENDS Exchange, FeedHandler

vars == <<exchangeVars, multicast, recoveryVars, handlerVars>>

Init == MulticastInit /\ RecoveryInit /\ ExchangeInit /\ HandlerInit

ExchangeStep == (Publisher \/ SendThrows \/ ExchangeKilled) /\ UNCHANGED handlerVars

ServerStep == ServerThread /\ UNCHANGED handlerVars

ServerFails == PollFails /\ UNCHANGED <<exchangeVars, multicast, handlerVars>>

HandlersStep ==
  /\ \E h \in Handlers : HandlerStep(h) \/ Receive(h) \/ HandlerKilled(h)
  /\ UNCHANGED exchangeVars

\* poll() on a listening socket has no reason to fail.
NextPollWorks == ExchangeStep \/ ServerStep \/ HandlersStep

Next == NextPollWorks \/ ServerFails

Spec == Init /\ [][Next]_vars

-----------------------------------------------------------------------------
(* Fairness: the threads of a running process are scheduled and TCP        *)
(* delivers.  Nothing is assumed of multicast, of the pace at which the    *)
(* exchange publishes, or of kills.                                        *)

Fairness ==
  /\ WF_vars((GraceOver \/ JoinReturns) /\ UNCHANGED handlerVars)
  /\ WF_vars(ServerStep)
  /\ \A h \in Handlers : WF_vars(HandlerStep(h) /\ UNCHANGED exchangeVars)

FairSpec == Init /\ [][NextPollWorks]_vars /\ Fairness

-----------------------------------------------------------------------------
(* Properties.                                                             *)

MapOf(map, keys, values) ==
  /\ DOMAIN map \subseteq keys
  /\ map \in [DOMAIN map -> values]

Reply == [packet_count : Nat, frames : Seq(Packet)]
Request == [start_seq : SeqNums, end_seq : SeqNums]
HandlerPcs == {"recv", "request", "replay", "drain", "done", "failed", "killed"}
ServerPcs == {"loop", "poll", "check", "recv", "lookup", "count", "frames", "exited"}
Counts == [live : Nat, replay : Nat, drain : Nat, requests : Nat, out_of_order : Nat]

\* Every variable keeps its type.
TypeOK ==
  /\ main_pc \in {"store", "send", "grace", "join", "exited"}
  /\ generated \in Nat /\ emitted_messages \in 0 .. Messages /\ packet_sequence \in SeqNums
  /\ multicast \subseteq Packet
  /\ MapOf(packets, SeqNums, Packet)
  /\ listening \in BOOLEAN /\ stop_ \in BOOLEAN
  /\ server_pc \in ServerPcs
  /\ serving \in Handlers \cup {NoClient}
  /\ server_pc \in {"check", "recv", "lookup", "count", "frames"} => serving \in Handlers
  /\ cursor \in SeqNums /\ lookup_end \in SeqNums
  /\ found \in Seq(Packet)
  /\ backlog \in Seq(Handlers)
  /\ conn \in [Handlers -> ConnStates]
  /\ request \in [Handlers -> Request]
  /\ reply \in [Handlers -> Reply \cup {NoReply}]
  /\ handler_pc \in [Handlers -> HandlerPcs]
  /\ limit \in [Handlers -> Limits]
  /\ expected_packet_seq \in [Handlers -> SeqNums]
  /\ applied \in [Handlers -> Seq(Nat)]
  /\ \A h \in Handlers : MapOf(buffered_packets[h], SeqNums, Packet)
  /\ replay_batch \in [Handlers -> Seq(Packet)]
  /\ counts \in [Handlers -> Counts]

\* Whatever is lost, repeated, reordered or replayed, and whoever is killed, a
\* handler's book has been given the generator's first messages, each once and
\* in order (the sequence checks of the receive loop and process_packet_bytes).
AppliedIsPrefix ==
  \A h \in Handlers :
    /\ Len(applied[h]) <= generated
    /\ \A i \in 1 .. Len(applied[h]) : applied[h][i] = i

\* project.md:634: what is discarded as stale is stale or a duplicate, that is,
\* whatever a packet below the expected sequence number carries was applied.
StaleWasApplied ==
  \A h \in Handlers : handler_pc[h] = "recv" =>
    \A packet \in multicast : packet.seq_num < expected_packet_seq[h] =>
      \A i \in 1 .. packet.msg_count : packet.messages[i] <= Len(applied[h])

\* Each time the handler goes back to the socket nothing is parked: a gap is
\* closed before the next datagram is read, so buffered_packets never holds
\* more than the packet that revealed the gap.
NothingParkedAtRecv ==
  \A h \in Handlers :
    /\ handler_pc[h] = "recv" => DOMAIN buffered_packets[h] = {}
    /\ Cardinality(DOMAIN buffered_packets[h]) <= 1

\* A handler that replays has in hand exactly the packets from the one it
\* expects up to the one it parked, at every packet of the replay: a reply cut
\* off by the death of the exchange, short of a packet or with one too many is
\* not begun (request_packets at the end of the stream, request_replay).
ReplayIsWhole ==
  \A h \in Handlers : handler_pc[h] = "replay" =>
    \E s \in DOMAIN buffered_packets[h] :
      replay_batch[h] = [i \in 1 .. s - expected_packet_seq[h] |->
                           packets[expected_packet_seq[h] + i - 1]]

\* A handler exits 1 only when the exchange has stopped or been killed: a
\* packet in the feed was stored before, so a replay is complete, in sequence,
\* and answered by a server that is there (store before send, lookup_range),
\* and the queue of listen() has room for a handler to connect.
FailsOnlyAfterStop ==
  \A h \in Handlers : handler_pc[h] = "failed" => stop_ \/ main_pc = "exited"

\* The summary adds up when a handler exits at its limit: as many messages as
\* asked for, every packet up to the last from one source, and one replay per
\* parked packet.
SummaryAddsUp ==
  \A h \in Handlers :
    LET c == counts[h] IN
      handler_pc[h] \in {"recv", "done"} =>
        /\ c.live + c.replay + c.drain = expected_packet_seq[h] - 1
        /\ c.requests = c.out_of_order
        /\ c.drain + Cardinality(DOMAIN buffered_packets[h]) = c.out_of_order
        /\ c.requests <= c.replay
        /\ handler_pc[h] = "done" => received_messages(h) = limit[h]

\* The exchange's history and the handlers' progress implement the feed a
\* consumer was promised.
Feed == INSTANCE OrderedFeed WITH Consumers <- Handlers, delivered <- applied

FeedIsOrdered == Feed!Spec

\* A packet that reveals a gap is applied in the end, the packets it was
\* missing before it, unless the handler ends first: the wait for a replay has
\* no timeout, so the server must always answer or hang up.
GapIsFilled ==
  \A h \in Handlers, s \in 1 .. Messages :
    s \in DOMAIN buffered_packets[h] ~> expected_packet_seq[h] > s \/ ended(h)

\* Once every handler has ended, ~RecoveryServer's join returns and the
\* exchange exits.
ShutdownCompletes ==
  (main_pc = "join" /\ \A h \in Handlers : ended(h)) ~> main_pc = "exited"

\* README.md:77: the simulator replays the missing packets over TCP.
RequestAnswered ==
  \A h \in Handlers : handler_pc[h] = "request" ~> handler_pc[h] # "request"

\* project.md:133: the replay server is kept alive for --recovery-grace-ms
\* after publishing finishes, and no longer.
GraceEnds == main_pc = "join" ~> main_pc = "exited"
=============================================================================
