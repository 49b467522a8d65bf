-------------------------- MODULE RecoveryRequests --------------------------
(***************************************************************************)
(* The recovery service as its interface has it: RecoveryClients that ask  *)
(* for any range of packets, while the exchange goes on publishing.  The   *)
(* feed handlers of FeedSystem only ever ask for packets that exist.       *)
(*                                                                         *)
(* The publisher is refined by one step: a packet is stamped before it is  *)
(* stored, and the publisher may have to wait for the mutex in between.    *)
(***************************************************************************)
EXTENDS Exchange, FiniteSets

\* A bound: sequence numbers do not come round.
ASSUME RequestsAssumption == Messages <= MaxSeq

VARIABLES
  stamped,     \* publish_tsc of the packet under way has been read
  client_pc,   \* where each client is: "idle", "asking", "answered" or "failed"
  ask,         \* the range each client asked for, or NoRequest
  known,       \* how many packets had been stored when it asked
  answer       \* what request_packets returned

clientVars == <<client_pc, ask, known, answer>>
requestVars == <<exchangeVars, multicast, recoveryVars, stamped, clientVars>>

RequestsInit ==
  /\ MulticastInit /\ RecoveryInit /\ ExchangeInit
  /\ stamped = FALSE
  /\ client_pc = [h \in Handlers |-> "idle"]
  /\ ask = [h \in Handlers |-> NoRequest]
  /\ known = [h \in Handlers |-> 0]
  /\ answer = [h \in Handlers |-> <<>>]

-----------------------------------------------------------------------------
(* The exchange.                                                           *)

\* Generate a batch and read publish_tsc.
Stamp ==
  /\ main_pc = "store"
  /\ ~stamped
  /\ stamped' = TRUE
  /\ UNCHANGED <<exchangeVars, multicast, recoveryVars, clientVars>>

\* Serialise and store the packet once the mutex is free.
Store ==
  /\ stamped
  /\ StorePacket
  /\ UNCHANGED <<stamped, clientVars>>

SendStamped ==
  /\ SendPacket
  /\ stamped' = FALSE
  /\ UNCHANGED clientVars

Exit == (GraceOver \/ JoinReturns \/ ExchangeKilled) /\ UNCHANGED <<stamped, clientVars>>

ServerStep == ServerThread /\ UNCHANGED <<stamped, clientVars>>

-----------------------------------------------------------------------------
(* RecoveryClient.                                                         *)

\* request_packets of an empty range returns without the server.
RequestNothing(h) ==
  /\ client_pc[h] = "idle"
  /\ \E start_seq, end_seq \in SeqNums :
       /\ start_seq > end_seq
       /\ ask' = [ask EXCEPT ![h] = [start_seq |-> start_seq, end_seq |-> end_seq]]
  /\ client_pc' = [client_pc EXCEPT ![h] = "answered"]
  /\ answer' = [answer EXCEPT ![h] = <<>>]
  /\ UNCHANGED <<exchangeVars, multicast, recoveryVars, stamped, known>>

Request(h) ==
  /\ client_pc[h] = "idle"
  /\ \E start_seq, end_seq \in SeqNums :
       /\ start_seq <= end_seq
       /\ SendRequest(h, start_seq, end_seq)
       /\ ask' = [ask EXCEPT ![h] = [start_seq |-> start_seq, end_seq |-> end_seq]]
  /\ known' = [known EXCEPT ![h] = Cardinality(DOMAIN packets)]
  /\ client_pc' = [client_pc EXCEPT ![h] = "asking"]
  /\ UNCHANGED <<exchangeVars, multicast, stamped, answer>>

\* The count that comes first exceeds the range that was asked for.
TooManyPackets(h) == reply[h].packet_count > ask[h].end_seq - ask[h].start_seq + 1

\* The server cannot be reached, or the stream ends inside the reply.  On a
\* count too large request_packets throws at once and leaves the stream open,
\* with the frames still in it.  A client that threw is not asked again, as
\* feed_handler exits.
RequestThrows(h) ==
  /\ \/ client_pc[h] = "idle" /\ Unreachable(h) /\ close_connection(h)
     \/ client_pc[h] = "asking" /\ TooManyPackets(h) /\ UNCHANGED recoveryVars
     \/ /\ client_pc[h] = "asking"
        /\ conn[h] = "server_closed" /\ ~ReplyComplete(h) /\ ~TooManyPackets(h)
        /\ close_connection(h)
  /\ client_pc' = [client_pc EXCEPT ![h] = "failed"]
  /\ UNCHANGED <<exchangeVars, multicast, stamped, ask, known, answer>>

\* The last packet of the reply has been read.
RequestReturns(h) ==
  /\ client_pc[h] = "asking"
  /\ ReplyComplete(h)
  /\ ~TooManyPackets(h)
  /\ client_pc' = [client_pc EXCEPT ![h] = "answered"]
  /\ answer' = [answer EXCEPT ![h] = reply[h].frames]
  /\ TakeReply(h)
  /\ UNCHANGED <<exchangeVars, multicast, stamped, ask, known>>

\* The caller goes on; it may ask again over the same connection.
NextRequest(h) ==
  /\ client_pc[h] = "answered"
  /\ client_pc' = [client_pc EXCEPT ![h] = "idle"]
  /\ ask' = [ask EXCEPT ![h] = NoRequest]
  /\ known' = [known EXCEPT ![h] = 0]
  /\ answer' = [answer EXCEPT ![h] = <<>>]
  /\ UNCHANGED <<exchangeVars, multicast, recoveryVars, stamped>>

\* ~RecoveryClient, also of a client that threw.
ClientLeaves(h) ==
  /\ client_pc[h] \in {"idle", "failed"}
  /\ client_pc' = [client_pc EXCEPT ![h] = "failed"]
  /\ close_connection(h)
  /\ UNCHANGED <<exchangeVars, multicast, stamped, ask, known, answer>>

ClientStep ==
  \E h \in Handlers :
    \/ RequestNothing(h) \/ Request(h) \/ RequestThrows(h)
    \/ RequestReturns(h) \/ NextRequest(h) \/ ClientLeaves(h)

RequestsNext == Stamp \/ Store \/ SendStamped \/ Exit \/ ServerStep \/ ClientStep

\* The server thread is scheduled.
RequestsSpec ==
  RequestsInit /\ [][RequestsNext]_requestVars /\ WF_requestVars(ServerStep)

-----------------------------------------------------------------------------
(* Properties.                                                             *)

\* The packets from one sequence number to another among the first n stored,
\* packet 1 being the first there is.
Stored(start_seq, end_seq, n) ==
  LET first == IF start_seq = 0 THEN 1 ELSE start_seq
      last == IF end_seq < n THEN end_seq ELSE n
  IN [i \in 1 .. last - first + 1 |-> packets[first + i - 1]]

\* What request_packets returns is the history at one moment of the call, cut
\* to the range: every packet of it that was there, none twice, none that came
\* later than one left out (lookup_range keeps the mutex from its first step
\* to its last).
AnswerIsSnapshot ==
  \A h \in Handlers : client_pc[h] = "answered" =>
    \E n \in known[h] .. Cardinality(DOMAIN packets) :
      answer[h] = Stored(ask[h].start_seq, ask[h].end_seq, n)

\* lookup_range visits every sequence number at most once, also when the range
\* ends at the largest one, where ++seq_num would wrap round.
LookupVisitsOnce ==
  \A i, j \in DOMAIN found : i < j => found[i].seq_num < found[j].seq_num

\* A lookup ends and lets go of the mutex the publisher may be waiting for,
\* whether or not the packets of the range exist.
LookupEnds == server_pc = "lookup" ~> server_pc # "lookup"

\* README.md:81: publish_tsc is stamped immediately before sendto(), so nothing
\* the recovery thread does can hold up a stamped packet.
StampedThenSent == ~(stamped /\ main_pc = "store" /\ mutex_held)
=============================================================================
