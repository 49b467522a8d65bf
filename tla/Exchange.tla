------------------------------ MODULE Exchange ------------------------------
(***************************************************************************)
(* exchange_sim: the main thread that generates, stores and publishes      *)
(* packets, waits out the grace period and then stops the recovery server. *)
(***************************************************************************)
EXTENDS UdpMulticast, Recovery

CONSTANTS Messages,            \* --messages
          MessagesPerPacket,   \* --messages-per-packet
          SkipEvery            \* --skip-every, 0 for never

ASSUME ExchangeAssumption ==
  /\ Messages \in Nat
  /\ MessagesPerPacket \in Nat \ {0}
  /\ SkipEvery \in Nat

VARIABLES
  main_pc,           \* where the main thread is
  generated,         \* messages the generator has produced
  emitted_messages,
  packet_sequence

exchangeVars == <<main_pc, generated, emitted_messages, packet_sequence>>

ExchangeInit ==
  /\ main_pc = IF Messages = 0 THEN "grace" ELSE "store"
  /\ generated = 0
  /\ emitted_messages = 0
  /\ packet_sequence = 1

\* A variant without the std::min.
MutBatchSize == MessagesPerPacket

\* std::min(messages_per_packet, messages - emitted_messages).
BatchSize ==
  IF MessagesPerPacket <= Messages - emitted_messages
  THEN MessagesPerPacket ELSE Messages - emitted_messages

should_skip == SkipEvery # 0 /\ packet_sequence % SkipEvery = 0

\* The buffer of the packet under way: the generator is as far as the emitted
\* messages when a batch is begun.
packet_buffer ==
  serialize_packet(packet_sequence, [i \in 1 .. BatchSize |-> emitted_messages + i])

\* Generate a batch, serialise it and put it in the history.
StorePacket ==
  /\ main_pc = "store"
  /\ store(packet_sequence, packet_buffer)
  /\ generated' = generated + BatchSize
  /\ main_pc' = "send"
  /\ UNCHANGED <<emitted_messages, packet_sequence, multicast, listening, stop_,
                 server_pc, serving, found, lookupVars, socketVars>>

\* Send the packet or drop it on purpose, and go on to the next one.
SendPacket ==
  /\ main_pc = "send"
  /\ IF should_skip THEN UNCHANGED multicast ELSE send(packet_buffer)
  /\ emitted_messages' = emitted_messages + BatchSize
  /\ packet_sequence' = NextSeq(packet_sequence)
  /\ main_pc' = IF emitted_messages' < Messages THEN "store" ELSE "grace"
  /\ UNCHANGED <<generated, recoveryVars>>

\* sendto fails; the exception unwinds main, destroying the server.
SendThrows ==
  /\ main_pc = "send"
  /\ ~should_skip
  /\ main_pc' = "join"
  /\ stop_' = TRUE
  /\ UNCHANGED <<generated, emitted_messages, packet_sequence, multicast, packets, listening,
                 server_pc, serving, found, lookupVars, socketVars>>

\* The grace period is over; ~RecoveryServer sets stop_ and joins.
GraceOver ==
  /\ main_pc = "grace"
  /\ main_pc' = "join"
  /\ stop_' = TRUE
  /\ UNCHANGED <<generated, emitted_messages, packet_sequence, multicast, packets, listening,
                 server_pc, serving, found, lookupVars, socketVars>>

\* The join returns once the thread has; then the process exits.
JoinReturns ==
  /\ main_pc = "join"
  /\ server_pc = "exited"
  /\ main_pc' = "exited"
  /\ ServerGone
  /\ UNCHANGED <<generated, emitted_messages, packet_sequence, multicast>>

\* The process is killed: from outside, or by the SIGPIPE that send() to a
\* client that has gone raises and nothing handles.
ExchangeKilled ==
  /\ main_pc # "exited"
  /\ main_pc' = "exited"
  /\ ServerGone
  /\ UNCHANGED <<generated, emitted_messages, packet_sequence, multicast>>

Publisher == StorePacket \/ SendPacket \/ GraceOver \/ JoinReturns

ServerThread == Server /\ UNCHANGED <<exchangeVars, multicast>>
=============================================================================
