----------------------------- MODULE FeedHandler -----------------------------
(***************************************************************************)
(* feed_handler: each handler reads the multicast feed, asks the recovery  *)
(* server for a gap and applies packets to its book in sequence.  It is    *)
(* single-threaded and shares nothing, so processing a packet is one step; *)
(* only the wait for a replay lets the rest of the system move.            *)
(***************************************************************************)
EXTENDS UdpMulticast, Recovery, FiniteSets

CONSTANT Limits   \* what --messages may be, 0 for no limit

ASSUME LimitsAssumption == Limits \subseteq Nat

VARIABLES
  handler_pc,            \* where each handler is
  limit,                 \* options.messages
  expected_packet_seq,
  applied,               \* the messages given to the order book, in order
  buffered_packets,
  replay_batch,          \* packets of a complete reply still to process
  counts                 \* the packet counters of the summary

handlerVars ==
  <<handler_pc, limit, expected_packet_seq, applied, buffered_packets, replay_batch, counts>>

NoPackets == [s \in {} |-> NoReply]

HandlerInit ==
  /\ handler_pc = [h \in Handlers |-> "recv"]
  /\ limit \in [Handlers -> Limits]
  /\ expected_packet_seq = [h \in Handlers |-> 1]
  /\ applied = [h \in Handlers |-> <<>>]
  /\ buffered_packets = [h \in Handlers |-> NoPackets]
  /\ replay_batch = [h \in Handlers |-> <<>>]
  /\ counts = [h \in Handlers |->
                 [live |-> 0, replay |-> 0, drain |-> 0, requests |-> 0, out_of_order |-> 0]]

-----------------------------------------------------------------------------
(* Steps shared by the packet sources.                                     *)

\* received_messages counts exactly what was applied.
received_messages(h) == Len(applied[h])

limit_reached(h) == limit[h] # 0 /\ received_messages(h) >= limit[h]

Goto(h, pc) == handler_pc' = [handler_pc EXCEPT ![h] = pc]

\* How much of a packet is applied: the loop stops after the message that
\* reaches the limit.
Wanted(h, packet) ==
  LET room == limit[h] - received_messages(h)
  IN IF limit[h] = 0 \/ packet.msg_count <= room THEN packet.msg_count ELSE room

\* A variant that checks the limit only between packets.
MutProcessWholePacket(h, packet, source) ==
  /\ applied' = [applied EXCEPT ![h] = @ \o packet.messages]
  /\ counts' = [counts EXCEPT ![h][source] = @ + 1]
  /\ expected_packet_seq' = [expected_packet_seq EXCEPT ![h] = NextSeq(packet.seq_num)]

\* process_packet_bytes, past its checks.
ProcessPacket(h, packet, source) ==
  /\ applied' = [applied EXCEPT ![h] = @ \o SubSeq(packet.messages, 1, Wanted(h, packet))]
  /\ counts' = [counts EXCEPT ![h][source] = @ + 1]
  /\ expected_packet_seq' = [expected_packet_seq EXCEPT ![h] = NextSeq(packet.seq_num)]

\* The check at the head of process_packet_bytes.
Acceptable(h, packet) ==
  parse_packet(packet) /\ packet.seq_num = expected_packet_seq[h]

-----------------------------------------------------------------------------
(* The receive loop.                                                       *)

\* A datagram that is malformed or stale is discarded.
Discard(h) ==
  /\ handler_pc[h] = "recv"
  /\ \E datagram \in Receivable :
       ~parse_packet(datagram) \/ datagram.seq_num < expected_packet_seq[h]
  /\ UNCHANGED <<handlerVars, multicast, recoveryVars>>

\* A variant that takes a packet beyond a gap for the next one.
MutProcessAhead(h) ==
  /\ handler_pc[h] = "recv"
  /\ \E datagram \in Receivable :
       /\ parse_packet(datagram)
       /\ datagram.seq_num >= expected_packet_seq[h]
       /\ ProcessPacket(h, datagram, "live")
  /\ Goto(h, "drain")
  /\ UNCHANGED <<limit, buffered_packets, replay_batch, multicast, recoveryVars>>

\* The packet that is next in sequence.
ProcessLive(h) ==
  /\ handler_pc[h] = "recv"
  /\ \E datagram \in Receivable :
       /\ parse_packet(datagram)
       /\ datagram.seq_num = expected_packet_seq[h]
       /\ ProcessPacket(h, datagram, "live")
  /\ Goto(h, "drain")
  /\ UNCHANGED <<limit, buffered_packets, replay_batch, multicast, recoveryVars>>

\* A packet beyond the next: park it and ask for what is missing before the
\* first parked one.  An unreachable server throws, and the handler exits 1.
BufferAndRequest(h) ==
  /\ handler_pc[h] = "recv"
  /\ \E datagram \in Receivable :
       /\ parse_packet(datagram)
       /\ datagram.seq_num > expected_packet_seq[h]
       /\ LET parked == [s \in DOMAIN buffered_packets[h] \cup {datagram.seq_num} |->
                           IF s = datagram.seq_num THEN datagram ELSE buffered_packets[h][s]]
              first == CHOOSE s \in DOMAIN parked : \A t \in DOMAIN parked : s <= t
              start == expected_packet_seq[h]
              gap_end == PrevSeq(first)
              asks == start <= gap_end
          IN /\ buffered_packets' = [buffered_packets EXCEPT ![h] = parked]
             /\ counts' = [counts EXCEPT ![h].out_of_order = @ + 1,
                                         ![h].requests = IF asks THEN @ + 1 ELSE @]
             /\ IF ~asks
                THEN Goto(h, "recv") /\ UNCHANGED recoveryVars
                ELSE IF Unreachable(h)
                THEN Goto(h, "failed") /\ close_connection(h)
                ELSE Goto(h, "request") /\ SendRequest(h, start, gap_end)
  /\ UNCHANGED <<limit, expected_packet_seq, applied, replay_batch, multicast>>

-----------------------------------------------------------------------------
(* request_replay, once the request is out.                                *)

\* The whole reply is there; one with packets missing is an error.
ReplayArrives(h) ==
  /\ handler_pc[h] = "request"
  /\ ReplyComplete(h)
  /\ LET first == CHOOSE s \in DOMAIN buffered_packets[h] :
                    \A t \in DOMAIN buffered_packets[h] : s <= t
     IN IF reply[h].packet_count = first - expected_packet_seq[h]
        THEN /\ Goto(h, "replay")
             /\ replay_batch' = [replay_batch EXCEPT ![h] = reply[h].frames]
             /\ TakeReply(h)
        ELSE /\ Goto(h, "failed")
             /\ UNCHANGED replay_batch
             /\ close_connection(h)
  /\ UNCHANGED <<limit, expected_packet_seq, applied, buffered_packets, counts, multicast>>

\* A variant that hands over the packets read before the stream ended.
MutReplyEofKeepsFrames(h) ==
  /\ handler_pc[h] = "request"
  /\ conn[h] = "server_closed"
  /\ ~ReplyComplete(h)
  /\ Goto(h, "replay")
  /\ replay_batch' = [replay_batch EXCEPT ![h] = reply[h].frames]
  /\ close_connection(h)
  /\ UNCHANGED <<limit, expected_packet_seq, applied, buffered_packets, counts, multicast>>

\* The stream ends inside the reply, or before it.
ReplyEof(h) ==
  /\ handler_pc[h] = "request"
  /\ conn[h] = "server_closed"
  /\ ~ReplyComplete(h)
  /\ Goto(h, "failed")
  /\ close_connection(h)
  /\ UNCHANGED <<limit, expected_packet_seq, applied, buffered_packets, replay_batch, counts,
                 multicast>>

\* The next packet of the replay; one out of sequence is an error.
ProcessReplay(h) ==
  /\ handler_pc[h] = "replay"
  /\ replay_batch[h] # <<>>
  /\ ~limit_reached(h)
  /\ IF Acceptable(h, Head(replay_batch[h]))
     THEN /\ ProcessPacket(h, Head(replay_batch[h]), "replay")
          /\ UNCHANGED <<handler_pc, recoveryVars>>
     ELSE /\ Goto(h, "failed")
          /\ close_connection(h)
          /\ UNCHANGED <<expected_packet_seq, applied, counts>>
  /\ replay_batch' = [replay_batch EXCEPT ![h] = Tail(@)]
  /\ UNCHANGED <<limit, buffered_packets, multicast>>

\* A variant that returns to the receive loop without draining.
MutReplayOverNoDrain(h) ==
  /\ handler_pc[h] = "replay"
  /\ replay_batch[h] = <<>> \/ limit_reached(h)
  /\ replay_batch' = [replay_batch EXCEPT ![h] = <<>>]
  /\ Goto(h, "recv")
  /\ UNCHANGED <<limit, expected_packet_seq, applied, buffered_packets, counts, multicast,
                 recoveryVars>>

ReplayOver(h) ==
  /\ handler_pc[h] = "replay"
  /\ replay_batch[h] = <<>> \/ limit_reached(h)
  /\ replay_batch' = [replay_batch EXCEPT ![h] = <<>>]
  /\ Goto(h, "drain")
  /\ UNCHANGED <<limit, expected_packet_seq, applied, buffered_packets, counts, multicast,
                 recoveryVars>>

-----------------------------------------------------------------------------
(* drain_buffered_packets, and back to the receive loop.                   *)

\* A variant that leaves the drained packet in the map.
MutDrainKeeps(h) ==
  /\ handler_pc[h] = "drain"
  /\ ~limit_reached(h)
  /\ expected_packet_seq[h] \in DOMAIN buffered_packets[h]
  /\ ProcessPacket(h, buffered_packets[h][expected_packet_seq[h]], "drain")
  /\ UNCHANGED <<handler_pc, limit, buffered_packets, replay_batch, multicast, recoveryVars>>

ProcessDrain(h) ==
  /\ handler_pc[h] = "drain"
  /\ ~limit_reached(h)
  /\ expected_packet_seq[h] \in DOMAIN buffered_packets[h]
  /\ ProcessPacket(h, buffered_packets[h][expected_packet_seq[h]], "drain")
  /\ buffered_packets' =
       [buffered_packets EXCEPT ![h] =
          [s \in DOMAIN @ \ {expected_packet_seq[h]} |-> buffered_packets[h][s]]]
  /\ UNCHANGED <<handler_pc, limit, replay_batch, multicast, recoveryVars>>

DrainOver(h) ==
  /\ handler_pc[h] = "drain"
  /\ ~limit_reached(h)
  /\ expected_packet_seq[h] \notin DOMAIN buffered_packets[h]
  /\ Goto(h, "recv")
  /\ UNCHANGED <<limit, expected_packet_seq, applied, buffered_packets, replay_batch, counts,
                 multicast, recoveryVars>>

\* The limit is reached: print the summary and exit, closing the connection.
LimitReached(h) ==
  /\ handler_pc[h] = "drain"
  /\ limit_reached(h)
  /\ Goto(h, "done")
  /\ close_connection(h)
  /\ UNCHANGED <<limit, expected_packet_seq, applied, buffered_packets, replay_batch, counts,
                 multicast>>

-----------------------------------------------------------------------------

ended(h) == handler_pc[h] \in {"done", "failed", "killed"}

HandlerKilled(h) ==
  /\ ~ended(h)
  /\ Goto(h, "killed")
  /\ close_connection(h)
  /\ UNCHANGED <<limit, expected_packet_seq, applied, buffered_packets, replay_batch, counts,
                 multicast>>

\* What a handler does on its own, whatever the network brings it.
HandlerStep(h) ==
  \/ ReplayArrives(h) \/ ReplyEof(h)
  \/ ProcessReplay(h) \/ ReplayOver(h)
  \/ ProcessDrain(h) \/ DrainOver(h) \/ LimitReached(h)

Receive(h) == Discard(h) \/ ProcessLive(h) \/ BufferAndRequest(h)
=============================================================================
