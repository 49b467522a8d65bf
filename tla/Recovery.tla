------------------------------ MODULE Recovery ------------------------------
(***************************************************************************)
(* The recovery channel (recovery.cpp): the packet history, the server     *)
(* thread that answers one connection at a time, and the client calls of   *)
(* the feed handlers, over TCP.                                            *)
(*                                                                         *)
(* PacketHistory::store is one step under mutex_.  lookup_range is a loop  *)
(* of steps that keeps mutex_ throughout, so store waits for it.  A reply  *)
(* is sent piecewise: the exchange can end, or a client can be killed,     *)
(* between any two frames.                                                 *)
(***************************************************************************)
EXTENDS Protocol

CONSTANTS Handlers,       \* the feed handler processes, each with one client
          ListenBacklog   \* how many connections the queue of listen() holds

ASSUME ListenAssumption == ListenBacklog \in Nat \ {0}

VARIABLES
  packets,     \* PacketHistory::packets_
  listening,   \* listen_fd_ is open
  stop_,       \* RecoveryServer::stop_
  server_pc,   \* where the server thread is
  serving,     \* the client behind client_fd, or NoClient
  cursor,      \* lookup_range's loop variable seq_num, 0 outside it
  lookup_end,  \* lookup_range's end_seq, 0 outside it
  found,       \* packets looked up for the current reply and not yet sent
  backlog,     \* connections established and not yet accepted
  conn,        \* the connection of each handler
  request,     \* the request in the socket of each handler, or NoRequest
  reply        \* the part of the reply that reached each handler, or NoReply

lookupVars == <<cursor, lookup_end>>
socketVars == <<backlog, conn, request, reply>>
recoveryVars ==
  <<packets, listening, stop_, server_pc, serving, found, lookupVars, socketVars>>

NoClient == "no client"
NoRequest == [start_seq |-> 1, end_seq |-> 0]
NoReply == [packet_count |-> -1, frames |-> <<>>]

ConnStates == {"none", "up", "server_closed", "client_closed"}

-----------------------------------------------------------------------------
(* PacketHistory.                                                          *)

\* A variant that locks around each find alone.
MutMutexPerFind == FALSE

\* lookup_range holds mutex_ from its first step to its last.
mutex_held == server_pc = "lookup"

store(seq, packet) ==
  /\ ~mutex_held
  /\ packets' = [s \in DOMAIN packets \cup {seq} |-> IF s = seq THEN packet ELSE packets[s]]

-----------------------------------------------------------------------------
(* RecoveryServer: the thread.                                             *)

RecoveryInit ==
  /\ packets = [s \in {} |-> NoReply]
  /\ listening = TRUE
  /\ stop_ = FALSE
  /\ server_pc = "loop"
  /\ serving = NoClient
  /\ cursor = 0
  /\ lookup_end = 0
  /\ found = <<>>
  /\ backlog = <<>>
  /\ conn = [h \in Handlers |-> "none"]
  /\ request = [h \in Handlers |-> NoRequest]
  /\ reply = [h \in Handlers |-> NoReply]

\* while (!stop_) at the top of run().
CheckStop ==
  /\ server_pc = "loop"
  /\ server_pc' = IF stop_ THEN "exited" ELSE "poll"
  /\ UNCHANGED <<packets, listening, stop_, serving, found, lookupVars, socketVars>>

\* poll() times out, or is interrupted, with nobody waiting.
PollTimeout ==
  /\ server_pc = "poll"
  /\ backlog = <<>>
  /\ server_pc' = "loop"
  /\ UNCHANGED <<packets, listening, stop_, serving, found, lookupVars, socketVars>>

\* poll() fails: run() returns and nobody serves the port any more.
PollFails ==
  /\ server_pc = "poll"
  /\ server_pc' = "exited"
  /\ UNCHANGED <<packets, listening, stop_, serving, found, lookupVars, socketVars>>

Accept ==
  /\ server_pc = "poll"
  /\ backlog # <<>>
  /\ serving' = Head(backlog)
  /\ backlog' = Tail(backlog)
  /\ server_pc' = "check"
  /\ UNCHANGED <<packets, listening, stop_, found, lookupVars, conn, request, reply>>

\* handle_client has returned or thrown; run() closes client_fd and loops.
CloseClient ==
  /\ conn' = [conn EXCEPT ![serving] = IF @ = "up" THEN "server_closed" ELSE @]
  /\ serving' = NoClient
  /\ found' = <<>>
  /\ server_pc' = "loop"
  /\ UNCHANGED <<packets, listening, stop_, lookupVars, backlog, request, reply>>

\* while (!stop_) at the top of handle_client.
CheckServe ==
  /\ server_pc = "check"
  /\ ~stop_
  /\ server_pc' = "recv"
  /\ UNCHANGED <<packets, listening, stop_, serving, found, lookupVars, socketVars>>

CheckServeStopped ==
  /\ server_pc = "check"
  /\ stop_
  /\ CloseClient

\* recv_exact_or_eof blocks until a request, or the end of the stream.
RecvRequest ==
  /\ server_pc = "recv"
  /\ request[serving] # NoRequest
  /\ cursor' = request[serving].start_seq
  /\ lookup_end' = request[serving].end_seq
  /\ server_pc' = IF cursor' > lookup_end' THEN "count" ELSE "lookup"
  /\ request' = [request EXCEPT ![serving] = NoRequest]
  /\ UNCHANGED <<packets, listening, stop_, serving, found, backlog, conn, reply>>

LookupTurn(last) ==
  /\ server_pc = "lookup"
  /\ found' = IF cursor \in DOMAIN packets THEN Append(found, packets[cursor]) ELSE found
  /\ server_pc' = IF last THEN "count" ELSE "lookup"
  /\ cursor' = IF last THEN 0 ELSE cursor + 1
  /\ lookup_end' = IF last THEN 0 ELSE lookup_end
  /\ UNCHANGED <<packets, listening, stop_, serving, socketVars>>

\* A variant that leaves out end_seq.
MutLookupExclusive == LookupTurn(cursor + 1 >= lookup_end)

\* A variant without the break at the largest sequence number.
MutLookupWraps ==
  /\ server_pc = "lookup"
  /\ found' = IF cursor \in DOMAIN packets THEN Append(found, packets[cursor]) ELSE found
  /\ cursor' = NextSeq(cursor)
  /\ server_pc' = IF cursor' > lookup_end THEN "count" ELSE "lookup"
  /\ UNCHANGED <<packets, listening, stop_, serving, lookup_end, socketVars>>

\* A variant that waits for a packet that is not stored yet.
MutLookupWaits ==
  /\ cursor \in DOMAIN packets
  /\ LookupTurn(cursor = MaxSeq \/ cursor + 1 > lookup_end)

\* One turn of the loop: a sequence number that is not stored is passed over,
\* and the loop also ends at the largest one, before ++seq_num can wrap.
LookupStep == LookupTurn(cursor = MaxSeq \/ cursor + 1 > lookup_end)

\* A variant that retries at the end of the stream.
MutRecvEofRetries ==
  /\ server_pc = "recv"
  /\ request[serving] = NoRequest
  /\ conn[serving] = "client_closed"
  /\ UNCHANGED recoveryVars

RecvEof ==
  /\ server_pc = "recv"
  /\ request[serving] = NoRequest
  /\ conn[serving] = "client_closed"
  /\ CloseClient

SendCount ==
  /\ server_pc = "count"
  /\ reply' = [reply EXCEPT ![serving] = [packet_count |-> Len(found), frames |-> <<>>]]
  /\ server_pc' = IF found = <<>> THEN "check" ELSE "frames"
  /\ UNCHANGED <<packets, listening, stop_, serving, found, lookupVars, backlog, conn, request>>

SendFrame ==
  /\ server_pc = "frames"
  /\ reply' = [reply EXCEPT ![serving].frames = Append(@, Head(found))]
  /\ found' = Tail(found)
  /\ server_pc' = IF Len(found) = 1 THEN "check" ELSE "frames"
  /\ UNCHANGED <<packets, listening, stop_, serving, lookupVars, backlog, conn, request>>

\* send_all fails because the client is gone; run() catches and goes on.
SendFails ==
  /\ server_pc \in {"count", "frames"}
  /\ conn[serving] = "client_closed"
  /\ CloseClient

\* The process ends, so the kernel closes every socket of it.
ServerGone ==
  /\ listening' = FALSE
  /\ server_pc' = "exited"
  /\ serving' = NoClient
  /\ cursor' = 0 /\ lookup_end' = 0
  /\ found' = <<>>
  /\ backlog' = <<>>
  /\ conn' = [h \in Handlers |-> IF conn[h] = "up" THEN "server_closed" ELSE conn[h]]
  /\ UNCHANGED <<packets, stop_, request, reply>>

Server ==
  \/ CheckStop \/ PollTimeout \/ Accept
  \/ CheckServe \/ CheckServeStopped
  \/ RecvRequest \/ LookupStep \/ RecvEof
  \/ SendCount \/ SendFrame \/ SendFails

-----------------------------------------------------------------------------
(* RecoveryClient::request_packets, as the steps a handler takes.          *)

\* ensure_connected finds nobody listening, or tries in vain for as long as the
\* queue is full, or the stream turns out closed.
Unreachable(h) ==
  \/ conn[h] = "none" /\ ~listening
  \/ conn[h] = "none" /\ Len(backlog) >= ListenBacklog
  \/ conn[h] = "server_closed"

\* ensure_connected and the sending of the request.  A connect that waits and
\* then finds a place in the queue is this step taken later.
SendRequest(h, start_seq, end_seq) ==
  /\ ~Unreachable(h)
  /\ conn' = [conn EXCEPT ![h] = "up"]
  /\ backlog' = IF conn[h] = "none" THEN Append(backlog, h) ELSE backlog
  /\ request' = [request EXCEPT ![h] = [start_seq |-> start_seq, end_seq |-> end_seq]]
  /\ UNCHANGED <<packets, listening, stop_, server_pc, serving, found, lookupVars, reply>>

ReplyComplete(h) ==
  /\ reply[h] # NoReply
  /\ Len(reply[h].frames) = reply[h].packet_count

\* The last frame has been read off the stream.
TakeReply(h) ==
  /\ reply' = [reply EXCEPT ![h] = NoReply]
  /\ UNCHANGED <<packets, listening, stop_, server_pc, serving, found, lookupVars,
                 backlog, conn, request>>

\* ~RecoveryClient, or the kernel when the handler dies.
close_connection(h) ==
  /\ conn' = [conn EXCEPT ![h] = IF @ = "none" THEN "none" ELSE "client_closed"]
  /\ UNCHANGED <<packets, listening, stop_, server_pc, serving, found, lookupVars,
                 backlog, request, reply>>
=============================================================================
