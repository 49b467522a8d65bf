--------------------------- MODULE RequestsProofs ---------------------------
(***************************************************************************)
(* Proofs about clients that ask for any ranges, up to the largest         *)
(* sequence number, while the exchange goes on storing: lookup_range       *)
(* visits a sequence number at most once, and request_packets returns the  *)
(* history as it was at one moment.                                        *)
(***************************************************************************)
EXTENDS RecoveryRequests, SequenceTheorems, FiniteSetTheorems, TLAPS

Ranges == [start_seq : SeqNums, end_seq : SeqNums]

\* What is looked up comes in the order of the sequence numbers.
Rising(seq) == \A i, j \in DOMAIN seq : i < j => seq[i].seq_num < seq[j].seq_num

PublisherInv ==
  /\ packet_sequence \in SeqNums
  /\ emitted_messages \in 0 .. Messages
  /\ \A s \in DOMAIN packets : packets[s] \in Packet /\ packets[s].seq_num = s

ClientsInv ==
  /\ backlog \in Seq(Handlers)
  /\ request \in [Handlers -> Ranges]
  /\ server_pc \in {"check", "recv", "lookup", "count", "frames"} => serving \in Handlers

\* All that was found lies before the loop variable.
LookupInv ==
  /\ cursor \in SeqNums /\ lookup_end \in SeqNums
  /\ found \in Seq(Packet)
  /\ Rising(found)
  /\ server_pc \notin {"lookup", "count", "frames"} => found = <<>>
  /\ server_pc = "frames" => found # <<>>
  /\ server_pc = "lookup" => \A i \in DOMAIN found : found[i].seq_num < cursor

RequestsInv == PublisherInv /\ ClientsInv /\ LookupInv

-----------------------------------------------------------------------------

\* The initial state satisfies the invariant.
LEMMA RequestsInitInv == RequestsInit => RequestsInv
<1> SUFFICES ASSUME RequestsInit  PROVE RequestsInv
  OBVIOUS
<1>1. /\ packets = [s \in {} |-> NoReply] /\ server_pc = "loop" /\ cursor = 0
      /\ lookup_end = 0 /\ found = <<>> /\ backlog = <<>>
      /\ request = [h \in Handlers |-> NoRequest]
      /\ packet_sequence = 1 /\ emitted_messages = 0
  BY DEF RequestsInit, RecoveryInit, ExchangeInit
<1>2. 0 \in SeqNums /\ 1 \in SeqNums /\ NoRequest \in Ranges
  BY MaxSeqAssumption DEF SeqNums, NoRequest, Ranges
<1>3. PublisherInv
  BY <1>1, <1>2, ExchangeAssumption DEF PublisherInv
<1>4. ClientsInv
  BY <1>1, <1>2 DEF ClientsInv
<1>5. LookupInv
  BY <1>1, <1>2 DEF LookupInv, Rising
<1> QED  BY <1>3, <1>4, <1>5 DEF RequestsInv

\* The publisher stores every packet under its own number.
LEMMA PublisherKeeps == ASSUME RequestsInv, [RequestsNext]_requestVars PROVE PublisherInv'
<1> USE ExchangeAssumption, MaxSeqAssumption
<1>1. PublisherInv
  BY DEF RequestsInv
<1>2. BatchSize \in 0 .. Messages - emitted_messages
  BY <1>1 DEF PublisherInv, BatchSize
<1>3. CASE UNCHANGED <<packet_sequence, emitted_messages, packets>>
  BY <1>1, <1>3 DEF PublisherInv
<1>4. CASE StorePacket
  <2>1. /\ packets' = [s \in DOMAIN packets \cup {packet_sequence} |->
                         IF s = packet_sequence THEN packet_buffer ELSE packets[s]]
        /\ UNCHANGED <<packet_sequence, emitted_messages>>
    BY <1>4 DEF StorePacket, store
  <2>2. packet_buffer \in Packet /\ packet_buffer.seq_num = packet_sequence
    <3>1. PICK msgs : msgs = [i \in 1 .. BatchSize |-> emitted_messages + i]
      OBVIOUS
    <3>2. BatchSize \in Nat /\ msgs \in [1 .. BatchSize -> Nat]
      BY <1>1, <1>2, <3>1 DEF PublisherInv
    <3>3. msgs \in Seq(Nat) /\ Len(msgs) \in Nat
      BY <3>2
    <3>4. packet_buffer = serialize_packet(packet_sequence, msgs)
      BY <3>1 DEF packet_buffer
    <3>5. packet_size_bytes(Len(msgs)) \in Nat
      BY <3>3 DEF packet_size_bytes, PacketHeaderSize, kFixedMessageSize
    <3> QED  BY <1>1, <3>3, <3>4, <3>5 DEF serialize_packet, Packet, PublisherInv
  <2>3. \A s \in DOMAIN packets' : packets'[s] \in Packet /\ packets'[s].seq_num = s
    BY <1>1, <2>1, <2>2 DEF PublisherInv
  <2> QED  BY <1>1, <2>1, <2>3 DEF PublisherInv
<1>5. CASE SendPacket
  <2>1. /\ emitted_messages' = emitted_messages + BatchSize
        /\ packet_sequence' = NextSeq(packet_sequence)
        /\ packets' = packets
    BY <1>5 DEF SendPacket, recoveryVars
  <2>2. packet_sequence' \in SeqNums
    BY <1>1, <2>1 DEF PublisherInv, NextSeq, SeqNums
  <2>3. emitted_messages' \in 0 .. Messages
    BY <1>1, <1>2, <2>1 DEF PublisherInv
  <2> QED  BY <1>1, <2>1, <2>2, <2>3 DEF PublisherInv
<1>6. \/ StorePacket \/ SendPacket
      \/ UNCHANGED <<packet_sequence, emitted_messages, packets>>
  BY DEF RequestsNext, Stamp, Store, SendStamped, Exit, GraceOver, JoinReturns, ExchangeKilled,
         ServerGone, ServerStep, ServerThread, Server, CheckStop, PollTimeout, Accept, CheckServe,
         CheckServeStopped, CloseClient, RecvRequest, LookupStep, LookupTurn, RecvEof, SendCount,
         SendFrame, SendFails, ClientStep, RequestNothing, Request, RequestThrows,
         RequestReturns, NextRequest, ClientLeaves, SendRequest, TakeReply, close_connection,
         requestVars, exchangeVars, recoveryVars
<1> QED  BY <1>3, <1>4, <1>5, <1>6

\* Who is connected, and what was asked for.
LEMMA ClientsKeep == ASSUME RequestsInv, [RequestsNext]_requestVars PROVE ClientsInv'
<1>1. ClientsInv /\ NoRequest \in Ranges
  BY MaxSeqAssumption DEF RequestsInv, NoRequest, Ranges, SeqNums
<1>2. CASE UNCHANGED <<backlog, request, serving>>
           /\ (server_pc' \in {"check", "recv", "lookup", "count", "frames"}
                 => server_pc \in {"check", "recv", "lookup", "count", "frames"})
  BY <1>1, <1>2 DEF ClientsInv
<1>3. CASE ServerGone \/ CloseClient
  <2>1. /\ request' = request
        /\ backlog' = backlog \/ backlog' = <<>>
        /\ server_pc' \notin {"check", "recv", "lookup", "count", "frames"}
    BY <1>3 DEF ServerGone, CloseClient
  <2>2. <<>> \in Seq(Handlers)
    OBVIOUS
  <2> QED  BY <1>1, <2>1, <2>2 DEF ClientsInv
<1>4. CASE Accept
  BY <1>1, <1>4 DEF Accept, ClientsInv
<1>5. CASE RecvRequest
  <2>1. /\ request' = [request EXCEPT ![serving] = NoRequest]
        /\ UNCHANGED <<serving, backlog>> /\ server_pc = "recv"
    BY <1>5 DEF RecvRequest
  <2> QED  BY <1>1, <2>1 DEF ClientsInv
<1>6. CASE \E h \in Handlers : Request(h)
  <2>1. PICK h \in Handlers, start_seq \in SeqNums, end_seq \in SeqNums :
          SendRequest(h, start_seq, end_seq)
    BY <1>6 DEF Request
  <2>2. /\ backlog' = IF conn[h] = "none" THEN Append(backlog, h) ELSE backlog
        /\ request' = [request EXCEPT ![h] = [start_seq |-> start_seq, end_seq |-> end_seq]]
        /\ UNCHANGED <<serving, server_pc>>
    BY <2>1 DEF SendRequest
  <2>3. [start_seq |-> start_seq, end_seq |-> end_seq] \in Ranges
    BY DEF Ranges
  <2> QED  BY <1>1, <2>2, <2>3 DEF ClientsInv
<1>7. \/ ServerGone \/ CloseClient \/ Accept \/ RecvRequest
      \/ \E h \in Handlers : Request(h)
      \/ UNCHANGED <<backlog, request, serving>>
         /\ (server_pc' \in {"check", "recv", "lookup", "count", "frames"}
               => server_pc \in {"check", "recv", "lookup", "count", "frames"})
  BY DEF RequestsNext, Stamp, Store, StorePacket, SendStamped, SendPacket, Exit, GraceOver,
         JoinReturns, ExchangeKilled, ServerStep, ServerThread, Server, CheckStop, PollTimeout,
         CheckServe, CheckServeStopped, LookupStep, LookupTurn, RecvEof, SendCount, SendFrame,
         SendFails, ClientStep, RequestNothing, RequestThrows, RequestReturns, NextRequest,
         ClientLeaves, TakeReply, close_connection, requestVars, recoveryVars, socketVars
<1> QED  BY <1>2, <1>3, <1>4, <1>5, <1>6, <1>7

\* A turn of the loop: what it finds is the last so far, and the loop ends
\* before the variable could wrap.
LEMMA TurnKeepsLookup ==
  ASSUME RequestsInv, LookupStep
  PROVE  LookupInv'
<1>1. PublisherInv /\ LookupInv
  BY DEF RequestsInv
<1>2. PICK c \in Nat : c = cursor /\ c <= MaxSeq
  BY <1>1 DEF LookupInv, SeqNums
<1>3. PICK last \in BOOLEAN :
        /\ last <=> (c = MaxSeq \/ c + 1 > lookup_end)
        /\ server_pc = "lookup"
        /\ found' = IF c \in DOMAIN packets THEN Append(found, packets[c]) ELSE found
        /\ server_pc' = IF last THEN "count" ELSE "lookup"
        /\ cursor' = IF last THEN 0 ELSE c + 1
        /\ lookup_end' = IF last THEN 0 ELSE lookup_end
  BY <1>2 DEF LookupStep, LookupTurn
<1>4. cursor' \in SeqNums /\ lookup_end' \in SeqNums
  BY <1>1, <1>2, <1>3, MaxSeqAssumption DEF LookupInv, SeqNums
<1>5. PICK n \in Nat : /\ n = Len(found) /\ DOMAIN found = 1 .. n /\ found \in Seq(Packet)
                       /\ \A i \in 1 .. n : found[i].seq_num < c /\ found[i].seq_num \in Nat
  <2>1. found \in Seq(Packet) /\ \A i \in DOMAIN found : found[i].seq_num < c
    BY <1>1, <1>2, <1>3 DEF LookupInv
  <2>2. \A i \in DOMAIN found : found[i].seq_num \in Nat
    <3>1. \A packet \in Packet : packet.seq_num \in Nat
      BY DEF Packet, SeqNums
    <3>2. \A i \in DOMAIN found : found[i] \in Packet
      BY <2>1
    <3> QED  BY <3>1, <3>2
  <2> QED  BY <2>1, <2>2
<1>6. CASE c \in DOMAIN packets
  <2>1. packets[c] \in Packet /\ packets[c].seq_num = c
    BY <1>1, <1>6 DEF PublisherInv
  <2>2. found' = Append(found, packets[c])
    BY <1>3, <1>6
  <2>3. /\ found' \in Seq(Packet) /\ DOMAIN found' = 1 .. n + 1
        /\ found'[n + 1] = packets[c] /\ \A i \in 1 .. n : found'[i] = found[i]
    BY <1>5, <2>1, <2>2
  <2>4. \A i \in 1 .. n + 1 : found'[i].seq_num < c + 1
    <3> SUFFICES ASSUME NEW i \in 1 .. n + 1  PROVE found'[i].seq_num < c + 1
      OBVIOUS
    <3>1. CASE i = n + 1
      BY <1>2, <2>1, <2>3, <3>1
    <3>2. CASE i \in 1 .. n
      BY <1>2, <1>5, <2>3, <3>2
    <3> QED  BY <3>1, <3>2
  <2>5. Rising(found')
    <3> SUFFICES ASSUME NEW i \in 1 .. n + 1, NEW j \in 1 .. n + 1, i < j
                 PROVE  found'[i].seq_num < found'[j].seq_num
      BY <2>3 DEF Rising
    <3>1. i \in 1 .. n
      OBVIOUS
    <3>2. CASE j = n + 1
      BY <1>5, <2>1, <2>3, <3>1, <3>2
    <3>3. CASE j \in 1 .. n
      BY <1>1, <1>5, <2>3, <3>1, <3>3 DEF LookupInv, Rising
    <3> QED  BY <3>2, <3>3
  <2> QED  BY <1>3, <1>4, <2>3, <2>4, <2>5 DEF LookupInv
<1>7. CASE c \notin DOMAIN packets
  <2>1. found' = found
    BY <1>3, <1>7
  <2>2. \A i \in DOMAIN found' : found'[i].seq_num < c + 1
    BY <1>2, <1>5, <2>1
  <2> QED  BY <1>1, <1>3, <1>4, <2>1, <2>2 DEF LookupInv, Rising
<1> QED  BY <1>6, <1>7

\* What is found is looked up, sent from the front, and forgotten.
LEMMA LookupKeeps == ASSUME RequestsInv, [RequestsNext]_requestVars PROVE LookupInv'
<1>1. LookupInv /\ ClientsInv
  BY DEF RequestsInv
<1>2. 0 \in SeqNums /\ Rising(<<>>) /\ <<>> \in Seq(Packet)
  BY MaxSeqAssumption DEF SeqNums, Rising
<1>3. CASE LookupStep
  BY <1>3, TurnKeepsLookup
<1>4. CASE ServerGone \/ CloseClient
  BY <1>1, <1>2, <1>4 DEF ServerGone, CloseClient, LookupInv, lookupVars
<1>5. CASE RecvRequest
  <2>1. /\ found = <<>> /\ found' = <<>> /\ server_pc = "recv" /\ serving \in Handlers
        /\ cursor' = request[serving].start_seq /\ lookup_end' = request[serving].end_seq
        /\ server_pc' \in {"count", "lookup"}
    BY <1>1, <1>5 DEF RecvRequest, LookupInv, ClientsInv
  <2>2. cursor' \in SeqNums /\ lookup_end' \in SeqNums
    BY <1>1, <2>1 DEF ClientsInv, Ranges
  <2> QED  BY <1>2, <2>1, <2>2 DEF LookupInv
<1>6. CASE SendFrame
  <2>1. /\ server_pc = "frames" /\ found' = Tail(found)
        /\ server_pc' = IF Len(found) = 1 THEN "check" ELSE "frames"
        /\ UNCHANGED <<cursor, lookup_end>>
    BY <1>6 DEF SendFrame, lookupVars
  <2>2. PICK n \in Nat : n = Len(found) /\ n >= 1 /\ DOMAIN found = 1 .. n
    <3>1. found \in Seq(Packet) /\ found # <<>>
      BY <1>1, <2>1 DEF LookupInv
    <3>2. Len(found) \in Nat /\ DOMAIN found = 1 .. Len(found)
      BY <3>1
    <3>3. Len(found) >= 1
      BY <3>1
    <3> QED  BY <3>2, <3>3, Zenon
  <2>3. /\ found' \in Seq(Packet) /\ Len(found') = n - 1
        /\ \A i \in 1 .. n - 1 : found'[i] = found[i + 1]
    BY <1>1, <2>1, <2>2 DEF LookupInv
  <2>4. DOMAIN found' = 1 .. n - 1
    BY <2>3
  <2>5. Rising(found')
    <3> SUFFICES ASSUME NEW i \in 1 .. n - 1, NEW j \in 1 .. n - 1, i < j
                 PROVE  found'[i].seq_num < found'[j].seq_num
      BY <2>4 DEF Rising
    <3>1. i + 1 \in DOMAIN found /\ j + 1 \in DOMAIN found /\ i + 1 < j + 1
      BY <2>2
    <3>2. found[i + 1].seq_num < found[j + 1].seq_num
      BY <1>1, <3>1 DEF LookupInv, Rising
    <3> QED  BY <2>3, <3>2
  <2>6. server_pc' = "frames" => found' # <<>>
    <3> SUFFICES ASSUME n # 1  PROVE found' # <<>>
      BY <2>1, <2>2
    <3>1. Len(found') # 0
      BY <2>2, <2>3
    <3> QED  BY <3>1
  <2>7. server_pc' = "check" => found' = <<>>
    <3> SUFFICES ASSUME n = 1  PROVE found' = <<>>
      BY <2>1, <2>2
    <3>1. Len(found') = 0
      BY <2>3
    <3> QED  BY <2>3, <3>1
  <2> QED  BY <1>1, <2>1, <2>3, <2>5, <2>6, <2>7 DEF LookupInv
<1>7. CASE SendCount
  BY <1>1, <1>7 DEF SendCount, LookupInv, lookupVars
<1>8. CASE /\ UNCHANGED <<cursor, lookup_end, found>>
           /\ server_pc' = server_pc
              \/ /\ server_pc \in {"loop", "poll", "check"}
                 /\ server_pc' \in {"loop", "poll", "check", "recv", "exited"}
  BY <1>1, <1>8 DEF LookupInv
<1>9. \/ LookupStep \/ ServerGone \/ CloseClient \/ RecvRequest \/ SendFrame \/ SendCount
      \/ /\ UNCHANGED <<cursor, lookup_end, found>>
         /\ server_pc' = server_pc
            \/ /\ server_pc \in {"loop", "poll", "check"}
               /\ server_pc' \in {"loop", "poll", "check", "recv", "exited"}
  BY DEF RequestsNext, Stamp, Store, StorePacket, SendStamped, SendPacket, Exit, GraceOver,
         JoinReturns, ExchangeKilled, ServerStep, ServerThread, Server, CheckStop, PollTimeout,
         Accept, CheckServe, CheckServeStopped, RecvEof, SendFails, ClientStep, RequestNothing,
         Request, RequestThrows, RequestReturns, NextRequest, ClientLeaves, SendRequest,
         TakeReply, close_connection, requestVars, recoveryVars, lookupVars
<1> QED  BY <1>3, <1>4, <1>5, <1>6, <1>7, <1>8, <1>9

-----------------------------------------------------------------------------

\* Whatever range is asked for, a look-up finds no packet twice and none out of
\* order: lookup_range leaves its loop before ++seq_num could wrap.
THEOREM EachIsLookedUpOnce == RequestsSpec => []LookupVisitsOnce
<1>1. RequestsInv /\ [RequestsNext]_requestVars => RequestsInv'
  BY PublisherKeeps, ClientsKeep, LookupKeeps DEF RequestsInv
<1>2. RequestsInv => LookupVisitsOnce
  BY DEF RequestsInv, LookupInv, Rising, LookupVisitsOnce
<1> QED  BY <1>1, <1>2, RequestsInitInv, PTL DEF RequestsSpec

-----------------------------------------------------------------------------
(* Answers are snapshots.  The invariant follows an answer from the socket *)
(* to its last frame and says which snapshot it is a part of.              *)

InService == {"check", "recv", "lookup", "count", "frames"}

\* The server has accepted the client's connection.
Serves(h) == serving = h /\ server_pc \in InService

\* It is at work on a request of the client.
Busy(h) == serving = h /\ server_pc \in {"lookup", "count", "frames"}

StoredCount == Cardinality(DOMAIN packets)

\* The history is a run of packets, and the next one follows it.
RunInv ==
  /\ packet_sequence \in Nat
  /\ main_pc \in {"store", "send"} =>
       /\ packet_sequence - 1 <= emitted_messages
       /\ emitted_messages < Messages
  /\ \E n \in Nat : /\ DOMAIN packets = 1 .. n
                    /\ main_pc = "store" => packet_sequence = n + 1
                    /\ main_pc = "send" => packet_sequence = n

\* Every client has an entry in each of these.
EntriesInv ==
  /\ reply = [h \in Handlers |-> reply[h]]
  /\ client_pc = [h \in Handlers |-> client_pc[h]]
  /\ ask \in [Handlers -> Ranges]
  /\ known = [h \in Handlers |-> known[h]]
  /\ answer = [h \in Handlers |-> answer[h]]

\* A client waits to be accepted once, or is served, over a connection the
\* server has not closed.
ConnectionsInv ==
  /\ conn \in [Handlers -> ConnStates]
  /\ \A i, j \in DOMAIN backlog : backlog[i] = backlog[j] => i = j
  /\ \A i \in DOMAIN backlog : /\ conn[backlog[i]] \in {"up", "client_closed"}
                               /\ ~Serves(backlog[i])
  /\ \A h \in Handlers : Serves(h) => conn[h] \in {"up", "client_closed"}

\* The sequence is what was asked for as it was at some moment since.
IsSnapshot(h, seq) ==
  \E n \in known[h] .. StoredCount : seq = Stored(ask[h].start_seq, ask[h].end_seq, n)

\* The request is in the socket, is looked up, is about to be answered, is being
\* answered, has been answered, or never will be.
InSocket(h) ==
  /\ request[h] = ask[h]
  /\ reply[h] = NoReply
  /\ ~Busy(h)

LookedUp(h) ==
  /\ server_pc = "lookup"
  /\ reply[h] = NoReply
  /\ lookup_end = ask[h].end_seq
  /\ cursor \in ask[h].start_seq .. ask[h].end_seq
  /\ found = Stored(ask[h].start_seq, cursor - 1, StoredCount)

AllFound(h) ==
  /\ server_pc = "count"
  /\ reply[h] = NoReply
  /\ IsSnapshot(h, found)

PartlySent(h) ==
  /\ server_pc = "frames"
  /\ \E frames \in Seq(Packet) :
       /\ reply[h] = [packet_count |-> Len(frames) + Len(found), frames |-> frames]
       /\ IsSnapshot(h, frames \o found)

Sent(h) ==
  /\ request[h] = NoRequest
  /\ ~Busy(h)
  /\ IsSnapshot(h, reply[h].frames)
  /\ reply[h].packet_count = Len(reply[h].frames)

Answering(h) ==
  \/ InSocket(h)
  \/ /\ request[h] = NoRequest
     /\ serving = h
     /\ LookedUp(h) \/ AllFound(h) \/ PartlySent(h)
  \/ Sent(h)
  \/ conn[h] = "server_closed" /\ ~ReplyComplete(h)

AnswerInv(h) ==
  /\ client_pc[h] \in {"idle", "asking", "answered", "failed"}
  /\ known[h] \in 0 .. StoredCount
  /\ client_pc[h] \in {"idle", "answered"} =>
       request[h] = NoRequest /\ reply[h] = NoReply /\ ~Busy(h)
  /\ client_pc[h] = "idle" => known[h] = 0
  /\ client_pc[h] # "failed" => conn[h] # "client_closed"
  /\ client_pc[h] = "asking" => /\ conn[h] # "none"
                                /\ ask[h].start_seq <= ask[h].end_seq
                                /\ Answering(h)
  /\ client_pc[h] = "answered" => IsSnapshot(h, answer[h])

SnapshotInv ==
  /\ RunInv
  /\ EntriesInv
  /\ ConnectionsInv
  /\ \A h \in Handlers : AnswerInv(h)

-----------------------------------------------------------------------------
(* The history, and what lies between two numbers of it.                   *)

\* There are as many packets as the last one's number.
LEMMA RunFacts ==
  ASSUME RequestsInv, RunInv
  PROVE  \E n \in Nat :
           /\ n = StoredCount /\ DOMAIN packets = 1 .. n
           /\ \A s \in 1 .. n : packets[s] \in Packet
           /\ main_pc = "store" => packet_sequence = n + 1
           /\ main_pc = "send" => packet_sequence = n
<1>1. PICK n \in Nat : /\ DOMAIN packets = 1 .. n
                       /\ main_pc = "store" => packet_sequence = n + 1
                       /\ main_pc = "send" => packet_sequence = n
  BY DEF RunInv
<1>2. Cardinality(1 .. n) = n
  BY FS_Interval
<1> QED  BY <1>1, <1>2 DEF StoredCount, RequestsInv, PublisherInv

\* The ends of a range, cut to a history of n packets, and the number of packets
\* between them.
First(s) == IF s = 0 THEN 1 ELSE s
Last(e, n) == IF e < n THEN e ELSE n
Size(s, e, n) == IF Last(e, n) < First(s) THEN 0 ELSE Last(e, n) - First(s) + 1

\* The packets of a range are a sequence of that length.
LEMMA StoredSpan ==
  ASSUME NEW s \in Nat, NEW e \in Int, NEW n \in Nat, \A i \in 1 .. n : packets[i] \in Packet
  PROVE  /\ Size(s, e, n) \in Nat
         /\ \A i \in 1 .. Size(s, e, n) : Stored(s, e, n)[i] = packets[First(s) + i - 1]
         /\ Stored(s, e, n) \in Seq(Packet)
         /\ Len(Stored(s, e, n)) = Size(s, e, n)
<1>1. PICK first \in Nat \ {0} : first = First(s)
  BY DEF First
<1>2. PICK last \in Int : last = Last(e, n) /\ last <= n
  BY DEF Last
<1>3. PICK k \in Nat : k = Size(s, e, n) /\ k = IF last < first THEN 0 ELSE last - first + 1
  <2>1. ~(last < first) => last - first + 1 \in Nat
    OBVIOUS
  <2> QED  BY <1>1, <1>2, <2>1 DEF Size
<1>4. 1 .. last - first + 1 = 1 .. k
  BY <1>3
<1>5. Stored(s, e, n) = [i \in 1 .. k |-> packets[first + i - 1]]
  BY <1>1, <1>2, <1>4 DEF Stored, First, Last
<1>6. \A i \in 1 .. k : first + i - 1 \in 1 .. n
  BY <1>2, <1>3
<1>7. Stored(s, e, n) \in [1 .. k -> Packet]
  BY <1>5, <1>6
<1>8. Stored(s, e, n) \in Seq(Packet) /\ Len(Stored(s, e, n)) = k
  BY <1>7
<1>9. \A i \in 1 .. k : Stored(s, e, n)[i] = packets[first + i - 1]
  BY <1>5
<1> QED  BY <1>1, <1>3, <1>8, <1>9

\* An empty range holds nothing.
LEMMA StoredNothing ==
  ASSUME NEW s \in Nat, NEW e \in Int, NEW n \in Nat, e < s
  PROVE  Stored(s, e, n) = <<>>
<1>1. PICK first, last : /\ first = IF s = 0 THEN 1 ELSE s
                         /\ last = IF e < n THEN e ELSE n
  OBVIOUS
<1>2. 1 .. last - first + 1 = {}
  BY <1>1
<1> QED  BY <1>1, <1>2 DEF Stored

\* A number more: its packet if there is one, and nothing otherwise.
LEMMA StoredNext ==
  ASSUME NEW s \in Nat, NEW c \in Nat, s <= c, NEW n \in Nat,
         \A i \in 1 .. n : packets[i] \in Packet
  PROVE  Stored(s, c, n) = IF c \in 1 .. n THEN Append(Stored(s, c - 1, n), packets[c])
                           ELSE Stored(s, c - 1, n)
<1>1. CASE c \notin 1 .. n
  <2>1. CASE c = 0
    BY <2>1, <1>1 DEF Stored
  <2>2. CASE c # 0
    <3>1. ~(c < n) /\ ~(c - 1 < n)
      BY <1>1, <2>2
    <3> QED  BY <1>1, <3>1 DEF Stored
  <2> QED  BY <2>1, <2>2
<1>2. CASE c \in 1 .. n
  <2> DEFINE long == Stored(s, c, n)
             short == Stored(s, c - 1, n)
  <2>1. PICK k \in Nat, j \in Nat, first \in Nat \ {0} :
          /\ k = Size(s, c, n) /\ j = Size(s, c - 1, n) /\ first = First(s)
          /\ k = j + 1 /\ first + k - 1 = c
    BY <1>2 DEF Size, First, Last
  <2>2. /\ long \in Seq(Packet) /\ Len(long) = k
        /\ \A i \in 1 .. k : long[i] = packets[first + i - 1]
    <3>1. c \in Int
      OBVIOUS
    <3>2. /\ \A i \in 1 .. Size(s, c, n) : Stored(s, c, n)[i] = packets[First(s) + i - 1]
          /\ Stored(s, c, n) \in Seq(Packet)
          /\ Len(Stored(s, c, n)) = Size(s, c, n)
      BY <3>1, StoredSpan
    <3> QED  BY <2>1, <3>2
  <2>3. /\ short \in Seq(Packet) /\ Len(short) = j
        /\ \A i \in 1 .. j : short[i] = packets[first + i - 1]
    <3>1. c - 1 \in Int
      OBVIOUS
    <3>2. /\ \A i \in 1 .. Size(s, c - 1, n) : Stored(s, c - 1, n)[i] = packets[First(s) + i - 1]
          /\ Stored(s, c - 1, n) \in Seq(Packet)
          /\ Len(Stored(s, c - 1, n)) = Size(s, c - 1, n)
      BY <3>1, StoredSpan
    <3> QED  BY <2>1, <3>2
  <2> HIDE DEF long, short
  <2>4. /\ Append(short, packets[c]) \in Seq(Packet)
        /\ Len(Append(short, packets[c])) = k
        /\ \A i \in 1 .. j : Append(short, packets[c])[i] = short[i]
        /\ Append(short, packets[c])[k] = packets[c]
    <3>1. packets[c] \in Packet
      BY <1>2
    <3>2. /\ Append(short, packets[c]) \in Seq(Packet)
          /\ Len(Append(short, packets[c])) = Len(short) + 1
          /\ \A i \in 1 .. Len(short) : Append(short, packets[c])[i] = short[i]
          /\ Append(short, packets[c])[Len(short) + 1] = packets[c]
      BY <2>3, <3>1, AppendProperties
    <3> QED  BY <2>1, <2>3, <3>2
  <2>5. ASSUME NEW i \in 1 .. k  PROVE Append(short, packets[c])[i] = long[i]
    <3>1. CASE i = k
      BY <2>1, <2>2, <2>4, <3>1
    <3>2. CASE i # k
      <4>1. i \in 1 .. j
        BY <2>1, <3>2
      <4> QED  BY <2>2, <2>3, <2>4, <4>1
    <3> QED  BY <3>1, <3>2
  <2>6. Append(short, packets[c]) = long
    BY <2>2, <2>4, <2>5, SeqEqual
  <2> QED  BY <1>2, <2>6 DEF long, short
<1> QED  BY <1>1, <1>2

\* What was stored does not change when more is.
LEMMA StoredKept ==
  ASSUME NEW n \in Nat, \A i \in 1 .. n : packets'[i] = packets[i],
         NEW s \in Nat, NEW e \in Int
  PROVE  Stored(s, e, n)' = Stored(s, e, n)
<1>1. PICK first \in Nat \ {0}, last \in Int : first = First(s) /\ last = Last(e, n)
  BY DEF First, Last
<1>2. \A i \in 1 .. last - first + 1 : first + i - 1 \in 1 .. n
  BY <1>1 DEF Last
<1>3. \A i \in 1 .. last - first + 1 : packets'[first + i - 1] = packets[first + i - 1]
  BY <1>2
<1> QED  BY <1>1, <1>3 DEF Stored, First, Last

-----------------------------------------------------------------------------
(* The history grows, and stands still during a look-up.                   *)

\* Nothing stored is lost or replaced, and a look-up sees one history.
Grows ==
  /\ StoredCount <= StoredCount'
  /\ \A i \in 1 .. StoredCount : packets'[i] = packets[i]
  /\ server_pc = "lookup" => packets' = packets

\* The initial state satisfies the invariant.
LEMMA SnapshotInitInv == RequestsInit => SnapshotInv
<1> SUFFICES ASSUME RequestsInit  PROVE SnapshotInv
  OBVIOUS
<1>1. /\ packets = [s \in {} |-> NoReply] /\ server_pc = "loop" /\ serving = NoClient
      /\ backlog = <<>> /\ packet_sequence = 1 /\ emitted_messages = 0
      /\ main_pc = IF Messages = 0 THEN "grace" ELSE "store"
  BY DEF RequestsInit, RecoveryInit, ExchangeInit
<1>2. RunInv
  <2>1. DOMAIN packets = 1 .. 0
    BY <1>1
  <2>2. Messages \in Nat
    BY ExchangeAssumption
  <2>3. main_pc \in {"store", "send"} => main_pc = "store" /\ 0 < Messages
    BY <1>1, <2>2
  <2>4. packet_sequence = 0 + 1 /\ packet_sequence - 1 <= emitted_messages
    BY <1>1
  <2> QED  BY <1>1, <2>1, <2>3, <2>4 DEF RunInv
<1>3. ConnectionsInv
  BY <1>1 DEF RequestsInit, RecoveryInit, ConnectionsInv, ConnStates, Serves, InService
<1>6. EntriesInv
  <2>1. NoRequest \in Ranges
    BY MaxSeqAssumption DEF NoRequest, Ranges, SeqNums
  <2> QED  BY <2>1 DEF RequestsInit, RecoveryInit, EntriesInv
<1>4. StoredCount = 0
  <2>1. DOMAIN packets = {}
    BY <1>1
  <2> QED  BY <2>1, FS_EmptySet DEF StoredCount
<1>5. ASSUME NEW h \in Handlers  PROVE AnswerInv(h)
  <2>1. /\ client_pc[h] = "idle" /\ known[h] = 0 /\ request[h] = NoRequest
        /\ reply[h] = NoReply /\ conn[h] = "none" /\ ~Busy(h)
    BY <1>1 DEF RequestsInit, RecoveryInit, Busy
  <2> QED  BY <1>4, <2>1 DEF AnswerInv
<1> QED  BY <1>2, <1>3, <1>5, <1>6 DEF SnapshotInv

\* A packet is stored under the number after the last, and once.
LEMMA RunKeeps ==
  ASSUME RequestsInv, RunInv, [RequestsNext]_requestVars
  PROVE  RunInv' /\ Grows
<1> USE ExchangeAssumption, MaxSeqAssumption, RequestsAssumption
<1>1. PICK n \in Nat : /\ n = StoredCount /\ DOMAIN packets = 1 .. n
                       /\ main_pc = "store" => packet_sequence = n + 1
                       /\ main_pc = "send" => packet_sequence = n
  BY RunFacts
<1>2. CASE /\ UNCHANGED <<packets, packet_sequence, emitted_messages>>
           /\ main_pc' = main_pc \/ main_pc' \notin {"store", "send"}
  <2>1. StoredCount' = StoredCount
    BY <1>2 DEF StoredCount
  <2>2. Grows
    BY <1>1, <1>2, <2>1 DEF Grows
  <2>3. RunInv'
    BY <1>2 DEF RunInv
  <2> QED  BY <2>2, <2>3
<1>3. CASE StorePacket
  <2>1. /\ main_pc = "store" /\ server_pc # "lookup" /\ main_pc' = "send"
        /\ packets' = [s \in DOMAIN packets \cup {packet_sequence} |->
                         IF s = packet_sequence THEN packet_buffer ELSE packets[s]]
        /\ UNCHANGED <<packet_sequence, emitted_messages>>
    BY <1>3 DEF StorePacket, store, mutex_held
  <2>2. packet_sequence = n + 1
    BY <1>1, <2>1
  <2>3. DOMAIN packets' = 1 .. n + 1
    BY <1>1, <2>1, <2>2
  <2>4. StoredCount' = n + 1
    BY <2>3, FS_Interval DEF StoredCount
  <2>5. \A i \in 1 .. n : packets'[i] = packets[i]
    BY <1>1, <2>1, <2>2
  <2>6. Grows
    BY <1>1, <2>1, <2>4, <2>5 DEF Grows
  <2>7. RunInv'
    BY <2>1, <2>2, <2>3 DEF RunInv
  <2> QED  BY <2>6, <2>7
<1>4. CASE SendPacket
  <2>1. /\ main_pc = "send" /\ packets' = packets
        /\ emitted_messages' = emitted_messages + BatchSize
        /\ packet_sequence' = NextSeq(packet_sequence)
        /\ main_pc' = IF emitted_messages' < Messages THEN "store" ELSE "grace"
    BY <1>4 DEF SendPacket, recoveryVars
  <2>2. emitted_messages \in Nat /\ packet_sequence \in Nat
    BY DEF RequestsInv, PublisherInv, SeqNums
  <2>3. packet_sequence = n /\ n - 1 <= emitted_messages /\ emitted_messages < Messages
    BY <1>1, <2>1 DEF RunInv
  <2>4. BatchSize \in Nat /\ BatchSize >= 1
    BY <2>2, <2>3 DEF BatchSize
  <2>5. main_pc' = "store" => packet_sequence' = n + 1 /\ n <= emitted_messages'
    <3> SUFFICES ASSUME emitted_messages' < Messages
                 PROVE  packet_sequence' = n + 1 /\ n <= emitted_messages'
      BY <2>1
    <3>1. n <= emitted_messages'
      BY <2>1, <2>2, <2>3, <2>4
    <3>2. n # MaxSeq
      BY <2>1, <2>2, <2>4, <3>1
    <3> QED  BY <2>1, <2>3, <3>1, <3>2 DEF NextSeq
  <2>6. packet_sequence' \in Nat
    BY <2>1, <2>2 DEF NextSeq
  <2>7. RunInv'
    <3>1. main_pc' \in {"store", "grace"} /\ DOMAIN packets' = 1 .. n
      BY <1>1, <2>1
    <3>2. main_pc' = "store" => emitted_messages' < Messages
      BY <2>1
    <3>3. (n + 1) - 1 = n
      OBVIOUS
    <3> QED  BY <2>5, <2>6, <3>1, <3>2, <3>3 DEF RunInv
  <2>8. Grows
    <3>1. StoredCount' = StoredCount
      BY <2>1 DEF StoredCount
    <3> QED  BY <1>1, <2>1, <3>1 DEF Grows
  <2> QED  BY <2>7, <2>8
<1>5. \/ StorePacket \/ SendPacket
      \/ /\ UNCHANGED <<packets, packet_sequence, emitted_messages>>
         /\ main_pc' = main_pc \/ main_pc' \notin {"store", "send"}
  BY DEF RequestsNext, Stamp, Store, SendStamped, Exit, GraceOver, JoinReturns, ExchangeKilled,
         ServerGone, ServerStep, ServerThread, Server, CheckStop, PollTimeout, Accept, CheckServe,
         CheckServeStopped, CloseClient, RecvRequest, LookupStep, LookupTurn, RecvEof, SendCount,
         SendFrame, SendFails, ClientStep, RequestNothing, Request, RequestThrows,
         RequestReturns, NextRequest, ClientLeaves, SendRequest, TakeReply, close_connection,
         requestVars, exchangeVars, recoveryVars
<1> QED  BY <1>2, <1>3, <1>4, <1>5

-----------------------------------------------------------------------------
(* The clients' entries and connections.                                   *)

\* A step gives a client a new entry and leaves the others alone.
LEMMA EntriesKeep ==
  ASSUME EntriesInv, [RequestsNext]_requestVars
  PROVE  EntriesInv'
<1>1. \/ reply' = reply
      \/ \E h, r : reply' = [reply EXCEPT ![h] = r]
  <2>1. CASE SendFrame
    BY <2>1 DEF SendFrame
  <2> QED
    BY <2>1 DEF RequestsNext, Stamp, Store, StorePacket, SendStamped, SendPacket, Exit, GraceOver,
         JoinReturns, ExchangeKilled, ServerGone, ServerStep, ServerThread, Server, CheckStop,
         PollTimeout, Accept, CheckServe, CheckServeStopped, CloseClient, RecvRequest, LookupStep,
         LookupTurn, RecvEof, SendCount, SendFails, ClientStep, RequestNothing, Request,
         RequestThrows, RequestReturns, NextRequest, ClientLeaves, SendRequest, TakeReply,
         close_connection, requestVars, recoveryVars, socketVars
<1>2. \/ UNCHANGED clientVars
      \/ \E h : /\ \E v : client_pc' = [client_pc EXCEPT ![h] = v]
                /\ ask' = ask \/ \E v \in Ranges : ask' = [ask EXCEPT ![h] = v]
                /\ known' = known \/ \E v : known' = [known EXCEPT ![h] = v]
                /\ answer' = answer \/ \E v : answer' = [answer EXCEPT ![h] = v]
  <2>1. CASE ClientStep
    <3>1. PICK h : \/ RequestNothing(h) \/ Request(h) \/ RequestThrows(h)
                   \/ RequestReturns(h) \/ NextRequest(h) \/ ClientLeaves(h)
      BY <2>1 DEF ClientStep
    <3>2. /\ NoRequest \in Ranges
          /\ \A s, e \in SeqNums : [start_seq |-> s, end_seq |-> e] \in Ranges
      BY MaxSeqAssumption DEF NoRequest, Ranges, SeqNums
    <3> QED  BY <3>1, <3>2, Zenon DEF RequestNothing, Request, RequestThrows, RequestReturns,
                   NextRequest, ClientLeaves
  <2>2. CASE ~ClientStep
    BY <2>2 DEF RequestsNext, Stamp, Store, SendStamped, Exit, ServerStep, requestVars, clientVars
  <2> QED  BY <2>1, <2>2
<1>3. /\ client_pc' = client_pc \/ \E h, v : client_pc' = [client_pc EXCEPT ![h] = v]
      /\ ask' = ask \/ \E h : \E v \in Ranges : ask' = [ask EXCEPT ![h] = v]
      /\ known' = known \/ \E h, v : known' = [known EXCEPT ![h] = v]
      /\ answer' = answer \/ \E h, v : answer' = [answer EXCEPT ![h] = v]
  BY <1>2, Zenon DEF clientVars
<1>4. ASSUME NEW f, NEW g, f = [h \in Handlers |-> f[h]],
             g = f \/ \E h, v : g = [f EXCEPT ![h] = v]
      PROVE  g = [h \in Handlers |-> g[h]]
  <2>1. CASE g = f
    BY <1>4, <2>1
  <2>2. CASE \E h, v : g = [f EXCEPT ![h] = v]
    <3>1. PICK h, v : g = [f EXCEPT ![h] = v]
      BY <2>2
    <3> QED  BY <1>4, <3>1
  <2> QED  BY <1>4, <2>1, <2>2
<1>5. ask' \in [Handlers -> Ranges]
  BY <1>3 DEF EntriesInv
<1> QED  BY <1>1, <1>3, <1>4, <1>5, Zenon DEF EntriesInv

\* The server closes the connection it serves; the others are as they were.
LEMMA CloseKeepsConnections ==
  ASSUME ConnectionsInv, NEW h \in Handlers, Serves(h), serving = h, CloseClient
  PROVE  ConnectionsInv'
<1>1. /\ conn' = [conn EXCEPT ![h] = IF @ = "up" THEN "server_closed" ELSE @]
      /\ server_pc' = "loop" /\ backlog' = backlog
  BY DEF CloseClient
<1>2. \A g \in Handlers : ~Serves(g)'
  BY <1>1 DEF Serves, InService
<1>3. \A i \in DOMAIN backlog : backlog[i] # h
  BY DEF ConnectionsInv
<1> QED  BY <1>1, <1>2, <1>3 DEF ConnectionsInv, ConnStates, Serves, InService

\* Who is connected, and who waits to be served.
LEMMA ConnectionsKeep ==
  ASSUME RequestsInv, ConnectionsInv, [RequestsNext]_requestVars
  PROVE  ConnectionsInv'
<1>1. CASE /\ UNCHANGED <<conn, backlog>>
           /\ \A h \in Handlers : Serves(h)' => Serves(h)
           /\ \A i \in DOMAIN backlog : Serves(backlog[i])' => Serves(backlog[i])
  BY <1>1 DEF ConnectionsInv
<1>2. CASE ServerGone
  <2>1. /\ conn' = [h \in Handlers |-> IF conn[h] = "up" THEN "server_closed" ELSE conn[h]]
        /\ backlog' = <<>> /\ server_pc' = "exited"
    BY <1>2 DEF ServerGone
  <2> QED  BY <2>1 DEF ConnectionsInv, ConnStates, Serves, InService
<1>3. CASE CheckServeStopped \/ RecvEof \/ SendFails
  <2>1. CloseClient /\ server_pc \in {"check", "recv", "count", "frames"}
    BY <1>3 DEF CheckServeStopped, RecvEof, SendFails
  <2>2. serving \in Handlers /\ Serves(serving)
    BY <2>1 DEF RequestsInv, ClientsInv, Serves, InService
  <2> QED  BY <2>1, <2>2, CloseKeepsConnections
<1>4. CASE Accept
  <2>1. /\ server_pc = "poll" /\ backlog # <<>> /\ serving' = Head(backlog)
        /\ backlog' = Tail(backlog) /\ conn' = conn /\ server_pc' = "check"
    BY <1>4 DEF Accept
  <2>2. PICK n \in Nat : n = Len(backlog) /\ n >= 1 /\ DOMAIN backlog = 1 .. n
    <3>1. backlog \in Seq(Handlers)
      BY DEF RequestsInv, ClientsInv
    <3>2. Len(backlog) \in Nat /\ DOMAIN backlog = 1 .. Len(backlog)
      BY <3>1
    <3>3. Len(backlog) # 0
      BY <2>1, <3>1, EmptySeq
    <3>4. Len(backlog) >= 1
      BY <3>2, <3>3
    <3> QED  BY <3>2, <3>4, Zenon
  <2>3. /\ DOMAIN backlog' = 1 .. n - 1 /\ serving' = backlog[1]
        /\ \A i \in 1 .. n - 1 : backlog'[i] = backlog[i + 1]
    BY <2>1, <2>2 DEF RequestsInv, ClientsInv
  <2>4. \A i \in 1 .. n - 1 : i + 1 \in DOMAIN backlog /\ i + 1 # 1
    BY <2>2
  <2>5. \A i, j \in DOMAIN backlog' : backlog'[i] = backlog'[j] => i = j
    <3> SUFFICES ASSUME NEW i \in 1 .. n - 1, NEW j \in 1 .. n - 1, backlog'[i] = backlog'[j]
                 PROVE  i = j
      BY <2>3
    <3>1. i + 1 = j + 1
      BY <2>3, <2>4 DEF ConnectionsInv
    <3> QED  BY <3>1
  <2>6. ASSUME NEW i \in DOMAIN backlog'
        PROVE  conn'[backlog'[i]] \in {"up", "client_closed"} /\ ~Serves(backlog[i])'
    <3>1. backlog'[i] = backlog[i + 1] /\ i + 1 \in DOMAIN backlog /\ i + 1 # 1
      BY <2>3, <2>4, <2>6
    <3>2. backlog[i + 1] # backlog[1]
      BY <2>2, <3>1 DEF ConnectionsInv
    <3>3. backlog'[i] # serving'
      BY <2>3, <3>1, <3>2
    <3>4. ~Serves(backlog[i])'
      BY <3>3 DEF Serves
    <3> QED  BY <2>1, <3>1, <3>4 DEF ConnectionsInv
  <2>7. ASSUME NEW h \in Handlers, Serves(h)'  PROVE conn'[h] \in {"up", "client_closed"}
    <3>1. h = backlog[1] /\ 1 \in DOMAIN backlog
      BY <2>2, <2>3, <2>7 DEF Serves
    <3>2. conn[backlog[1]] \in {"up", "client_closed"}
      BY <3>1 DEF ConnectionsInv
    <3> QED  BY <2>1, <3>1, <3>2
  <2> QED  BY <2>1, <2>5, <2>6, <2>7 DEF ConnectionsInv
<1>5. CASE \E h \in Handlers : Request(h)
  <2>1. PICK h \in Handlers, s \in SeqNums, e \in SeqNums : SendRequest(h, s, e)
    BY <1>5 DEF Request
  <2>2. /\ conn[h] # "server_closed" /\ conn' = [conn EXCEPT ![h] = "up"]
        /\ backlog' = IF conn[h] = "none" THEN Append(backlog, h) ELSE backlog
        /\ UNCHANGED <<serving, server_pc>>
    BY <2>1 DEF SendRequest, Unreachable
  <2>3. conn' \in [Handlers -> ConnStates]
    BY <2>2 DEF ConnectionsInv, ConnStates
  <2>4. \A g : Serves(g)' <=> Serves(g)
    BY <2>2 DEF Serves
  <2>5. \A g \in Handlers : conn[g] \in {"up", "client_closed"}
                           => conn'[g] \in {"up", "client_closed"}
    BY <2>2 DEF ConnectionsInv
  <2>6. backlog \in Seq(Handlers)
    BY DEF RequestsInv, ClientsInv
  <2>7. CASE conn[h] # "none"
    <3>1. backlog' = backlog
      BY <2>2, <2>7
    <3>2. \A i \in DOMAIN backlog : backlog[i] \in Handlers
      BY <2>6
    <3> QED  BY <2>3, <2>4, <2>5, <3>1, <3>2 DEF ConnectionsInv
  <2>8. CASE conn[h] = "none"
    <3>1. PICK n \in Nat : n = Len(backlog) /\ DOMAIN backlog = 1 .. n
      BY <2>6
    <3>2. /\ DOMAIN backlog' = 1 .. n + 1 /\ backlog'[n + 1] = h
          /\ \A i \in 1 .. n : backlog'[i] = backlog[i] /\ backlog[i] \in Handlers
      BY <2>2, <2>6, <2>8, <3>1
    <3>3. \A i \in 1 .. n : backlog[i] # h
      BY <2>8, <3>1 DEF ConnectionsInv
    <3>4. ~Serves(h)
      BY <2>8 DEF ConnectionsInv
    <3>5. \A i, j \in DOMAIN backlog' : backlog'[i] = backlog'[j] => i = j
      BY <3>1, <3>2, <3>3 DEF ConnectionsInv
    <3>6. ASSUME NEW i \in DOMAIN backlog'
          PROVE  conn'[backlog'[i]] \in {"up", "client_closed"} /\ ~Serves(backlog[i])'
      <4>1. CASE i = n + 1
        BY <2>2, <2>4, <3>2, <3>4, <4>1 DEF ConnectionsInv
      <4>2. CASE i \in 1 .. n
        BY <2>4, <2>5, <3>1, <3>2, <4>2 DEF ConnectionsInv
      <4> QED  BY <3>2, <3>6, <4>1, <4>2
    <3>7. \A g \in Handlers : Serves(g)' => conn'[g] \in {"up", "client_closed"}
      BY <2>4, <2>5 DEF ConnectionsInv
    <3> QED  BY <2>3, <3>5, <3>6, <3>7 DEF ConnectionsInv
  <2> QED  BY <2>7, <2>8
<1>6. CASE \E h \in Handlers : close_connection(h)
  <2>1. PICK h \in Handlers : close_connection(h)
    BY <1>6
  <2>2. /\ conn' = [conn EXCEPT ![h] = IF @ = "none" THEN "none" ELSE "client_closed"]
        /\ UNCHANGED <<serving, server_pc, backlog>>
    BY <2>1 DEF close_connection
  <2>3. conn' \in [Handlers -> ConnStates]
    BY <2>2 DEF ConnectionsInv, ConnStates
  <2>4. \A g : Serves(g)' <=> Serves(g)
    BY <2>2 DEF Serves
  <2>5. \A g \in Handlers : conn[g] \in {"up", "client_closed"}
                           => conn'[g] \in {"up", "client_closed"}
    BY <2>2 DEF ConnectionsInv
  <2>6. \A i \in DOMAIN backlog : backlog[i] \in Handlers
    BY DEF RequestsInv, ClientsInv
  <2> QED  BY <2>2, <2>3, <2>4, <2>5, <2>6 DEF ConnectionsInv
<1>7. \/ ServerGone \/ CheckServeStopped \/ RecvEof \/ SendFails \/ Accept
      \/ \E h \in Handlers : Request(h) \/ close_connection(h)
      \/ /\ UNCHANGED <<conn, backlog, serving>>
         /\ server_pc' \in InService => server_pc \in InService
  BY DEF RequestsNext, Stamp, Store, StorePacket, SendStamped, SendPacket, Exit, GraceOver,
         JoinReturns, ExchangeKilled, ServerStep, ServerThread, Server, CheckStop, PollTimeout,
         CheckServe, RecvRequest, LookupStep, LookupTurn, SendCount, SendFrame, ClientStep,
         RequestNothing, RequestThrows, RequestReturns, NextRequest, ClientLeaves, TakeReply,
         requestVars, recoveryVars, socketVars, InService
<1>8. UNCHANGED serving /\ (server_pc' \in InService => server_pc \in InService)
        => \A h : Serves(h)' => Serves(h)
  BY DEF Serves
<1> QED  BY <1>1, <1>2, <1>3, <1>4, <1>5, <1>6, <1>7, <1>8

-----------------------------------------------------------------------------
(* An answer on its way.                                                   *)

\* A snapshot stays one while more is stored.
LEMMA SnapshotStays ==
  ASSUME RequestsInv, SnapshotInv, Grows, RunInv', NEW h \in Handlers,
         UNCHANGED <<ask[h], known[h]>>
  PROVE  /\ known'[h] \in 0 .. StoredCount'
         /\ \A seq : IsSnapshot(h, seq) => IsSnapshot(h, seq)'
<1>1. PICK n \in Nat : n = StoredCount
  BY RunFacts DEF SnapshotInv
<1>2. PICK m \in Nat : m = StoredCount'
  <2>1. PICK m \in Nat : DOMAIN packets' = 1 .. m
    BY DEF RunInv
  <2>2. Cardinality(DOMAIN packets') = m
    BY <2>1, FS_Interval
  <2> QED  BY <2>2 DEF StoredCount
<1>3. n <= m /\ \A i \in 1 .. n : packets'[i] = packets[i]
  BY <1>1, <1>2 DEF Grows
<1>4. PICK k \in Nat : k = known[h] /\ k = known'[h] /\ k <= n
  BY <1>1 DEF SnapshotInv, AnswerInv
<1>5. PICK s \in Nat, e \in Nat : s = ask[h].start_seq /\ e = ask[h].end_seq
  BY DEF SnapshotInv, EntriesInv, Ranges, SeqNums
<1>6. \A l \in k .. n : Stored(s, e, l)' = Stored(s, e, l)
  <2> SUFFICES ASSUME NEW l \in k .. n  PROVE Stored(s, e, l)' = Stored(s, e, l)
    OBVIOUS
  <2>1. l \in Nat /\ e \in Int /\ \A i \in 1 .. l : packets'[i] = packets[i]
    BY <1>3
  <2> QED  BY <2>1, StoredKept
<1>7. \A l \in k .. n : l \in k .. m
  BY <1>3
<1>8. ask'[h].start_seq = s /\ ask'[h].end_seq = e
  BY <1>5
<1>9. ASSUME NEW seq, IsSnapshot(h, seq)  PROVE IsSnapshot(h, seq)'
  <2>1. PICK l \in k .. n : seq = Stored(s, e, l)
    BY <1>1, <1>4, <1>5, <1>9 DEF IsSnapshot
  <2>2. l \in k .. m /\ seq = Stored(s, e, l)'
    BY <1>6, <1>7, <2>1
  <2> QED  BY <1>2, <1>4, <1>8, <2>2 DEF IsSnapshot
<1> QED  BY <1>2, <1>3, <1>4, <1>9

\* A step that is not about the client leaves its answer on its way.
LEMMA Undisturbed ==
  ASSUME RequestsInv, SnapshotInv, Grows, RunInv', NEW h \in Handlers,
         UNCHANGED <<client_pc[h], ask[h], known[h], answer[h], request[h], reply[h]>>,
         conn'[h] = conn[h] \/ (conn[h] = "up" /\ conn'[h] = "server_closed"),
         Busy(h)' => Busy(h),
         Busy(h) => UNCHANGED <<server_pc, serving, found, cursor, lookup_end>>
  PROVE  AnswerInv(h)'
<1>1. AnswerInv(h)
  BY DEF SnapshotInv
<1>2. /\ known'[h] \in 0 .. StoredCount'
      /\ \A seq : IsSnapshot(h, seq) => IsSnapshot(h, seq)'
  BY SnapshotStays
<1>3. ASSUME Answering(h)  PROVE Answering(h)'
  <2>1. CASE InSocket(h)
    BY <2>1 DEF InSocket, Answering
  <2>2. CASE request[h] = NoRequest /\ serving = h /\ LookedUp(h)
    <3>1. Busy(h)
      BY <2>2 DEF LookedUp, Busy
    <3>2. UNCHANGED <<server_pc, serving, found, cursor, lookup_end>> /\ packets' = packets
      BY <2>2, <3>1 DEF LookedUp, Grows
    <3>3. \A s, e, n : Stored(s, e, n)' = Stored(s, e, n)
      BY <3>2 DEF Stored
    <3>4. StoredCount' = StoredCount
      BY <3>2 DEF StoredCount
    <3>5. LookedUp(h)'
      BY <2>2, <3>2, <3>3, <3>4 DEF LookedUp
    <3> QED  BY <2>2, <3>2, <3>5 DEF Answering
  <2>3. CASE request[h] = NoRequest /\ serving = h /\ AllFound(h)
    <3>1. Busy(h)
      BY <2>3 DEF AllFound, Busy
    <3>2. AllFound(h)'
      <4>1. IsSnapshot(h, found) /\ found' = found
        BY <2>3, <3>1 DEF AllFound
      <4>2. IsSnapshot(h, found)'
        BY <1>2, <4>1 DEF IsSnapshot
      <4> QED  BY <2>3, <3>1, <4>2 DEF AllFound
    <3> QED  BY <2>3, <3>1, <3>2 DEF Answering
  <2>4. CASE request[h] = NoRequest /\ serving = h /\ PartlySent(h)
    <3>1. Busy(h)
      BY <2>4 DEF PartlySent, Busy
    <3>2. PartlySent(h)'
      <4>1. PICK frames \in Seq(Packet) :
              /\ reply[h] = [packet_count |-> Len(frames) + Len(found), frames |-> frames]
              /\ IsSnapshot(h, frames \o found)
        BY <2>4 DEF PartlySent
      <4>2. IsSnapshot(h, frames \o found)'
        BY <1>2, <3>1, <4>1 DEF IsSnapshot
      <4> QED  BY <2>4, <3>1, <4>1, <4>2 DEF PartlySent
    <3> QED  BY <2>4, <3>1, <3>2 DEF Answering
  <2>5. CASE Sent(h)
    <3>1. IsSnapshot(h, reply[h].frames)'
      BY <1>2, <2>5 DEF Sent, IsSnapshot
    <3> QED  BY <2>5, <3>1 DEF Sent, Answering
  <2>6. CASE conn[h] = "server_closed" /\ ~ReplyComplete(h)
    BY <2>6 DEF ReplyComplete, Answering
  <2> QED  BY <1>3, <2>1, <2>2, <2>3, <2>4, <2>5, <2>6 DEF Answering
<1>4. client_pc[h] = "answered" => IsSnapshot(h, answer[h])'
  BY <1>1, <1>2 DEF AnswerInv, IsSnapshot
<1> QED  BY <1>1, <1>2, <1>3, <1>4 DEF AnswerInv

-----------------------------------------------------------------------------
(* The server's steps.                                                     *)

\* The server is at work on the request of a client that waits for the answer.
LEMMA AtWork ==
  ASSUME SnapshotInv, NEW h \in Handlers, client_pc[h] # "failed", Busy(h)
  PROVE  /\ client_pc[h] = "asking"
         /\ request[h] = NoRequest
         /\ server_pc = "lookup" => LookedUp(h)
         /\ server_pc = "count" => AllFound(h)
         /\ server_pc = "frames" => PartlySent(h)
<1>1. AnswerInv(h) /\ conn[h] \in {"up", "client_closed"}
  BY DEF SnapshotInv, ConnectionsInv, Busy, Serves, InService
<1>2. client_pc[h] = "asking" /\ conn[h] = "up" /\ Answering(h)
  BY <1>1 DEF AnswerInv
<1>3. request[h] = NoRequest /\ (LookedUp(h) \/ AllFound(h) \/ PartlySent(h))
  BY <1>2 DEF Answering, InSocket, Sent
<1> QED  BY <1>2, <1>3 DEF LookedUp, AllFound, PartlySent

\* The end of the exchange cuts a reply off or leaves it whole.
LEMMA ServerGoneKeeps ==
  ASSUME RequestsInv, SnapshotInv, Grows, RunInv', NEW h \in Handlers,
         ServerGone, UNCHANGED clientVars
  PROVE  AnswerInv(h)'
<1>1. /\ conn' = [g \in Handlers |-> IF conn[g] = "up" THEN "server_closed" ELSE conn[g]]
      /\ server_pc' = "exited" /\ UNCHANGED <<request, reply>>
      /\ UNCHANGED <<client_pc, ask, known, answer>>
  BY DEF ServerGone, clientVars
<1>2. ~Busy(h)'
  BY <1>1 DEF Busy
<1>3. CASE ~Busy(h)
  BY <1>1, <1>2, <1>3, Undisturbed
<1>4. CASE Busy(h) /\ client_pc[h] = "failed"
  <2>1. known'[h] \in 0 .. StoredCount'
    BY <1>1, SnapshotStays
  <2> QED  BY <1>1, <1>4, <2>1 DEF AnswerInv
<1>5. CASE Busy(h) /\ client_pc[h] # "failed"
  <2>1. /\ client_pc[h] = "asking" /\ (LookedUp(h) \/ AllFound(h) \/ PartlySent(h))
    BY <1>5, AtWork DEF Busy
  <2>2. ~ReplyComplete(h)
    <3>1. CASE LookedUp(h) \/ AllFound(h)
      BY <3>1 DEF LookedUp, AllFound, ReplyComplete
    <3>2. CASE PartlySent(h)
      <4>1. found \in Seq(Packet) /\ found # <<>>
        BY <3>2 DEF PartlySent, RequestsInv, LookupInv
      <4>2. Len(found) \in Nat /\ Len(found) # 0
        BY <4>1, EmptySeq
      <4>3. PICK frames \in Seq(Packet) :
              reply[h] = [packet_count |-> Len(frames) + Len(found), frames |-> frames]
        BY <3>2 DEF PartlySent
      <4>4. Len(frames) \in Nat
        BY <4>3
      <4> QED  BY <4>2, <4>3, <4>4 DEF ReplyComplete
    <3> QED  BY <2>1, <3>1, <3>2
  <2>3. conn[h] = "up"
    BY <1>5, <2>1 DEF SnapshotInv, AnswerInv, ConnectionsInv, Busy, Serves, InService
  <2>4. conn'[h] = "server_closed" /\ ~ReplyComplete(h)'
    BY <1>1, <2>2, <2>3 DEF ReplyComplete
  <2>5. Answering(h)'
    BY <2>4 DEF Answering
  <2>6. known'[h] \in 0 .. StoredCount'
    BY <1>1, SnapshotStays
  <2>7. ask'[h].start_seq <= ask'[h].end_seq
    BY <1>1, <2>1 DEF SnapshotInv, AnswerInv
  <2> QED  BY <1>1, <2>1, <2>4, <2>5, <2>6, <2>7 DEF AnswerInv
<1> QED  BY <1>3, <1>4, <1>5

\* A request taken from the socket is what was asked for.
LEMMA RecvKeeps ==
  ASSUME RequestsInv, SnapshotInv, Grows, RunInv', NEW h \in Handlers,
         RecvRequest, UNCHANGED clientVars
  PROVE  AnswerInv(h)'
<1>1. /\ server_pc = "recv" /\ request[serving] # NoRequest
      /\ cursor' = request[serving].start_seq /\ lookup_end' = request[serving].end_seq
      /\ server_pc' = IF cursor' > lookup_end' THEN "count" ELSE "lookup"
      /\ request' = [request EXCEPT ![serving] = NoRequest]
      /\ UNCHANGED <<packets, serving, found, conn, reply>>
      /\ UNCHANGED <<client_pc, ask, known, answer>>
  BY DEF RecvRequest, clientVars
<1>2. found = <<>> /\ serving \in Handlers /\ request \in [Handlers -> Ranges]
  BY <1>1 DEF RequestsInv, LookupInv, ClientsInv
<1>3. ~Busy(h)
  BY <1>1 DEF Busy
<1>4. CASE h # serving
  <2>1. ~Busy(h)'
    BY <1>1, <1>4 DEF Busy
  <2> QED  BY <1>1, <1>2, <1>3, <1>4, <2>1, Undisturbed
<1>5. CASE h = serving
  <2>1. known'[h] \in 0 .. StoredCount'
    BY <1>1, SnapshotStays
  <2>2. CASE client_pc[h] = "failed"
    BY <1>1, <2>1, <2>2 DEF AnswerInv
  <2>3. CASE client_pc[h] # "failed"
    <3>1. /\ client_pc[h] = "asking" /\ Answering(h)
          /\ ask[h].start_seq <= ask[h].end_seq
          /\ conn[h] = "up"
      BY <1>1, <1>5, <2>3 DEF SnapshotInv, AnswerInv, ConnectionsInv, Serves, InService
    <3>2. InSocket(h)
      BY <1>1, <1>5, <3>1 DEF Answering, Sent
    <3>3. PICK s \in Nat, e \in Nat :
            s = ask[h].start_seq /\ e = ask[h].end_seq /\ s <= e
      BY <3>1 DEF SnapshotInv, EntriesInv, Ranges, SeqNums
    <3>4. cursor' = s /\ lookup_end' = e /\ server_pc' = "lookup"
      BY <1>1, <1>5, <3>2, <3>3 DEF InSocket
    <3>5. Stored(s, s - 1, StoredCount)' = <<>>
      <4>1. StoredCount \in Nat /\ s - 1 \in Int /\ s - 1 < s
        BY RunFacts DEF SnapshotInv
      <4>2. Stored(s, s - 1, StoredCount) = <<>>
        BY <4>1, StoredNothing
      <4> QED  BY <1>1, <4>2 DEF Stored, StoredCount
    <3>6. LookedUp(h)'
      <4>1. s \in s .. e
        BY <3>3
      <4> QED  BY <1>1, <1>2, <3>2, <3>3, <3>4, <3>5, <4>1 DEF LookedUp, InSocket
    <3>7. request'[h] = NoRequest /\ serving' = h
      BY <1>1, <1>2, <1>5
    <3>8. Answering(h)'
      BY <3>6, <3>7 DEF Answering
    <3> QED  BY <1>1, <2>1, <3>1, <3>8 DEF AnswerInv
  <2> QED  BY <2>2, <2>3
<1> QED  BY <1>4, <1>5

\* A turn of the loop takes the answer one number further.
LEMMA LookupStepKeeps ==
  ASSUME RequestsInv, SnapshotInv, Grows, RunInv', NEW h \in Handlers,
         LookupStep, UNCHANGED clientVars
  PROVE  AnswerInv(h)'
<1>1. PICK last \in BOOLEAN :
        /\ last <=> (cursor = MaxSeq \/ cursor + 1 > lookup_end)
        /\ server_pc = "lookup"
        /\ found' = IF cursor \in DOMAIN packets THEN Append(found, packets[cursor]) ELSE found
        /\ server_pc' = IF last THEN "count" ELSE "lookup"
        /\ cursor' = IF last THEN 0 ELSE cursor + 1
        /\ lookup_end' = IF last THEN 0 ELSE lookup_end
        /\ UNCHANGED <<packets, serving, conn, request, reply>>
        /\ UNCHANGED <<client_pc, ask, known, answer>>
  BY DEF LookupStep, LookupTurn, socketVars, clientVars
<1>2. known'[h] \in 0 .. StoredCount'
  BY <1>1, SnapshotStays
<1>3. CASE h # serving
  <2>1. ~Busy(h) /\ ~Busy(h)'
    BY <1>1, <1>3 DEF Busy
  <2> QED  BY <1>1, <1>3, <2>1, Undisturbed
<1>4. CASE h = serving /\ client_pc[h] = "failed"
  BY <1>1, <1>2, <1>4 DEF AnswerInv
<1>5. CASE h = serving /\ client_pc[h] # "failed"
  <2>1. client_pc[h] = "asking" /\ request[h] = NoRequest /\ LookedUp(h)
    BY <1>1, <1>5, AtWork DEF Busy
  <2>2. PICK s \in Nat, e \in Nat :
          s = ask[h].start_seq /\ e = ask[h].end_seq /\ s <= e /\ e <= MaxSeq
    <3>1. ask[h] \in Ranges /\ ask[h].start_seq <= ask[h].end_seq
      BY <2>1 DEF SnapshotInv, EntriesInv, AnswerInv
    <3> QED  BY <3>1, MaxSeqAssumption DEF Ranges, SeqNums
  <2>3. PICK c \in Nat : c = cursor /\ s <= c /\ c <= e
    BY <2>1, <2>2 DEF LookedUp
  <2>4. PICK n \in Nat : /\ n = StoredCount /\ DOMAIN packets = 1 .. n
                         /\ \A i \in 1 .. n : packets[i] \in Packet
    BY RunFacts DEF SnapshotInv
  <2>5. found' = Stored(s, c, n)
    <3>1. found = Stored(s, c - 1, n)
      BY <2>1, <2>2, <2>3, <2>4 DEF LookedUp
    <3>2. Stored(s, c, n) = IF c \in 1 .. n THEN Append(Stored(s, c - 1, n), packets[c])
                            ELSE Stored(s, c - 1, n)
      <4>1. s <= c /\ \A i \in 1 .. n : packets[i] \in Packet
        BY <2>3, <2>4
      <4> QED  BY <4>1, StoredNext
    <3> QED  BY <1>1, <2>3, <2>4, <3>1, <3>2
  <2>6. StoredCount' = n /\ \A a, b, m : Stored(a, b, m)' = Stored(a, b, m)
    BY <1>1, <2>4 DEF StoredCount, Stored
  <2>7. lookup_end = e
    BY <2>1, <2>2 DEF LookedUp
  <2>8. last <=> c = e
    BY <1>1, <2>2, <2>3, <2>7, MaxSeqAssumption
  <2>9. reply[h] = NoReply
    BY <2>1 DEF LookedUp
  <2>10. CASE last
    <3>1. AllFound(h)'
      <4>1. known'[h] <= n /\ known'[h] \in Nat
        BY <1>2, <2>6
      <4>2. n \in known'[h] .. StoredCount'
        BY <2>6, <4>1
      <4>3. found' = Stored(s, e, n)'
        BY <2>5, <2>6, <2>8, <2>10
      <4>4. IsSnapshot(h, found)'
        BY <1>1, <2>2, <4>2, <4>3 DEF IsSnapshot
      <4> QED  BY <1>1, <2>9, <2>10, <4>4 DEF AllFound
    <3>2. Answering(h)'
      BY <1>1, <1>5, <2>1, <3>1 DEF Answering
    <3> QED  BY <1>1, <1>2, <2>1, <2>2, <3>2 DEF AnswerInv, SnapshotInv
  <2>11. CASE ~last
    <3>1. c + 1 \in s .. e /\ (c + 1) - 1 = c /\ cursor' = c + 1
      BY <1>1, <2>2, <2>3, <2>8, <2>11
    <3>2. LookedUp(h)'
      BY <1>1, <2>2, <2>5, <2>6, <2>7, <2>9, <2>11, <3>1 DEF LookedUp
    <3>3. Answering(h)'
      BY <1>1, <1>5, <2>1, <3>2 DEF Answering
    <3> QED  BY <1>1, <1>2, <2>1, <2>2, <3>3 DEF AnswerInv, SnapshotInv
  <2> QED  BY <2>10, <2>11
<1> QED  BY <1>3, <1>4, <1>5

\* The number of packets goes out before the packets.
LEMMA CountKeeps ==
  ASSUME RequestsInv, SnapshotInv, Grows, RunInv', NEW h \in Handlers,
         SendCount, UNCHANGED clientVars
  PROVE  AnswerInv(h)'
<1>1. /\ server_pc = "count"
      /\ reply' = [reply EXCEPT ![serving] = [packet_count |-> Len(found), frames |-> <<>>]]
      /\ server_pc' = IF found = <<>> THEN "check" ELSE "frames"
      /\ UNCHANGED <<packets, serving, found, conn, request>>
      /\ UNCHANGED <<client_pc, ask, known, answer>>
  BY DEF SendCount, clientVars
<1>2. /\ known'[h] \in 0 .. StoredCount'
      /\ \A seq : IsSnapshot(h, seq) => IsSnapshot(h, seq)'
  BY <1>1, SnapshotStays
<1>3. reply = [g \in Handlers |-> reply[g]]
  BY DEF SnapshotInv, EntriesInv
<1>4. CASE h # serving
  <2>1. ~Busy(h) /\ ~Busy(h)'
    BY <1>1, <1>4 DEF Busy
  <2>2. reply'[h] = reply[h]
    BY <1>1, <1>3, <1>4
  <2> QED  BY <1>1, <2>1, <2>2, Undisturbed
<1>5. CASE h = serving /\ client_pc[h] = "failed"
  BY <1>1, <1>2, <1>5 DEF AnswerInv
<1>6. CASE h = serving /\ client_pc[h] # "failed"
  <2>1. client_pc[h] = "asking" /\ request[h] = NoRequest /\ AllFound(h)
    BY <1>1, <1>6, AtWork DEF Busy
  <2>2. ask[h].start_seq <= ask[h].end_seq /\ conn[h] \notin {"none", "client_closed"}
    BY <2>1 DEF SnapshotInv, AnswerInv
  <2>3. reply'[h] = [packet_count |-> Len(found), frames |-> <<>>]
    BY <1>1, <1>3, <1>6
  <2>4. found \in Seq(Packet)
    BY DEF RequestsInv, LookupInv
  <2>5. IsSnapshot(h, found)
    BY <2>1 DEF AllFound
  <2>6. CASE found = <<>>
    <3>1. IsSnapshot(h, reply[h].frames)'
      <4>1. reply'[h].frames = found
        BY <2>3, <2>6
      <4>2. \A seq : seq = found => IsSnapshot(h, seq)'
        BY <1>2, <2>5
      <4> QED  BY <4>1, <4>2 DEF IsSnapshot
    <3>2. ~Busy(h)'
      BY <1>1, <2>6 DEF Busy
    <3>3. Sent(h)'
      BY <1>1, <2>1, <2>3, <2>6, <3>1, <3>2 DEF Sent
    <3> QED  BY <1>1, <1>2, <2>1, <2>2, <3>3 DEF AnswerInv, Answering
  <2>7. CASE found # <<>>
    <3>1. <<>> \in Seq(Packet) /\ Len(<<>>) = 0 /\ Len(found) \in Nat /\ <<>> \o found = found
      BY <2>4, EmptySeq, ConcatEmptySeq
    <3>2. IsSnapshot(h, <<>> \o found)'
      BY <1>1, <1>2, <2>5, <3>1 DEF IsSnapshot
    <3>3. reply'[h] = [packet_count |-> Len(<<>>) + Len(found'), frames |-> <<>>]
      BY <1>1, <2>3, <3>1
    <3>4. PartlySent(h)'
      BY <1>1, <2>7, <3>1, <3>2, <3>3 DEF PartlySent
    <3> QED  BY <1>1, <1>2, <1>6, <2>1, <2>2, <3>4 DEF AnswerInv, Answering
  <2> QED  BY <2>6, <2>7
<1> QED  BY <1>4, <1>5, <1>6

\* A frame sent moves from the packets left to the frames that have gone.
LEMMA FrameMoves ==
  ASSUME NEW sent \in Seq(Packet), NEW left \in Seq(Packet), left # <<>>
  PROVE  /\ Append(sent, Head(left)) \in Seq(Packet)
         /\ Tail(left) \in Seq(Packet)
         /\ Append(sent, Head(left)) \o Tail(left) = sent \o left
         /\ Len(Append(sent, Head(left))) + Len(Tail(left)) = Len(sent) + Len(left)
<1>1. /\ Head(left) \in Packet /\ Tail(left) \in Seq(Packet)
      /\ Len(Tail(left)) = Len(left) - 1
      /\ \A i \in 1 .. Len(Tail(left)) : Tail(left)[i] = left[i + 1]
  BY HeadTailProperties
<1>2. PICK m \in Nat, n \in Nat : m = Len(sent) /\ n = Len(left) /\ n >= 1 /\ Head(left) = left[1]
  <2>1. Len(left) \in Nat \ {0} /\ Len(sent) \in Nat
    BY EmptySeq
  <2> QED  BY <2>1
<1>3. PICK more : more = Append(sent, Head(left))
  OBVIOUS
<1>4. /\ more \in Seq(Packet) /\ Len(more) = m + 1 /\ more[m + 1] = left[1]
      /\ \A i \in 1 .. m : more[i] = sent[i]
  BY <1>1, <1>2, <1>3, AppendProperties
<1>5. PICK rest : rest = Tail(left)
  OBVIOUS
<1>6. /\ rest \in Seq(Packet) /\ Len(rest) = n - 1
      /\ \A i \in 1 .. n - 1 : rest[i] = left[i + 1]
  BY <1>1, <1>2, <1>5
<1>7. /\ more \o rest \in Seq(Packet) /\ Len(more \o rest) = m + n
      /\ \A i \in 1 .. m + n : (more \o rest)[i] = IF i <= m + 1 THEN more[i] ELSE rest[i - (m + 1)]
  <2>1. /\ more \o rest \in Seq(Packet) /\ Len(more \o rest) = Len(more) + Len(rest)
        /\ \A i \in 1 .. Len(more) + Len(rest) :
             (more \o rest)[i] = IF i <= Len(more) THEN more[i] ELSE rest[i - Len(more)]
    BY <1>4, <1>6, ConcatProperties
  <2>2. Len(more) = m + 1 /\ Len(more) + Len(rest) = m + n
    BY <1>4, <1>6
  <2> QED  BY <2>1, <2>2
<1>8. /\ sent \o left \in Seq(Packet) /\ Len(sent \o left) = m + n
      /\ \A i \in 1 .. m + n : (sent \o left)[i] = IF i <= m THEN sent[i] ELSE left[i - m]
  BY <1>2, ConcatProperties
<1>9. ASSUME NEW i \in 1 .. m + n  PROVE (more \o rest)[i] = (sent \o left)[i]
  <2>1. CASE i <= m
    BY <1>4, <1>7, <1>8, <2>1
  <2>2. CASE i = m + 1
    <3>1. i - m = 1
      BY <2>2
    <3> QED  BY <1>4, <1>7, <1>8, <2>2, <3>1
  <2>3. CASE i > m + 1
    <3>1. PICK j \in 1 .. n - 1 : j = i - (m + 1) /\ i - m = j + 1
      BY <2>3
    <3>2. ~(i <= m) /\ ~(i <= m + 1)
      BY <2>3
    <3>3. (more \o rest)[i] = rest[i - (m + 1)] /\ (sent \o left)[i] = left[i - m]
      BY <1>7, <1>8, <3>2, Zenon
    <3>4. (more \o rest)[i] = rest[j] /\ (sent \o left)[i] = left[j + 1]
      BY <3>1, <3>3, Zenon
    <3> QED  BY <1>6, <3>4, Zenon
  <2>4. i <= m \/ i = m + 1 \/ i > m + 1
    OBVIOUS
  <2> QED  BY <2>1, <2>2, <2>3, <2>4, Zenon
<1>10. more \o rest = sent \o left
  BY <1>7, <1>8, <1>9, SeqEqual
<1>11. Len(more) + Len(rest) = m + n
  BY <1>4, <1>6
<1> QED  BY <1>2, <1>3, <1>4, <1>5, <1>6, <1>10, <1>11

\* The frames go out in order, the last one ending the reply.
LEMMA FrameKeeps ==
  ASSUME RequestsInv, SnapshotInv, Grows, RunInv', NEW h \in Handlers,
         SendFrame, UNCHANGED clientVars
  PROVE  AnswerInv(h)'
<1>1. /\ server_pc = "frames"
      /\ reply' = [reply EXCEPT ![serving].frames = Append(@, Head(found))]
      /\ found' = Tail(found)
      /\ server_pc' = IF Len(found) = 1 THEN "check" ELSE "frames"
      /\ UNCHANGED <<packets, serving, conn, request>>
      /\ UNCHANGED <<client_pc, ask, known, answer>>
  BY DEF SendFrame, clientVars
<1>2. /\ known'[h] \in 0 .. StoredCount'
      /\ \A seq : IsSnapshot(h, seq) => IsSnapshot(h, seq)'
  BY <1>1, SnapshotStays
<1>3. reply = [g \in Handlers |-> reply[g]]
  BY DEF SnapshotInv, EntriesInv
<1>4. CASE h # serving
  <2>1. ~Busy(h) /\ ~Busy(h)'
    BY <1>1, <1>4 DEF Busy
  <2>2. reply'[h] = reply[h]
    BY <1>1, <1>3, <1>4
  <2> QED  BY <1>1, <2>1, <2>2, Undisturbed
<1>5. CASE h = serving /\ client_pc[h] = "failed"
  BY <1>1, <1>2, <1>5 DEF AnswerInv
<1>6. CASE h = serving /\ client_pc[h] # "failed"
  <2>1. client_pc[h] = "asking" /\ request[h] = NoRequest /\ PartlySent(h)
    BY <1>1, <1>6, AtWork DEF Busy
  <2>2. ask[h].start_seq <= ask[h].end_seq /\ conn[h] \notin {"none", "client_closed"}
    BY <2>1 DEF SnapshotInv, AnswerInv
  <2>3. found \in Seq(Packet) /\ found # <<>>
    BY <1>1 DEF RequestsInv, LookupInv
  <2>4. PICK sent \in Seq(Packet) :
          /\ reply[h] = [packet_count |-> Len(sent) + Len(found), frames |-> sent]
          /\ IsSnapshot(h, sent \o found)
    BY <2>1 DEF PartlySent
  <2>5. PICK more \in Seq(Packet) :
          /\ more = Append(sent, Head(found))
          /\ found' \in Seq(Packet)
          /\ more \o found' = sent \o found
          /\ Len(more) + Len(found') = Len(sent) + Len(found)
    BY <1>1, <2>3, FrameMoves
  <2>6. reply'[h] = [packet_count |-> Len(more) + Len(found'), frames |-> more]
    <3>1. reply'[h] = [reply[h] EXCEPT !.frames = Append(@, Head(found))]
      BY <1>1, <1>3, <1>6
    <3>2. reply[h].frames = sent
      BY <2>4
    <3>3. reply'[h] = [reply[h] EXCEPT !.frames = more]
      BY <2>5, <3>1, <3>2
    <3>4. reply'[h] = [packet_count |-> Len(sent) + Len(found), frames |-> more]
      BY <2>4, <3>3
    <3> QED  BY <2>5, <3>4
  <2>7. IsSnapshot(h, more \o found)'
    <3>1. \A seq : seq = sent \o found => IsSnapshot(h, seq)'
      BY <1>2, <2>4
    <3> QED  BY <2>5, <3>1 DEF IsSnapshot
  <2>8. CASE Len(found) = 1
    <3>1. Len(more) \in Nat /\ found' = <<>> /\ Len(found') = 0
      <4>1. Len(Tail(found)) = 0 /\ Tail(found) \in Seq(Packet)
        BY <2>3, <2>8, HeadTailProperties
      <4>2. Tail(found) = <<>>
        BY <4>1, EmptySeq
      <4> QED  BY <1>1, <2>5, <4>1, <4>2
    <3>2. more \o found' = more
      BY <3>1, ConcatEmptySeq
    <3>3. IsSnapshot(h, reply[h].frames)'
      <4>1. reply'[h].frames = more \o found'
        BY <2>6, <3>2
      <4> QED  BY <2>7, <4>1 DEF IsSnapshot
    <3>4. ~Busy(h)'
      BY <1>1, <2>8 DEF Busy
    <3>5. Sent(h)'
      <4>1. reply'[h].packet_count = Len(reply'[h].frames)
        BY <2>6, <3>1
      <4> QED  BY <1>1, <2>1, <3>3, <3>4, <4>1 DEF Sent
    <3> QED  BY <1>1, <1>2, <2>1, <2>2, <3>5 DEF AnswerInv, Answering
  <2>9. CASE Len(found) # 1
    <3>1. PartlySent(h)'
      BY <1>1, <2>6, <2>7, <2>9 DEF PartlySent
    <3> QED  BY <1>1, <1>2, <1>6, <2>1, <2>2, <3>1 DEF AnswerInv, Answering
  <2> QED  BY <2>8, <2>9
<1> QED  BY <1>4, <1>5, <1>6

\* Between requests, and when it closes a connection, the server leaves the
\* answers alone.
LEMMA OtherServerKeeps ==
  ASSUME RequestsInv, SnapshotInv, Grows, RunInv', NEW h \in Handlers,
         \/ CheckStop \/ PollTimeout \/ Accept \/ CheckServe
         \/ CheckServeStopped \/ RecvEof \/ SendFails,
         UNCHANGED clientVars
  PROVE  AnswerInv(h)'
<1>1. UNCHANGED <<client_pc, ask, known, answer, request, reply>>
  BY DEF CheckStop, PollTimeout, Accept, CheckServe, CheckServeStopped, RecvEof, SendFails,
         CloseClient, socketVars, clientVars
<1>2. server_pc' \in {"loop", "poll", "check", "recv", "exited"}
  BY DEF CheckStop, PollTimeout, Accept, CheckServe, CheckServeStopped, RecvEof, SendFails,
         CloseClient
<1>3. ~Busy(h)'
  BY <1>2 DEF Busy
<1>4. CASE Busy(h)
  <2>1. SendFails /\ serving = h
    BY <1>4 DEF CheckStop, PollTimeout, Accept, CheckServe, CheckServeStopped, RecvEof, Busy
  <2>2. client_pc[h] = "failed"
    <3>1. conn[h] = "client_closed"
      BY <2>1 DEF SendFails
    <3> QED  BY <3>1 DEF SnapshotInv, AnswerInv
  <2>3. known'[h] \in 0 .. StoredCount'
    BY <1>1, SnapshotStays
  <2> QED  BY <1>1, <2>2, <2>3 DEF AnswerInv
<1>5. CASE ~Busy(h)
  <2>1. conn'[h] = conn[h] \/ (conn[h] = "up" /\ conn'[h] = "server_closed")
    BY DEF CheckStop, PollTimeout, Accept, CheckServe, CheckServeStopped, RecvEof, SendFails,
           CloseClient, socketVars, SnapshotInv, ConnectionsInv
  <2> QED  BY <1>1, <1>3, <1>5, <2>1, Undisturbed
<1> QED  BY <1>4, <1>5

-----------------------------------------------------------------------------
(* The clients' steps.                                                     *)

\* Another client's step.
LEMMA OthersKeep ==
  ASSUME RequestsInv, SnapshotInv, Grows, RunInv', NEW h \in Handlers, NEW g \in Handlers, h # g,
         \/ RequestNothing(g) \/ Request(g) \/ RequestThrows(g)
         \/ RequestReturns(g) \/ NextRequest(g) \/ ClientLeaves(g)
  PROVE  AnswerInv(h)'
<1>1. /\ client_pc = [k \in Handlers |-> client_pc[k]] /\ ask \in [Handlers -> Ranges]
      /\ known = [k \in Handlers |-> known[k]] /\ answer = [k \in Handlers |-> answer[k]]
      /\ reply = [k \in Handlers |-> reply[k]] /\ request \in [Handlers -> Ranges]
      /\ conn \in [Handlers -> ConnStates]
  BY DEF SnapshotInv, EntriesInv, ConnectionsInv, RequestsInv, ClientsInv
<1>2. UNCHANGED <<server_pc, serving, found, cursor, lookup_end>>
  BY DEF RequestNothing, Request, RequestThrows, RequestReturns, NextRequest, ClientLeaves,
         SendRequest, TakeReply, close_connection, recoveryVars, lookupVars
<1>3. UNCHANGED <<client_pc[h], ask[h], known[h], answer[h]>>
  <2>1. /\ \E v : client_pc' = [client_pc EXCEPT ![g] = v]
        /\ ask' = ask \/ \E v : ask' = [ask EXCEPT ![g] = v]
        /\ known' = known \/ \E v : known' = [known EXCEPT ![g] = v]
        /\ answer' = answer \/ \E v : answer' = [answer EXCEPT ![g] = v]
    BY Zenon DEF RequestNothing, Request, RequestThrows, RequestReturns, NextRequest, ClientLeaves
  <2> QED  BY <1>1, <2>1
<1>4. UNCHANGED <<request[h], reply[h], conn[h]>>
  BY <1>1 DEF RequestNothing, Request, RequestThrows, RequestReturns, NextRequest, ClientLeaves,
         SendRequest, TakeReply, close_connection, recoveryVars, socketVars
<1>5. Busy(h)' <=> Busy(h)
  BY <1>2 DEF Busy
<1> QED  BY <1>2, <1>3, <1>4, <1>5, Undisturbed

\* The client's own step.
LEMMA OwnStepKeeps ==
  ASSUME RequestsInv, SnapshotInv, Grows, RunInv', NEW h \in Handlers,
         \/ RequestNothing(h) \/ Request(h) \/ RequestThrows(h)
         \/ RequestReturns(h) \/ NextRequest(h) \/ ClientLeaves(h)
  PROVE  AnswerInv(h)'
<1>1. /\ client_pc = [k \in Handlers |-> client_pc[k]] /\ ask \in [Handlers -> Ranges]
      /\ known = [k \in Handlers |-> known[k]] /\ answer = [k \in Handlers |-> answer[k]]
      /\ reply = [k \in Handlers |-> reply[k]] /\ request \in [Handlers -> Ranges]
      /\ conn \in [Handlers -> ConnStates]
  BY DEF SnapshotInv, EntriesInv, ConnectionsInv, RequestsInv, ClientsInv
<1>2. UNCHANGED <<packets, server_pc, serving, found, cursor, lookup_end>>
  BY DEF RequestNothing, Request, RequestThrows, RequestReturns, NextRequest, ClientLeaves,
         SendRequest, TakeReply, close_connection, recoveryVars, lookupVars
<1>3. (Busy(h)' <=> Busy(h)) /\ StoredCount' = StoredCount
      /\ \A s, e, n : Stored(s, e, n)' = Stored(s, e, n)
  BY <1>2 DEF Busy, StoredCount, Stored
<1>4. PICK n \in Nat : n = StoredCount
  BY RunFacts DEF SnapshotInv
<1>5. AnswerInv(h) /\ known[h] \in 0 .. n
  BY <1>4 DEF SnapshotInv, AnswerInv
<1>6. CASE RequestNothing(h)
  <2>1. PICK s \in SeqNums, e \in SeqNums :
          s > e /\ ask' = [ask EXCEPT ![h] = [start_seq |-> s, end_seq |-> e]]
    BY <1>6 DEF RequestNothing
  <2>2. /\ client_pc[h] = "idle" /\ client_pc'[h] = "answered" /\ answer'[h] = <<>>
        /\ UNCHANGED <<known, request, reply, conn>>
    BY <1>1, <1>6 DEF RequestNothing, recoveryVars, socketVars
  <2>3. ask'[h].start_seq = s /\ ask'[h].end_seq = e
    BY <1>1, <2>1
  <2>4. Stored(s, e, n) = <<>>
    <3>1. s \in Nat /\ e \in Int /\ e < s
      BY <2>1 DEF SeqNums
    <3> QED  BY <3>1, StoredNothing
  <2>5. IsSnapshot(h, answer[h])'
    <3>1. n \in known'[h] .. StoredCount'
      BY <1>3, <1>4, <1>5, <2>2
    <3>2. answer'[h] = Stored(s, e, n)'
      BY <1>3, <2>2, <2>4
    <3> QED  BY <2>3, <3>1, <3>2 DEF IsSnapshot
  <2> QED  BY <1>3, <1>4, <1>5, <2>2, <2>5 DEF AnswerInv
<1>7. CASE Request(h)
  <2>1. PICK s \in SeqNums, e \in SeqNums :
          /\ s <= e /\ SendRequest(h, s, e)
          /\ ask' = [ask EXCEPT ![h] = [start_seq |-> s, end_seq |-> e]]
    BY <1>7 DEF Request
  <2>2. /\ client_pc[h] = "idle" /\ client_pc'[h] = "asking" /\ known'[h] = StoredCount
        /\ request'[h] = [start_seq |-> s, end_seq |-> e] /\ reply'[h] = NoReply
        /\ conn'[h] = "up"
    BY <1>1, <1>5, <1>7, <2>1 DEF AnswerInv, Request, SendRequest, StoredCount
  <2>3. ask'[h] = [start_seq |-> s, end_seq |-> e]
    BY <1>1, <2>1
  <2>4. InSocket(h)'
    BY <1>3, <1>5, <2>2, <2>3 DEF AnswerInv, InSocket
  <2> QED  BY <1>3, <1>4, <2>1, <2>2, <2>3, <2>4 DEF AnswerInv, Answering
<1>8. CASE RequestThrows(h) \/ ClientLeaves(h)
  <2>1. client_pc'[h] = "failed" /\ known' = known
    BY <1>1, <1>8 DEF RequestThrows, ClientLeaves
  <2> QED  BY <1>3, <1>5, <2>1, <1>4 DEF AnswerInv
<1>9. CASE RequestReturns(h)
  <2>1. /\ client_pc[h] = "asking" /\ ReplyComplete(h)
        /\ client_pc'[h] = "answered" /\ answer'[h] = reply[h].frames /\ reply'[h] = NoReply
        /\ UNCHANGED <<ask, known, request, conn>>
    BY <1>1, <1>9 DEF RequestReturns, TakeReply
  <2>2. Sent(h)
    <3>1. ~InSocket(h) /\ ~LookedUp(h) /\ ~AllFound(h)
      BY <2>1 DEF InSocket, LookedUp, AllFound, ReplyComplete
    <3>2. ~PartlySent(h)
      <4> SUFFICES ASSUME PartlySent(h)  PROVE FALSE
        OBVIOUS
      <4>1. PICK frames \in Seq(Packet) :
              reply[h] = [packet_count |-> Len(frames) + Len(found), frames |-> frames]
        BY DEF PartlySent
      <4>2. found \in Seq(Packet) /\ found # <<>>
        BY DEF PartlySent, RequestsInv, LookupInv
      <4>3. Len(found) \in Nat \ {0} /\ Len(frames) \in Nat
        BY <4>2, EmptySeq
      <4> QED  BY <2>1, <4>1, <4>3 DEF ReplyComplete
    <3> QED  BY <1>5, <2>1, <3>1, <3>2 DEF AnswerInv, Answering
  <2>3. IsSnapshot(h, answer[h])'
    <3>1. PICK l \in known[h] .. StoredCount :
            reply[h].frames = Stored(ask[h].start_seq, ask[h].end_seq, l)
      BY <2>2 DEF Sent, IsSnapshot
    <3> QED  BY <1>3, <2>1, <3>1 DEF IsSnapshot
  <2> QED  BY <1>3, <1>4, <1>5, <2>1, <2>2, <2>3 DEF AnswerInv, Sent
<1>10. CASE NextRequest(h)
  <2>1. /\ client_pc[h] = "answered" /\ client_pc'[h] = "idle" /\ known'[h] = 0
        /\ UNCHANGED <<request, reply, conn>>
    BY <1>1, <1>10 DEF NextRequest, recoveryVars, socketVars
  <2> QED  BY <1>3, <1>4, <1>5, <2>1 DEF AnswerInv
<1> QED  BY <1>6, <1>7, <1>8, <1>9, <1>10

-----------------------------------------------------------------------------

\* No step spoils an answer.
LEMMA AnswersKeep ==
  ASSUME RequestsInv, SnapshotInv, Grows, RunInv', [RequestsNext]_requestVars, NEW h \in Handlers
  PROVE  AnswerInv(h)'
<1>1. CASE \/ Stamp \/ Store \/ SendStamped \/ UNCHANGED requestVars
           \/ GraceOver /\ UNCHANGED clientVars
  <2>1. /\ UNCHANGED <<client_pc, ask, known, answer, request, reply, conn>>
        /\ UNCHANGED <<server_pc, serving, found, cursor, lookup_end>>
    BY <1>1 DEF Stamp, Store, StorePacket, SendStamped, SendPacket, GraceOver, requestVars,
                recoveryVars, lookupVars, socketVars, clientVars
  <2>2. Busy(h)' <=> Busy(h)
    BY <2>1 DEF Busy
  <2> QED  BY <2>1, <2>2, Undisturbed
<1>2. CASE (JoinReturns \/ ExchangeKilled) /\ UNCHANGED clientVars
  BY <1>2, ServerGoneKeeps DEF JoinReturns, ExchangeKilled
<1>3. CASE ServerStep
  <2>1. Server /\ UNCHANGED clientVars
    BY <1>3 DEF ServerStep, ServerThread
  <2> QED  BY <2>1, OtherServerKeeps, RecvKeeps, LookupStepKeeps, CountKeeps, FrameKeeps DEF Server
<1>4. CASE ClientStep
  <2>1. PICK g \in Handlers : \/ RequestNothing(g) \/ Request(g) \/ RequestThrows(g)
                              \/ RequestReturns(g) \/ NextRequest(g) \/ ClientLeaves(g)
    BY <1>4 DEF ClientStep
  <2>2. CASE g = h
    BY <2>1, <2>2, OwnStepKeeps
  <2>3. CASE g # h
    BY <2>1, <2>3, OthersKeep
  <2> QED  BY <2>2, <2>3
<1>5. Exit => (GraceOver \/ JoinReturns \/ ExchangeKilled) /\ UNCHANGED clientVars
  BY DEF Exit, clientVars
<1> QED  BY <1>1, <1>2, <1>3, <1>4, <1>5, Zenon DEF RequestsNext

\* request_packets never returns a mixture of two histories, or a packet twice,
\* however the exchange, the server thread and any number of clients interleave.
THEOREM AnswersAreSnapshots == RequestsSpec => []AnswerIsSnapshot
<1>1. RequestsInit => RequestsInv /\ SnapshotInv
  BY RequestsInitInv, SnapshotInitInv
<1>2. RequestsInv /\ SnapshotInv /\ [RequestsNext]_requestVars => RequestsInv' /\ SnapshotInv'
  <2> SUFFICES ASSUME RequestsInv, SnapshotInv, [RequestsNext]_requestVars
               PROVE  RequestsInv' /\ SnapshotInv'
    OBVIOUS
  <2>1. RequestsInv'
    BY PublisherKeeps, ClientsKeep, LookupKeeps DEF RequestsInv
  <2>2. RunInv' /\ Grows /\ EntriesInv' /\ ConnectionsInv'
    BY RunKeeps, EntriesKeep, ConnectionsKeep DEF SnapshotInv
  <2>3. \A h \in Handlers : AnswerInv(h)'
    BY <2>2, AnswersKeep
  <2> QED  BY <2>1, <2>2, <2>3 DEF SnapshotInv
<1>3. SnapshotInv => AnswerIsSnapshot
  BY DEF SnapshotInv, AnswerInv, IsSnapshot, StoredCount, AnswerIsSnapshot
<1> QED  BY <1>1, <1>2, <1>3, PTL DEF RequestsSpec
=============================================================================
