------------------------- MODULE FeedHandlerProofs -------------------------
(***************************************************************************)
(* Proofs about what a handler does between two visits to the socket: the  *)
(* one parked packet is the one that revealed the gap, the replay ends     *)
(* just below it, and the summary adds up.                                 *)
(***************************************************************************)
EXTENDS FeedSystemProofs, FiniteSetTheorems

parked(h) == DOMAIN buffered_packets[h]

\* How far the handler is from the packet s it parked.
GapAt(h, s) ==
  /\ handler_pc[h] = "request" => expected_packet_seq[h] < s
  /\ handler_pc[h] = "replay" => expected_packet_seq[h] + Len(replay_batch[h]) = s
  /\ handler_pc[h] = "drain" => limit_reached(h) \/ expected_packet_seq[h] = s

ParkInv(h) ==
  /\ parked(h) = {} \/ \E s \in Nat : parked(h) = {s} /\ GapAt(h, s)
  /\ handler_pc[h] = "recv" => parked(h) = {}
  /\ handler_pc[h] \in {"request", "replay"} => parked(h) # {}

\* The counters at every step: a replay that has been asked for and not begun
\* is one that is not in them yet.
SummaryInv(h) ==
  /\ counts[h] \in Counts
  /\ counts[h].live + counts[h].replay + counts[h].drain = expected_packet_seq[h] - 1
  /\ counts[h].requests = counts[h].out_of_order
  /\ counts[h].drain + Cardinality(parked(h)) = counts[h].out_of_order
  /\ limit[h] # 0 => Len(applied[h]) <= limit[h]
  /\ handler_pc[h] \in {"recv", "drain", "done"} => counts[h].requests <= counts[h].replay
  /\ handler_pc[h] \in {"request", "replay"} => counts[h].requests <= counts[h].replay + 1
  /\ handler_pc[h] = "request" => ~limit_reached(h)
  /\ handler_pc[h] = "replay" =>
       \/ counts[h].requests <= counts[h].replay
       \/ ~limit_reached(h) /\ replay_batch[h] # <<>>
  /\ handler_pc[h] = "done" => limit_reached(h)

LocalInv ==
  /\ counts = [h \in Handlers |-> counts[h]]
  /\ handler_pc \in [Handlers -> HandlerPcs]
  /\ \A h \in Handlers : ParkInv(h) /\ SummaryInv(h)

-----------------------------------------------------------------------------
(* Steps that leave a handler alone.                                       *)

\* A step of handler h alone, its counters included.
OnlyLocal(h) == OnlyHandler(h) /\ counts' = [counts EXCEPT ![h] = counts'[h]]

\* The others' part of the invariant is kept, and so only its own is to show.
LEMMA OneLocal ==
  ASSUME HandlersInv, LocalInv, NEW h \in Handlers, OnlyLocal(h),
         handler_pc'[h] \in HandlerPcs, ParkInv(h)', SummaryInv(h)'
  PROVE  LocalInv'
<1>1. ASSUME NEW g \in Handlers, g # h  PROVE ParkInv(g)' /\ SummaryInv(g)'
  <2>1. /\ limit'[g] = limit[g] /\ applied'[g] = applied[g] /\ handler_pc'[g] = handler_pc[g]
        /\ expected_packet_seq'[g] = expected_packet_seq[g]
        /\ replay_batch'[g] = replay_batch[g] /\ buffered_packets'[g] = buffered_packets[g]
        /\ counts'[g] = counts[g]
    BY <1>1 DEF OnlyLocal, OnlyHandler, HandlersInv, LocalInv
  <2>2. limit_reached(g)' <=> limit_reached(g)
    BY <2>1 DEF limit_reached, received_messages
  <2>3. parked(g)' = parked(g)
    BY <2>1 DEF parked
  <2>4. ParkInv(g)'
    BY <2>1, <2>2, <2>3 DEF LocalInv, ParkInv, GapAt
  <2>5. SummaryInv(g)'
    BY <2>1, <2>2, <2>3 DEF LocalInv, SummaryInv
  <2> QED  BY <2>4, <2>5
<1>2. counts' = [g \in Handlers |-> counts'[g]] /\ handler_pc' \in [Handlers -> HandlerPcs]
  BY DEF OnlyLocal, OnlyHandler, LocalInv
<1> QED  BY <1>1, <1>2 DEF LocalInv

\* And a step of no handler keeps all of it.
LEMMA LocalKept ==
  ASSUME LocalInv, UNCHANGED handlerVars
  PROVE  LocalInv'
<1>1. ASSUME NEW h \in Handlers  PROVE ParkInv(h)' /\ SummaryInv(h)'
  <2>1. /\ limit' = limit /\ applied' = applied /\ handler_pc' = handler_pc
        /\ expected_packet_seq' = expected_packet_seq
        /\ replay_batch' = replay_batch /\ buffered_packets' = buffered_packets
        /\ counts' = counts
    BY DEF handlerVars
  <2>2. limit_reached(h)' <=> limit_reached(h)
    BY <2>1 DEF limit_reached, received_messages
  <2>3. parked(h)' = parked(h)
    BY <2>1 DEF parked
  <2> QED  BY <2>1, <2>2, <2>3 DEF LocalInv, ParkInv, GapAt, SummaryInv
<1> QED  BY <1>1 DEF LocalInv, handlerVars

\* No packet is parked and nothing counted at the start.
LEMMA LocalInit == Init => LocalInv
<1> SUFFICES ASSUME Init  PROVE LocalInv
  OBVIOUS
<1>1. ASSUME NEW h \in Handlers  PROVE ParkInv(h) /\ SummaryInv(h)
  <2>1. /\ handler_pc[h] = "recv" /\ applied[h] = <<>> /\ expected_packet_seq[h] = 1
        /\ buffered_packets[h] = NoPackets /\ limit[h] \in Nat
        /\ counts[h] = [live |-> 0, replay |-> 0, drain |-> 0, requests |-> 0,
                        out_of_order |-> 0]
    BY LimitsAssumption DEF Init, HandlerInit
  <2>2. parked(h) = {} /\ Cardinality(parked(h)) = 0
    BY <2>1, FS_EmptySet DEF parked, NoPackets
  <2>3. Len(applied[h]) = 0
    BY <2>1
  <2> QED  BY <2>1, <2>2, <2>3 DEF ParkInv, SummaryInv, Counts
<1>2. counts = [h \in Handlers |-> counts[h]] /\ handler_pc \in [Handlers -> HandlerPcs]
  BY DEF Init, HandlerInit, HandlerPcs
<1> QED  BY <1>1, <1>2 DEF LocalInv

-----------------------------------------------------------------------------
(* Processing a packet.                                                    *)

\* What process_packet_bytes changes of the numbers the summary is about.
LEMMA ProcessCounts ==
  ASSUME NoWrap, HistoryInv, HandlersInv, LocalInv, NEW h \in Handlers,
         NEW packet, Genuine(packets, packet), packet.seq_num = expected_packet_seq[h],
         ~limit_reached(h),
         NEW source \in {"live", "replay", "drain"}, ProcessPacket(h, packet, source),
         UNCHANGED <<exchangeVars, packets, limit>>, handler_pc'[h] # "recv"
  PROVE  /\ counts' = [counts EXCEPT ![h] = counts'[h]]
         /\ counts'[h] \in Counts
         /\ counts'[h].requests = counts[h].requests
         /\ counts'[h].out_of_order = counts[h].out_of_order
         /\ \A kind \in {"live", "replay", "drain"} :
              counts'[h][kind] = counts[h][kind] + (IF kind = source THEN 1 ELSE 0)
         /\ counts'[h].live + counts'[h].replay + counts'[h].drain = expected_packet_seq'[h] - 1
         /\ expected_packet_seq'[h] = expected_packet_seq[h] + 1
         /\ limit[h] # 0 => Len(applied'[h]) <= limit[h]
<1>1. /\ expected_packet_seq'[h] = expected_packet_seq[h] + 1
      /\ limit[h] # 0 => Len(applied'[h]) <= limit[h]
  BY ProcessKeepsProgress
<1>2. PICK c \in Counts : c = counts[h]
  BY DEF LocalInv, SummaryInv
<1>3. counts' = [counts EXCEPT ![h] = [c EXCEPT ![source] = @ + 1]]
  BY <1>2 DEF ProcessPacket
<1>4. counts'[h] = [c EXCEPT ![source] = c[source] + 1]
  BY <1>3 DEF LocalInv
<1>5. /\ counts'[h] \in Counts
      /\ counts'[h].requests = c.requests
      /\ counts'[h].out_of_order = c.out_of_order
      /\ \A kind \in {"live", "replay", "drain"} :
           counts'[h][kind] = c[kind] + (IF kind = source THEN 1 ELSE 0)
  <2>1. c = [live |-> c.live, replay |-> c.replay, drain |-> c.drain,
             requests |-> c.requests, out_of_order |-> c.out_of_order]
        /\ c.live \in Nat /\ c.replay \in Nat /\ c.drain \in Nat
    BY DEF Counts
  <2>2. CASE source = "live"
    BY <1>4, <2>1, <2>2 DEF Counts
  <2>3. CASE source = "replay"
    BY <1>4, <2>1, <2>3 DEF Counts
  <2>4. CASE source = "drain"
    BY <1>4, <2>1, <2>4 DEF Counts
  <2> QED  BY <2>2, <2>3, <2>4
<1>6. counts'[h].live + counts'[h].replay + counts'[h].drain = c.live + c.replay + c.drain + 1
  <2>1. c.live \in Nat /\ c.replay \in Nat /\ c.drain \in Nat
    BY DEF Counts
  <2>2. /\ counts'[h].live = c.live + (IF "live" = source THEN 1 ELSE 0)
        /\ counts'[h].replay = c.replay + (IF "replay" = source THEN 1 ELSE 0)
        /\ counts'[h].drain = c.drain + (IF "drain" = source THEN 1 ELSE 0)
    BY <1>5
  <2> QED  BY <2>1, <2>2
<1>7. expected_packet_seq[h] \in Nat
  BY DEF HandlersInv, ProgressInv, HistoryInv, Stored
<1>8. c.live + c.replay + c.drain = expected_packet_seq[h] - 1
  BY <1>2 DEF LocalInv, SummaryInv
<1>9. counts' = [counts EXCEPT ![h] = counts'[h]]
  BY <1>3, <1>4
<1>10. counts'[h].live + counts'[h].replay + counts'[h].drain = expected_packet_seq'[h] - 1
  BY <1>1, <1>6, <1>7, <1>8
<1> QED  BY <1>1, <1>2, <1>5, <1>9, <1>10

-----------------------------------------------------------------------------
(* The steps of a handler.                                                 *)

\* What follows from the invariants for the handler that takes a step.
LEMMA HandlerFacts ==
  ASSUME IInv, LocalInv, NEW h \in Handlers
  PROVE  /\ ParkInv(h) /\ SummaryInv(h)
         /\ HistoryInv /\ HandlersInv /\ NetworkInv /\ ServerInv
         /\ ProgressInv(h) /\ BuffersInv(h)
         /\ handler_pc[h] \in HandlerPcs
         /\ expected_packet_seq[h] \in Nat \ {0}
         /\ limit[h] \in Nat
         /\ replay_batch[h] \in Seq(Packet)
         /\ counts[h].live \in Nat /\ counts[h].replay \in Nat /\ counts[h].drain \in Nat
         /\ counts[h].requests \in Nat /\ counts[h].out_of_order \in Nat
<1>1. /\ ParkInv(h) /\ SummaryInv(h) /\ handler_pc[h] \in HandlerPcs
      /\ HistoryInv /\ HandlersInv /\ NetworkInv /\ ServerInv
      /\ ProgressInv(h) /\ BuffersInv(h)
  BY DEF IInv, LocalInv, HandlersInv
<1>2. expected_packet_seq[h] \in Nat \ {0} /\ limit[h] \in Nat
  BY <1>1 DEF ProgressInv, HistoryInv, Stored
<1>3. counts[h] \in Counts
  BY <1>1 DEF SummaryInv
<1>4. replay_batch[h] \in Seq(Packet)
  BY <1>1 DEF BuffersInv, AllGenuine
<1> QED  BY <1>1, <1>2, <1>3, <1>4 DEF Counts

\* A step that only moves the handler on, out of its loops.
LEMMA EndLocal ==
  ASSUME IInv, LocalInv, NEW h \in Handlers,
         NEW pc \in {"done", "failed", "killed"},
         handler_pc' = [handler_pc EXCEPT ![h] = pc],
         UNCHANGED <<limit, expected_packet_seq, applied, buffered_packets, counts>>,
         replay_batch' = [replay_batch EXCEPT ![h] = replay_batch'[h]],
         pc = "done" => limit_reached(h) /\ handler_pc[h] = "drain"
  PROVE  LocalInv'
<1>1. ParkInv(h) /\ SummaryInv(h) /\ HandlersInv
  BY HandlerFacts
<1>2. handler_pc'[h] = pc
  BY DEF LocalInv
<1>3. OnlyLocal(h)
  BY <1>1, <1>2 DEF OnlyLocal, OnlyHandler, HandlersInv, LocalInv
<1>4. (limit_reached(h)' <=> limit_reached(h)) /\ parked(h)' = parked(h)
  BY DEF limit_reached, received_messages, parked
<1>5. ParkInv(h)'
  BY <1>1, <1>2, <1>4 DEF ParkInv, GapAt
<1>6. SummaryInv(h)'
  BY <1>1, <1>2, <1>4 DEF SummaryInv
<1> QED  BY <1>1, <1>2, <1>3, <1>5, <1>6, OneLocal DEF HandlerPcs

\* The next packet of the feed: nothing is parked before or after it.
LEMMA LiveLocal ==
  ASSUME NoWrap, IInv, LocalInv, NEW h \in Handlers, ProcessLive(h), UNCHANGED exchangeVars
  PROVE  LocalInv'
<1>1. PICK datagram \in Receivable :
        /\ parse_packet(datagram)
        /\ datagram.seq_num = expected_packet_seq[h]
        /\ ProcessPacket(h, datagram, "live")
  BY DEF ProcessLive
<1>2. Genuine(packets, datagram)
  BY <1>1, StraysAssumption DEF Receivable, NetworkInv, IInv
<1>3. /\ handler_pc[h] = "recv" /\ handler_pc' = [handler_pc EXCEPT ![h] = "drain"]
      /\ UNCHANGED <<limit, buffered_packets, replay_batch, packets>>
  BY DEF ProcessLive, Goto, recoveryVars
<1>4. /\ ParkInv(h) /\ SummaryInv(h) /\ HandlersInv /\ HistoryInv /\ ProgressInv(h)
      /\ counts[h].replay \in Nat /\ counts[h].drain \in Nat
  BY HandlerFacts
<1>5. handler_pc'[h] = "drain"
  BY <1>3 DEF LocalInv
<1>6. ~limit_reached(h)
  BY <1>3, <1>4 DEF ProgressInv
<1>7. /\ counts' = [counts EXCEPT ![h] = counts'[h]]
      /\ counts'[h] \in Counts
      /\ counts'[h].requests = counts[h].requests
      /\ counts'[h].out_of_order = counts[h].out_of_order
      /\ counts'[h].replay = counts[h].replay + 0
      /\ counts'[h].drain = counts[h].drain + 0
      /\ counts'[h].live + counts'[h].replay + counts'[h].drain = expected_packet_seq'[h] - 1
      /\ limit[h] # 0 => Len(applied'[h]) <= limit[h]
  BY <1>1, <1>2, <1>3, <1>4, <1>5, <1>6, ProcessCounts
<1>8. OnlyLocal(h)
  BY <1>1, <1>3, <1>4, <1>5, <1>7 DEF OnlyLocal, OnlyHandler, HandlersInv, ProcessPacket
<1>9. parked(h)' = parked(h) /\ parked(h) = {} /\ limit' = limit
  BY <1>3, <1>4 DEF parked, ParkInv
<1>10. ParkInv(h)'
  BY <1>5, <1>9 DEF ParkInv
<1>11. SummaryInv(h)'
  <2>1. counts'[h].replay = counts[h].replay /\ counts'[h].drain = counts[h].drain
    BY <1>4, <1>7
  <2>2. counts'[h].drain + Cardinality(parked(h)') = counts'[h].out_of_order
    BY <1>4, <1>7, <1>9, <2>1 DEF SummaryInv
  <2>3. /\ counts'[h].requests = counts'[h].out_of_order
        /\ counts'[h].requests <= counts'[h].replay
    BY <1>3, <1>4, <1>7, <2>1 DEF SummaryInv
  <2>4. limit'[h] # 0 => Len(applied'[h]) <= limit'[h]
    BY <1>7, <1>9
  <2> QED  BY <1>5, <1>7, <2>2, <2>3, <2>4 DEF SummaryInv
<1> QED  BY <1>4, <1>5, <1>8, <1>10, <1>11, OneLocal DEF HandlerPcs

\* A packet beyond the next is the only one parked, and always asked about.
LEMMA GapLocal ==
  ASSUME IInv, LocalInv, NEW h \in Handlers, BufferAndRequest(h)
  PROVE  /\ LocalInv'
         /\ \E s \in 1 .. Stored :
              /\ expected_packet_seq[h] < s
              /\ parked(h)' = {s}
              /\ \/ Unreachable(h) /\ Goto(h, "failed") /\ close_connection(h)
                 \/ /\ ~Unreachable(h) /\ Goto(h, "request")
                    /\ SendRequest(h, expected_packet_seq[h], s - 1)
<1> USE MaxSeqAssumption
<1>1. /\ ParkInv(h) /\ SummaryInv(h) /\ HandlersInv /\ HistoryInv /\ ProgressInv(h)
      /\ expected_packet_seq[h] \in Nat \ {0}
      /\ counts[h].live \in Nat /\ counts[h].replay \in Nat /\ counts[h].drain \in Nat
      /\ counts[h].requests \in Nat /\ counts[h].out_of_order \in Nat
  BY HandlerFacts
<1>2. handler_pc[h] = "recv" /\ parked(h) = {} /\ ~limit_reached(h)
  BY <1>1 DEF BufferAndRequest, ParkInv, ProgressInv
<1> DEFINE Parked(d) == [s \in DOMAIN buffered_packets[h] \cup {d.seq_num} |->
                           IF s = d.seq_num THEN d ELSE buffered_packets[h][s]]
           First(d) == CHOOSE s \in DOMAIN Parked(d) : \A t \in DOMAIN Parked(d) : s <= t
           start == expected_packet_seq[h]
           Asks(d) == start <= PrevSeq(First(d))
<1>3. PICK d \in Receivable :
        /\ parse_packet(d)
        /\ d.seq_num > start
        /\ buffered_packets' = [buffered_packets EXCEPT ![h] = Parked(d)]
        /\ counts' = [counts EXCEPT ![h].out_of_order = @ + 1,
                                    ![h].requests = IF Asks(d) THEN @ + 1 ELSE @]
        /\ IF ~Asks(d)
           THEN Goto(h, "recv") /\ UNCHANGED recoveryVars
           ELSE IF Unreachable(h)
           THEN Goto(h, "failed") /\ close_connection(h)
           ELSE Goto(h, "request") /\ SendRequest(h, start, PrevSeq(First(d)))
  BY DEF BufferAndRequest
<1>4. PICK s \in 1 .. Stored : s = d.seq_num
  <2>1. Genuine(packets, d)
    BY <1>3, StraysAssumption DEF Receivable, NetworkInv, IInv
  <2> QED  BY <1>1, <2>1 DEF Genuine, HistoryInv
<1>5. s \in Nat /\ start < s /\ start \in Nat /\ start >= 1
  BY <1>1, <1>3, <1>4 DEF HistoryInv, Stored
<1>6. DOMAIN Parked(d) = {s}
  BY <1>2, <1>4 DEF parked
<1>7. First(d) = s
  BY <1>5, <1>6
<1>8. PrevSeq(First(d)) = s - 1 /\ Asks(d)
  <2> HIDE DEF First
  <2>1. PrevSeq(First(d)) = s - 1
    BY <1>5, <1>7 DEF PrevSeq
  <2> QED  BY <1>5, <2>1
<1>9. parked(h)' = {s}
  BY <1>1, <1>3, <1>6 DEF parked, HandlersInv
<1> HIDE DEF Parked, First, Asks
<1>10. /\ counts' = [counts EXCEPT ![h].out_of_order = @ + 1, ![h].requests = @ + 1]
       /\ \/ Unreachable(h) /\ Goto(h, "failed") /\ close_connection(h)
          \/ ~Unreachable(h) /\ Goto(h, "request") /\ SendRequest(h, start, s - 1)
  BY <1>3, <1>8
<1>11. /\ counts'[h] \in Counts
       /\ counts'[h].live = counts[h].live /\ counts'[h].replay = counts[h].replay
       /\ counts'[h].drain = counts[h].drain
       /\ counts'[h].requests = counts[h].requests + 1
       /\ counts'[h].out_of_order = counts[h].out_of_order + 1
       /\ counts' = [counts EXCEPT ![h] = counts'[h]]
  <2>1. PICK c \in Counts : c = counts[h]
    BY <1>1 DEF SummaryInv
  <2>2. counts' = [counts EXCEPT ![h] = [c EXCEPT !.out_of_order = @ + 1, !.requests = @ + 1]]
    BY <1>10, <2>1
  <2>3. counts'[h] = [c EXCEPT !.out_of_order = @ + 1, !.requests = @ + 1]
    BY <2>2 DEF LocalInv
  <2>4. /\ counts'[h] \in Counts
        /\ counts'[h].live = c.live /\ counts'[h].replay = c.replay /\ counts'[h].drain = c.drain
        /\ counts'[h].requests = c.requests + 1 /\ counts'[h].out_of_order = c.out_of_order + 1
    <3>1. c = [live |-> c.live, replay |-> c.replay, drain |-> c.drain,
               requests |-> c.requests, out_of_order |-> c.out_of_order]
          /\ c.live \in Nat /\ c.replay \in Nat /\ c.drain \in Nat
          /\ c.requests \in Nat /\ c.out_of_order \in Nat
      BY DEF Counts
    <3> DEFINE d1 == [c EXCEPT !.out_of_order = @ + 1]
    <3>2. d1 = [live |-> c.live, replay |-> c.replay, drain |-> c.drain,
                requests |-> c.requests, out_of_order |-> c.out_of_order + 1]
      BY <3>1
    <3>3. counts'[h] = [d1 EXCEPT !.requests = @ + 1]
      BY <2>3
    <3>4. counts'[h] = [live |-> c.live, replay |-> c.replay, drain |-> c.drain,
                        requests |-> c.requests + 1, out_of_order |-> c.out_of_order + 1]
      BY <3>2, <3>3
    <3> QED  BY <3>1, <3>4 DEF Counts
  <2> QED  BY <2>1, <2>2, <2>3, <2>4
<1>12. /\ UNCHANGED <<limit, expected_packet_seq, applied, replay_batch>>
       /\ \E pc \in {"failed", "request"} : handler_pc' = [handler_pc EXCEPT ![h] = pc]
  BY <1>10 DEF BufferAndRequest, Goto
<1>13. handler_pc'[h] \in {"failed", "request"}
  BY <1>12 DEF LocalInv
<1>14. OnlyLocal(h)
  BY <1>1, <1>3, <1>11, <1>12, <1>13 DEF OnlyLocal, OnlyHandler, HandlersInv, LocalInv
<1>15. limit_reached(h)' <=> limit_reached(h)
  BY <1>12 DEF limit_reached, received_messages
<1>16. ParkInv(h)'
  BY <1>5, <1>9, <1>12, <1>13 DEF ParkInv, GapAt
<1>17. SummaryInv(h)'
  <2>1. Cardinality(parked(h)) = 0 /\ Cardinality(parked(h)') = 1
    BY <1>2, <1>9, FS_EmptySet, FS_Singleton
  <2>2. counts'[h].drain + Cardinality(parked(h)') = counts'[h].out_of_order
    BY <1>1, <1>11, <2>1 DEF SummaryInv
  <2>3. /\ counts'[h].requests = counts'[h].out_of_order
        /\ counts'[h].requests <= counts'[h].replay + 1
    BY <1>1, <1>2, <1>11 DEF SummaryInv
  <2>4. counts'[h].live + counts'[h].replay + counts'[h].drain = expected_packet_seq'[h] - 1
    BY <1>1, <1>11, <1>12 DEF SummaryInv
  <2>5. limit'[h] # 0 => Len(applied'[h]) <= limit'[h]
    BY <1>1, <1>12 DEF SummaryInv
  <2> QED  BY <1>2, <1>11, <1>13, <1>15, <2>2, <2>3, <2>4, <2>5 DEF SummaryInv
<1>18. LocalInv'
  BY <1>1, <1>13, <1>14, <1>16, <1>17, OneLocal DEF HandlerPcs
<1> QED  BY <1>5, <1>9, <1>10, <1>18

\* A complete reply has as many packets as are missing below the parked one.
LEMMA ReplyLocal ==
  ASSUME IInv, LocalInv, NEW h \in Handlers, ReplayArrives(h)
  PROVE  LocalInv'
<1>1. /\ ParkInv(h) /\ SummaryInv(h) /\ HandlersInv /\ HistoryInv /\ ServerInv
      /\ expected_packet_seq[h] \in Nat \ {0}
      /\ handler_pc[h] = "request"
  BY HandlerFacts DEF ReplayArrives
<1>2. PICK s \in Nat : parked(h) = {s} /\ expected_packet_seq[h] < s
  BY <1>1 DEF ParkInv, GapAt
<1>3. (CHOOSE t \in parked(h) : \A u \in parked(h) : t <= u) = s
  BY <1>2
<1>4. CASE reply[h].packet_count = s - expected_packet_seq[h]
  <2>1. /\ handler_pc' = [handler_pc EXCEPT ![h] = "replay"]
        /\ replay_batch' = [replay_batch EXCEPT ![h] = reply[h].frames]
        /\ UNCHANGED <<limit, expected_packet_seq, applied, buffered_packets, counts>>
    BY <1>3, <1>4 DEF ReplayArrives, Goto, parked
  <2>2. PICK batch \in Seq(Packet) : batch = reply[h].frames
    BY <1>1 DEF ServerInv, AllGenuine
  <2>3. Len(batch) = s - expected_packet_seq[h] /\ batch # <<>>
    <3>1. Len(batch) = s - expected_packet_seq[h]
      BY <1>4, <2>2 DEF ReplayArrives, ReplyComplete
    <3> QED  BY <1>1, <1>2, <3>1
  <2>4. handler_pc'[h] = "replay" /\ replay_batch'[h] = batch
    BY <1>1, <2>1, <2>2 DEF HandlersInv
  <2>5. OnlyLocal(h)
    BY <1>1, <2>1, <2>4 DEF OnlyLocal, OnlyHandler, HandlersInv, LocalInv
  <2>6. (limit_reached(h)' <=> limit_reached(h)) /\ parked(h)' = parked(h)
    BY <2>1 DEF limit_reached, received_messages, parked
  <2>7. ParkInv(h)'
    <3>1. expected_packet_seq'[h] + Len(replay_batch'[h]) = s
      BY <1>1, <1>2, <2>1, <2>3, <2>4
    <3> QED  BY <1>2, <2>4, <2>6, <3>1 DEF ParkInv, GapAt
  <2>8. SummaryInv(h)'
    BY <1>1, <2>1, <2>3, <2>4, <2>6 DEF SummaryInv
  <2> QED  BY <1>1, <2>4, <2>5, <2>7, <2>8, OneLocal DEF HandlerPcs
<1>5. CASE reply[h].packet_count # s - expected_packet_seq[h]
  <2>1. /\ handler_pc' = [handler_pc EXCEPT ![h] = "failed"]
        /\ UNCHANGED <<limit, expected_packet_seq, applied, buffered_packets, counts,
                       replay_batch>>
    BY <1>3, <1>5 DEF ReplayArrives, Goto, parked
  <2>2. replay_batch' = [replay_batch EXCEPT ![h] = replay_batch'[h]]
    BY <1>1, <2>1 DEF HandlersInv
  <2> QED  BY <2>1, <2>2, EndLocal
<1> QED  BY <1>4, <1>5

\* Each packet of the replay brings the expected number one closer to the
\* parked packet.
LEMMA ReplayLocal ==
  ASSUME NoWrap, IInv, LocalInv, NEW h \in Handlers, ProcessReplay(h),
         UNCHANGED exchangeVars
  PROVE  LocalInv'
<1>1. /\ ParkInv(h) /\ SummaryInv(h) /\ HandlersInv /\ HistoryInv /\ BuffersInv(h)
      /\ expected_packet_seq[h] \in Nat \ {0}
      /\ counts[h].replay \in Nat /\ counts[h].drain \in Nat
      /\ counts[h].requests \in Nat /\ counts[h].out_of_order \in Nat
      /\ replay_batch[h] \in Seq(Packet)
      /\ handler_pc[h] = "replay" /\ replay_batch[h] # <<>> /\ ~limit_reached(h)
  BY HandlerFacts DEF ProcessReplay
<1>2. replay_batch' = [replay_batch EXCEPT ![h] = Tail(replay_batch[h])]
      /\ UNCHANGED <<limit, buffered_packets>>
  BY DEF ProcessReplay
<1>3. replay_batch'[h] = Tail(replay_batch[h])
  BY <1>1, <1>2 DEF HandlersInv
<1>4. CASE Acceptable(h, Head(replay_batch[h]))
  <2>1. PICK packet : packet = Head(replay_batch[h])
    OBVIOUS
  <2>2. /\ packet.seq_num = expected_packet_seq[h]
        /\ ProcessPacket(h, packet, "replay")
        /\ UNCHANGED <<handler_pc, packets>>
    BY <1>4, <2>1 DEF ProcessReplay, Acceptable, recoveryVars
  <2>3. Genuine(packets, packet)
    BY <1>1, <2>1, TailGenuine DEF BuffersInv
  <2>4. /\ counts' = [counts EXCEPT ![h] = counts'[h]]
        /\ counts'[h] \in Counts
        /\ counts'[h].requests = counts[h].requests
        /\ counts'[h].out_of_order = counts[h].out_of_order
        /\ counts'[h].replay = counts[h].replay + 1
        /\ counts'[h].drain = counts[h].drain + 0
        /\ counts'[h].live + counts'[h].replay + counts'[h].drain = expected_packet_seq'[h] - 1
        /\ expected_packet_seq'[h] = expected_packet_seq[h] + 1
        /\ limit[h] # 0 => Len(applied'[h]) <= limit[h]
    BY <1>1, <1>2, <2>2, <2>3, ProcessCounts
  <2>5. OnlyLocal(h)
    BY <1>1, <1>2, <1>3, <2>2, <2>4
       DEF OnlyLocal, OnlyHandler, HandlersInv, ProcessPacket, LocalInv
  <2>6. parked(h)' = parked(h) /\ limit' = limit /\ handler_pc'[h] = "replay"
    BY <1>1, <1>2, <2>2 DEF parked
  <2>7. ParkInv(h)'
    <3>1. PICK s \in Nat : /\ parked(h) = {s}
                           /\ expected_packet_seq[h] + Len(replay_batch[h]) = s
      BY <1>1 DEF ParkInv, GapAt
    <3>2. Len(replay_batch'[h]) = Len(replay_batch[h]) - 1
      BY <1>1, <1>3
    <3>3. expected_packet_seq'[h] + Len(replay_batch'[h]) = s
      <4>1. PICK e \in Nat, n \in Nat : e = expected_packet_seq[h] /\ n = Len(replay_batch[h])
        BY <1>1
      <4>2. /\ expected_packet_seq'[h] = e + 1 /\ Len(replay_batch'[h]) = n - 1
            /\ e + n = s
        BY <2>4, <3>1, <3>2, <4>1
      <4>3. (e + 1) + (n - 1) = s
        BY <4>2
      <4> QED  BY <4>2, <4>3, Zenon
    <3> QED  BY <2>6, <3>1, <3>3 DEF ParkInv, GapAt
  <2>8. SummaryInv(h)'
    <3>1. counts'[h].drain + Cardinality(parked(h)') = counts'[h].out_of_order
      BY <1>1, <2>4, <2>6 DEF SummaryInv
    <3>2. /\ counts'[h].requests = counts'[h].out_of_order
          /\ counts'[h].requests <= counts'[h].replay
          /\ counts'[h].requests <= counts'[h].replay + 1
      BY <1>1, <2>4 DEF SummaryInv
    <3>3. limit'[h] # 0 => Len(applied'[h]) <= limit'[h]
      BY <2>4, <2>6
    <3> QED  BY <2>4, <2>6, <3>1, <3>2, <3>3 DEF SummaryInv
  <2> QED  BY <1>1, <2>5, <2>6, <2>7, <2>8, OneLocal DEF HandlerPcs
<1>5. CASE ~Acceptable(h, Head(replay_batch[h]))
  <2>1. /\ handler_pc' = [handler_pc EXCEPT ![h] = "failed"]
        /\ UNCHANGED <<limit, expected_packet_seq, applied, buffered_packets, counts>>
    BY <1>2, <1>5 DEF ProcessReplay, Goto
  <2>2. replay_batch' = [replay_batch EXCEPT ![h] = replay_batch'[h]]
    BY <1>2, <1>3
  <2> QED  BY <2>1, <2>2, EndLocal
<1> QED  BY <1>4, <1>5

\* When the replay is over the parked packet is next, or the limit is reached.
LEMMA ReplayOverLocal ==
  ASSUME IInv, LocalInv, NEW h \in Handlers, ReplayOver(h)
  PROVE  LocalInv'
<1>1. /\ ParkInv(h) /\ SummaryInv(h) /\ HandlersInv
      /\ expected_packet_seq[h] \in Nat \ {0}
      /\ handler_pc[h] = "replay"
  BY HandlerFacts DEF ReplayOver
<1>2. /\ replay_batch[h] = <<>> \/ limit_reached(h)
      /\ replay_batch' = [replay_batch EXCEPT ![h] = <<>>]
      /\ handler_pc' = [handler_pc EXCEPT ![h] = "drain"]
      /\ UNCHANGED <<limit, expected_packet_seq, applied, buffered_packets, counts>>
  BY DEF ReplayOver, Goto
<1>3. handler_pc'[h] = "drain" /\ replay_batch'[h] = <<>>
  BY <1>1, <1>2 DEF HandlersInv
<1>4. OnlyLocal(h)
  BY <1>1, <1>2, <1>3 DEF OnlyLocal, OnlyHandler, HandlersInv, LocalInv
<1>5. (limit_reached(h)' <=> limit_reached(h)) /\ parked(h)' = parked(h)
  BY <1>2 DEF limit_reached, received_messages, parked
<1>6. ParkInv(h)'
  <2>1. PICK s \in Nat : /\ parked(h) = {s}
                         /\ expected_packet_seq[h] + Len(replay_batch[h]) = s
    BY <1>1 DEF ParkInv, GapAt
  <2>2. limit_reached(h) \/ expected_packet_seq[h] = s
    <3>1. replay_batch[h] = <<>> => Len(replay_batch[h]) = 0
      OBVIOUS
    <3> QED  BY <1>1, <1>2, <2>1, <3>1
  <2> QED  BY <1>2, <1>3, <1>5, <2>1, <2>2 DEF ParkInv, GapAt
<1>7. SummaryInv(h)'
  BY <1>1, <1>2, <1>3, <1>5 DEF SummaryInv
<1> QED  BY <1>1, <1>3, <1>4, <1>6, <1>7, OneLocal DEF HandlerPcs

\* The drained packet is the one that was parked.
LEMMA DrainLocal ==
  ASSUME NoWrap, IInv, LocalInv, NEW h \in Handlers, ProcessDrain(h),
         UNCHANGED exchangeVars
  PROVE  LocalInv'
<1>1. /\ ParkInv(h) /\ SummaryInv(h) /\ HandlersInv /\ HistoryInv /\ BuffersInv(h)
      /\ counts[h].replay \in Nat /\ counts[h].drain \in Nat
      /\ counts[h].requests \in Nat /\ counts[h].out_of_order \in Nat
      /\ handler_pc[h] = "drain" /\ ~limit_reached(h)
      /\ expected_packet_seq[h] \in parked(h)
  BY HandlerFacts DEF ProcessDrain, parked
<1>2. PICK packet : packet = buffered_packets[h][expected_packet_seq[h]]
  OBVIOUS
<1>3. /\ ProcessPacket(h, packet, "drain")
      /\ buffered_packets' = [buffered_packets EXCEPT ![h] =
                                [s \in parked(h) \ {expected_packet_seq[h]} |->
                                   buffered_packets[h][s]]]
      /\ UNCHANGED <<handler_pc, limit, replay_batch, packets>>
  BY <1>2 DEF ProcessDrain, recoveryVars, parked
<1>4. Genuine(packets, packet) /\ packet.seq_num = expected_packet_seq[h]
  BY <1>1, <1>2 DEF BuffersInv, parked
<1>5. parked(h) = {expected_packet_seq[h]} /\ parked(h)' = {}
  <2>1. parked(h) = {expected_packet_seq[h]}
    BY <1>1 DEF ParkInv
  <2>2. buffered_packets'[h] = [s \in parked(h) \ {expected_packet_seq[h]} |->
                                  buffered_packets[h][s]]
    BY <1>1, <1>3 DEF HandlersInv
  <2>3. parked(h)' = parked(h) \ {expected_packet_seq[h]}
    BY <2>2 DEF parked
  <2> QED  BY <2>1, <2>3
<1>6. /\ counts' = [counts EXCEPT ![h] = counts'[h]]
      /\ counts'[h] \in Counts
      /\ counts'[h].requests = counts[h].requests
      /\ counts'[h].out_of_order = counts[h].out_of_order
      /\ counts'[h].replay = counts[h].replay + 0
      /\ counts'[h].drain = counts[h].drain + 1
      /\ counts'[h].live + counts'[h].replay + counts'[h].drain = expected_packet_seq'[h] - 1
      /\ limit[h] # 0 => Len(applied'[h]) <= limit[h]
  BY <1>1, <1>3, <1>4, ProcessCounts
<1>7. OnlyLocal(h)
  BY <1>1, <1>3, <1>6 DEF OnlyLocal, OnlyHandler, HandlersInv, ProcessPacket, LocalInv
<1>8. limit' = limit /\ handler_pc'[h] = "drain"
  BY <1>1, <1>3
<1>9. ParkInv(h)'
  BY <1>5, <1>8 DEF ParkInv
<1>10. SummaryInv(h)'
  <2>1. Cardinality(parked(h)) = 1 /\ Cardinality(parked(h)') = 0
    BY <1>5, FS_EmptySet, FS_Singleton
  <2>2. counts'[h].drain + Cardinality(parked(h)') = counts'[h].out_of_order
    BY <1>1, <1>6, <2>1 DEF SummaryInv
  <2>3. /\ counts'[h].requests = counts'[h].out_of_order
        /\ counts'[h].requests <= counts'[h].replay
    BY <1>1, <1>6 DEF SummaryInv
  <2>4. limit'[h] # 0 => Len(applied'[h]) <= limit'[h]
    BY <1>6, <1>8
  <2> QED  BY <1>6, <1>8, <2>2, <2>3, <2>4 DEF SummaryInv
<1> QED  BY <1>1, <1>7, <1>8, <1>9, <1>10, OneLocal DEF HandlerPcs

\* With nothing to drain and no limit reached, nothing is parked.
LEMMA DrainOverLocal ==
  ASSUME IInv, LocalInv, NEW h \in Handlers, DrainOver(h)
  PROVE  LocalInv'
<1>1. /\ ParkInv(h) /\ SummaryInv(h) /\ HandlersInv
      /\ handler_pc[h] = "drain" /\ ~limit_reached(h)
      /\ expected_packet_seq[h] \notin parked(h)
  BY HandlerFacts DEF DrainOver, parked
<1>2. /\ handler_pc' = [handler_pc EXCEPT ![h] = "recv"]
      /\ UNCHANGED <<limit, expected_packet_seq, applied, buffered_packets, replay_batch, counts>>
  BY DEF DrainOver, Goto
<1>3. handler_pc'[h] = "recv"
  BY <1>2 DEF LocalInv
<1>4. OnlyLocal(h)
  BY <1>1, <1>2, <1>3 DEF OnlyLocal, OnlyHandler, HandlersInv, LocalInv
<1>5. (limit_reached(h)' <=> limit_reached(h)) /\ parked(h)' = parked(h)
  BY <1>2 DEF limit_reached, received_messages, parked
<1>6. parked(h) = {}
  BY <1>1 DEF ParkInv, GapAt
<1>7. ParkInv(h)'
  BY <1>3, <1>5, <1>6 DEF ParkInv
<1>8. SummaryInv(h)'
  BY <1>1, <1>2, <1>3, <1>5 DEF SummaryInv
<1> QED  BY <1>1, <1>3, <1>4, <1>7, <1>8, OneLocal DEF HandlerPcs

-----------------------------------------------------------------------------
(* The theorems.                                                           *)

\* Every step of the system keeps the handlers' local invariant.
LEMMA LocalNext == ASSUME NoWrap, IInv, LocalInv, [Next]_vars PROVE LocalInv'
<1>1. CASE HandlersStep
  <2>1. PICK h \in Handlers : HandlerStep(h) \/ Receive(h) \/ HandlerKilled(h)
    BY <1>1 DEF HandlersStep
  <2>2. UNCHANGED exchangeVars
    BY <1>1 DEF HandlersStep
  <2>3. CASE Discard(h)
    BY <2>3, LocalKept DEF Discard
  <2>4. CASE ReplyEof(h) \/ LimitReached(h) \/ HandlerKilled(h)
    <3>1. replay_batch' = [replay_batch EXCEPT ![h] = replay_batch'[h]]
      BY <2>4 DEF ReplyEof, LimitReached, HandlerKilled, IInv, HandlersInv
    <3>2. CASE ReplyEof(h)
      BY <3>1, <3>2, EndLocal DEF ReplyEof, Goto
    <3>3. CASE LimitReached(h)
      BY <3>1, <3>3, EndLocal DEF LimitReached, Goto
    <3>4. CASE HandlerKilled(h)
      BY <3>1, <3>4, EndLocal DEF HandlerKilled, Goto
    <3> QED  BY <2>4, <3>2, <3>3, <3>4
  <2> QED
    BY <2>1, <2>2, <2>3, <2>4, LiveLocal, GapLocal, ReplyLocal, ReplayLocal, ReplayOverLocal,
       DrainLocal, DrainOverLocal
    DEF HandlerStep, Receive
<1>2. CASE UNCHANGED handlerVars
  BY <1>2, LocalKept
<1>3. [Next]_vars /\ ~HandlersStep => UNCHANGED handlerVars
  BY DEF Next, NextPollWorks, ExchangeStep, ServerStep, ServerFails, vars
<1> QED  BY <1>1, <1>2, <1>3

\* The local invariant holds throughout.
LEMMA LocalHolds == ASSUME NoWrap PROVE Spec => []LocalInv
<1>1. IInv /\ LocalInv /\ [Next]_vars => LocalInv'
  BY LocalNext
<1> QED  BY <1>1, LocalInit, Invariance, PTL DEF Spec

\* Whenever a handler goes back to the socket its gap is closed, and it never
\* parks more than the packet that revealed the gap (buffered_packets).
THEOREM NothingStaysParked == ASSUME NoWrap PROVE Spec => []NothingParkedAtRecv
<1>1. LocalInv => NothingParkedAtRecv
  <2> SUFFICES ASSUME LocalInv, NEW h \in Handlers
               PROVE  /\ handler_pc[h] = "recv" => parked(h) = {}
                      /\ Cardinality(parked(h)) <= 1
    BY DEF NothingParkedAtRecv, parked
  <2>1. parked(h) = {} \/ \E s : parked(h) = {s}
    BY DEF LocalInv, ParkInv
  <2>2. Cardinality(parked(h)) = 0 \/ Cardinality(parked(h)) = 1
    BY <2>1, FS_EmptySet, FS_Singleton
  <2> QED  BY <2>2 DEF LocalInv, ParkInv
<1> QED  BY <1>1, LocalHolds, PTL

\* The counters print_summary shows agree with each other, with the packets
\* passed and with the limit, whatever the network did.
THEOREM SummaryIsConsistent == ASSUME NoWrap PROVE Spec => []SummaryAddsUp
<1>1. LocalInv /\ IInv => SummaryAddsUp
  <2> SUFFICES ASSUME LocalInv, IInv, NEW h \in Handlers, handler_pc[h] \in {"recv", "done"}
               PROVE  /\ counts[h].live + counts[h].replay + counts[h].drain
                           = expected_packet_seq[h] - 1
                      /\ counts[h].requests = counts[h].out_of_order
                      /\ counts[h].drain + Cardinality(DOMAIN buffered_packets[h])
                           = counts[h].out_of_order
                      /\ counts[h].requests <= counts[h].replay
                      /\ handler_pc[h] = "done" => received_messages(h) = limit[h]
    BY DEF SummaryAddsUp
  <2>1. SummaryInv(h) /\ ProgressInv(h)
    BY DEF LocalInv, IInv, HandlersInv
  <2>2. handler_pc[h] = "done" => received_messages(h) = limit[h]
    <3>1. limit[h] \in Nat /\ Len(applied[h]) \in Nat
      BY <2>1 DEF ProgressInv
    <3> QED  BY <2>1, <3>1 DEF SummaryInv, limit_reached, received_messages
  <2> QED  BY <2>1, <2>2 DEF SummaryInv, parked
<1> QED  BY <1>1, LocalHolds, Invariance, PTL
=============================================================================
