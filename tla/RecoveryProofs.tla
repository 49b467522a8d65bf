--------------------------- MODULE RecoveryProofs ---------------------------
(***************************************************************************)
(* Proofs about the recovery channel under the feed: types, and that a     *)
(* handler fails only once the exchange has stopped.  The invariant says   *)
(* where the answer to a request is at every moment, from the request in   *)
(* the socket to the last frame.                                           *)
(***************************************************************************)
EXTENDS FeedHandlerProofs

\* Packets a to b of the history.
Span(hist, a, b) == [i \in 1 .. b - a + 1 |-> hist[a + i - 1]]

Stopped == stop_ \/ main_pc = "exited"

\* The queue of listen() holds every handler at once, so nobody finds it full.
FewHandlers == IsFiniteSet(Handlers) /\ Cardinality(Handlers) <= ListenBacklog

InService == {"check", "recv", "lookup", "count", "frames"}

\* The server has accepted the handler's connection.
Serves(h) == serving = h /\ server_pc \in InService

\* It is at work on a request of the handler.
Busy(h) == serving = h /\ server_pc \in {"lookup", "count", "frames"}

ServerTypes ==
  /\ packets \in [DOMAIN packets -> Packet]
  /\ \A s \in DOMAIN packets : parse_packet(packets[s])
  /\ listening \in BOOLEAN /\ stop_ \in BOOLEAN
  /\ server_pc \in ServerPcs
  /\ serving \in Handlers \cup {NoClient}
  /\ server_pc \in InService => serving \in Handlers
  /\ cursor \in SeqNums /\ lookup_end \in SeqNums
  /\ backlog \in Seq(Handlers)
  /\ conn \in [Handlers -> ConnStates]
  /\ request \in [Handlers -> Request]
  /\ reply \in [Handlers -> Reply \cup {NoReply}]

\* What the server has in hand between two requests, and who is connected.
ServiceInv ==
  /\ ~listening => main_pc = "exited"
  /\ server_pc \notin {"lookup", "count", "frames"} => found = <<>>
  /\ server_pc = "frames" => reply[serving] \in Reply
  /\ \A i, j \in DOMAIN backlog : backlog[i] = backlog[j] => i = j
  /\ \A i \in DOMAIN backlog : /\ conn[backlog[i]] \in {"up", "client_closed"}
                               /\ ~Serves(backlog[i])
  /\ \A h \in Handlers : Serves(h) => conn[h] \in {"up", "client_closed"}

\* The request for packets e to s - 1 is in the socket, is looked up, is about
\* to be answered, is being answered, has been answered, or never will be.
InSocket(h, e, s) ==
  /\ request[h] = [start_seq |-> e, end_seq |-> s - 1]
  /\ reply[h] = NoReply
  /\ ~Busy(h)

LookedUp(h, e, s) ==
  /\ server_pc = "lookup"
  /\ reply[h] = NoReply
  /\ lookup_end = s - 1
  /\ cursor \in e .. s - 1
  /\ found = Span(packets, e, cursor - 1)

AllFound(h, e, s) ==
  /\ server_pc = "count"
  /\ reply[h] = NoReply
  /\ found = Span(packets, e, s - 1)

PartlySent(h, e, s) ==
  /\ server_pc = "frames"
  /\ \E next \in e .. s - 1 :
       /\ reply[h] = [packet_count |-> s - e, frames |-> Span(packets, e, next - 1)]
       /\ found = Span(packets, next, s - 1)

Sent(h, e, s) ==
  /\ request[h] = NoRequest
  /\ ~Busy(h)
  /\ reply[h] = [packet_count |-> s - e, frames |-> Span(packets, e, s - 1)]

Answering(h, e, s) ==
  \/ InSocket(h, e, s)
  \/ /\ request[h] = NoRequest
     /\ serving = h
     /\ LookedUp(h, e, s) \/ AllFound(h, e, s) \/ PartlySent(h, e, s)
  \/ Sent(h, e, s)
  \/ conn[h] = "server_closed" /\ ~ReplyComplete(h)

AnswerInv(h) ==
  /\ handler_pc[h] \in {"recv", "replay", "drain"} =>
       request[h] = NoRequest /\ reply[h] = NoReply /\ ~Busy(h)
  /\ ~ended(h) => conn[h] # "client_closed"
  /\ conn[h] = "server_closed" => Stopped
  /\ handler_pc[h] = "request" =>
       /\ conn[h] # "none"
       /\ \E s \in Nat : parked(h) = {s} /\ Answering(h, expected_packet_seq[h], s)
  /\ handler_pc[h] = "replay" =>
       \E s \in Nat : /\ parked(h) = {s}
                      /\ replay_batch[h] = Span(packets, expected_packet_seq[h], s - 1)
  /\ FewHandlers /\ handler_pc[h] = "failed" => Stopped

RecoveryInv ==
  /\ ServerTypes
  /\ ServiceInv
  /\ \A h \in Handlers : AnswerInv(h)

-----------------------------------------------------------------------------
(* Spans of the history.                                                   *)

\* A span is a sequence of the packets asked for.
LEMMA SpanIsSeq ==
  ASSUME NEW hist, NEW a \in Nat \ {0}, NEW b \in Nat, a <= b + 1,
         \A s \in a .. b : hist[s] \in Packet
  PROVE  /\ Span(hist, a, b) \in Seq(Packet)
         /\ Len(Span(hist, a, b)) = b - a + 1
         /\ \A i \in 1 .. b - a + 1 : Span(hist, a, b)[i] = hist[a + i - 1]
<1>1. b - a + 1 \in Nat
  OBVIOUS
<1>2. \A i \in 1 .. b - a + 1 : a + i - 1 \in a .. b
  OBVIOUS
<1>3. \A i \in 1 .. b - a + 1 : hist[a + i - 1] \in Packet
  BY <1>2
<1> QED  BY <1>1, <1>3 DEF Span

\* Nothing lies before its first packet.
LEMMA SpanEmpty == ASSUME NEW hist, NEW a \in Nat \ {0} PROVE Span(hist, a, a - 1) = <<>>
<1>1. 1 .. (a - 1) - a + 1 = {}
  OBVIOUS
<1> QED  BY <1>1 DEF Span

\* A packet more at its end.
LEMMA SpanAppend ==
  ASSUME NEW hist, NEW a \in Nat \ {0}, NEW b \in Nat, a <= b,
         \A s \in a .. b : hist[s] \in Packet
  PROVE  Append(Span(hist, a, b - 1), hist[b]) = Span(hist, a, b)
<1> DEFINE short == Span(hist, a, b - 1)
           long == Span(hist, a, b)
<1>1. /\ short \in Seq(Packet) /\ Len(short) = b - a
      /\ \A i \in 1 .. b - a : short[i] = hist[a + i - 1]
  <2>1. b - 1 \in Nat /\ a <= (b - 1) + 1 /\ (b - 1) - a + 1 = b - a
        /\ \A s \in a .. b - 1 : s \in a .. b
    OBVIOUS
  <2> HIDE DEF short
  <2>2. /\ Span(hist, a, b - 1) \in Seq(Packet)
        /\ Len(Span(hist, a, b - 1)) = (b - 1) - a + 1
        /\ \A i \in 1 .. (b - 1) - a + 1 : Span(hist, a, b - 1)[i] = hist[a + i - 1]
    BY <2>1, SpanIsSeq
  <2> QED  BY <2>1, <2>2 DEF short
<1>2. /\ long \in Seq(Packet) /\ Len(long) = b - a + 1
      /\ \A i \in 1 .. b - a + 1 : long[i] = hist[a + i - 1]
  <2>1. a <= b + 1
    OBVIOUS
  <2> HIDE DEF long
  <2> QED  BY <2>1, SpanIsSeq DEF long
<1> HIDE DEF short, long
<1>3. hist[b] \in Packet
  OBVIOUS
<1>4. /\ Append(short, hist[b]) \in Seq(Packet)
      /\ Len(Append(short, hist[b])) = b - a + 1
      /\ \A i \in 1 .. b - a : Append(short, hist[b])[i] = short[i]
      /\ Append(short, hist[b])[b - a + 1] = hist[b]
  BY <1>1, <1>3, AppendProperties
<1>5. ASSUME NEW i \in 1 .. b - a + 1
      PROVE  Append(short, hist[b])[i] = long[i]
  <2>1. CASE i = b - a + 1
    <3>1. a + i - 1 = b
      BY <2>1
    <3> QED  BY <1>2, <1>4, <2>1, <3>1
  <2>2. CASE i # b - a + 1
    <3>1. i \in 1 .. b - a
      BY <2>2
    <3> QED  BY <1>1, <1>2, <1>4, <3>1
  <2> QED  BY <2>1, <2>2
<1>6. Append(short, hist[b]) = long
  BY <1>2, <1>4, <1>5, SeqEqual
<1> QED  BY <1>6 DEF short, long

\* A packet less at its beginning.
LEMMA SpanTail ==
  ASSUME NEW hist, NEW a \in Nat \ {0}, NEW b \in Nat, a <= b,
         \A s \in a .. b : hist[s] \in Packet
  PROVE  /\ Head(Span(hist, a, b)) = hist[a]
         /\ Tail(Span(hist, a, b)) = Span(hist, a + 1, b)
<1> DEFINE long == Span(hist, a, b)
           short == Span(hist, a + 1, b)
<1>1. /\ long \in Seq(Packet) /\ Len(long) = b - a + 1
      /\ \A i \in 1 .. b - a + 1 : long[i] = hist[a + i - 1]
  <2>1. a <= b + 1
    OBVIOUS
  <2> HIDE DEF long
  <2> QED  BY <2>1, SpanIsSeq DEF long
<1>2. /\ short \in Seq(Packet) /\ Len(short) = b - a
      /\ \A i \in 1 .. b - a : short[i] = hist[a + i]
  <2>1. a + 1 \in Nat \ {0} /\ a + 1 <= b + 1 /\ b - (a + 1) + 1 = b - a
        /\ \A s \in a + 1 .. b : s \in a .. b
    OBVIOUS
  <2>2. /\ Span(hist, a + 1, b) \in Seq(Packet)
        /\ Len(Span(hist, a + 1, b)) = b - (a + 1) + 1
        /\ \A i \in 1 .. b - (a + 1) + 1 : Span(hist, a + 1, b)[i] = hist[(a + 1) + i - 1]
    BY <2>1, SpanIsSeq
  <2>3. \A i \in 1 .. b - a : (a + 1) + i - 1 = a + i
    OBVIOUS
  <2> HIDE DEF short
  <2> QED  BY <2>1, <2>2, <2>3 DEF short
<1> HIDE DEF short, long
<1>3. long # <<>> /\ 1 \in 1 .. b - a + 1
  BY <1>1
<1>4. /\ Head(long) = long[1]
      /\ Tail(long) \in Seq(Packet) /\ Len(Tail(long)) = b - a
      /\ \A i \in 1 .. b - a : Tail(long)[i] = long[i + 1]
  <2>1. /\ Tail(long) \in Seq(Packet) /\ Len(Tail(long)) = Len(long) - 1
        /\ \A i \in 1 .. Len(Tail(long)) : Tail(long)[i] = long[i + 1]
    BY <1>1, <1>3, HeadTailProperties
  <2>2. Len(long) - 1 = b - a
    BY <1>1
  <2> QED  BY <1>1, <1>3, <2>1, <2>2
<1>5. long[1] = hist[a]
  <2>1. a + 1 - 1 = a
    OBVIOUS
  <2> QED  BY <1>1, <1>3, <2>1
<1>6. ASSUME NEW i \in 1 .. b - a
      PROVE  Tail(long)[i] = short[i]
  <2>1. i + 1 \in 1 .. b - a + 1 /\ a + (i + 1) - 1 = a + i
    OBVIOUS
  <2> QED  BY <1>1, <1>2, <1>4, <2>1
<1>7. Tail(long) = short
  BY <1>2, <1>4, <1>6, SeqEqual
<1> QED  BY <1>4, <1>5, <1>7 DEF short, long

\* A span stays what it is when the history grows.
LEMMA SpanGrows ==
  ASSUME NEW old, NEW new, NEW n \in Nat, DOMAIN old = 1 .. n, Extends(old, new),
         NEW a \in Nat \ {0}, NEW b \in Int, b <= n
  PROVE  Span(new, a, b) = Span(old, a, b)
<1>1. \A i \in 1 .. b - a + 1 : a + i - 1 \in DOMAIN old
  OBVIOUS
<1>2. \A i \in 1 .. b - a + 1 : new[a + i - 1] = old[a + i - 1]
  BY <1>1 DEF Extends
<1> QED  BY <1>2 DEF Span

-----------------------------------------------------------------------------
(* What the answers need of the history and of the handlers.               *)

\* The history is a run of whole packets, and a handler's gap lies in it.
LEMMA GapFacts ==
  ASSUME NoWrap, IInv, LocalInv
  PROVE  \E n \in Nat :
           /\ n = Stored /\ n < MaxSeq
           /\ DOMAIN packets = 1 .. n
           /\ \A s \in 1 .. n : packets[s] \in Packet /\ packets[s].seq_num = s
           /\ \A h \in Handlers :
                /\ expected_packet_seq[h] \in 1 .. n + 1
                /\ parked(h) \subseteq 1 .. n
                /\ handler_pc[h] \in HandlerPcs
                /\ handler_pc[h] = "request" =>
                     \A s \in parked(h) : expected_packet_seq[h] < s
<1>1. PICK n \in Nat : n = Stored
  BY DEF IInv, HistoryInv, Stored
<1>2. n < MaxSeq
  BY <1>1, ExchangeAssumption, MaxSeqAssumption DEF IInv, HistoryInv, NoWrap
<1>3. DOMAIN packets = 1 .. n
      /\ \A s \in 1 .. n : packets[s] \in Packet /\ packets[s].seq_num = s
  BY <1>1 DEF IInv, HistoryInv, Chain
<1>4. ASSUME NEW h \in Handlers
      PROVE  /\ expected_packet_seq[h] \in 1 .. n + 1
             /\ parked(h) \subseteq 1 .. n
             /\ handler_pc[h] \in HandlerPcs
             /\ handler_pc[h] = "request" =>
                  \A s \in parked(h) : expected_packet_seq[h] < s
  <2>1. ParkInv(h) /\ ProgressInv(h) /\ BuffersInv(h)
    BY HandlerFacts
  <2>2. handler_pc[h] \in HandlerPcs
    BY HandlerFacts
  <2>3. parked(h) \subseteq 1 .. n
    BY <1>3, <2>1 DEF BuffersInv, Genuine, parked
  <2> QED  BY <1>1, <2>1, <2>2, <2>3 DEF ProgressInv, ParkInv, GapAt
<1> QED  BY <1>1, <1>2, <1>3, <1>4

\* A handler's own state, as far as the answers depend on it.
SameHandler(h) ==
  /\ handler_pc'[h] = handler_pc[h]
  /\ expected_packet_seq'[h] = expected_packet_seq[h]
  /\ buffered_packets'[h] = buffered_packets[h]
  /\ replay_batch'[h] = replay_batch[h]

\* A step that neither touches a connection nor the work on its request.
LEMMA Undisturbed ==
  ASSUME NoWrap, IInv, LocalInv, NEW h \in Handlers, AnswerInv(h), SameHandler(h),
         conn'[h] = conn[h], request'[h] = request[h], reply'[h] = reply[h],
         Stopped => Stopped',
         Busy(h)' <=> Busy(h),
         Busy(h) => UNCHANGED <<serving, server_pc, cursor, lookup_end, found>>,
         Extends(packets, packets')
  PROVE  AnswerInv(h)'
<1>1. PICK n \in Nat :
        /\ DOMAIN packets = 1 .. n
        /\ expected_packet_seq[h] \in 1 .. n + 1
        /\ parked(h) \subseteq 1 .. n
  BY GapFacts
<1>2. PICK e \in Nat \ {0} : e = expected_packet_seq[h] /\ e = expected_packet_seq'[h]
  BY <1>1 DEF SameHandler
<1>3. /\ parked(h)' = parked(h) /\ (ended(h)' <=> ended(h))
      /\ ReplyComplete(h)' <=> ReplyComplete(h)
  BY DEF SameHandler, parked, ended, ReplyComplete
<1>4. \A a \in Nat \ {0}, b \in Int : b <= n => Span(packets', a, b) = Span(packets, a, b)
  BY <1>1, SpanGrows
<1>5. ASSUME NEW s \in parked(h), s \in Nat, Answering(h, e, s)
      PROVE  Answering(h, e, s)'
  <2>1. s \in 1 .. n
    BY <1>1, <1>5
  <2>2. CASE InSocket(h, e, s)
    BY <2>2 DEF InSocket, Answering
  <2>3. CASE Sent(h, e, s)
    <3>1. Span(packets', e, s - 1) = Span(packets, e, s - 1)
      BY <1>4, <2>1
    <3> QED  BY <2>3, <3>1 DEF Sent, Answering
  <2>4. CASE conn[h] = "server_closed" /\ ~ReplyComplete(h)
    BY <1>3, <2>4 DEF Answering
  <2>5. CASE /\ request[h] = NoRequest
             /\ serving = h
             /\ LookedUp(h, e, s) \/ AllFound(h, e, s) \/ PartlySent(h, e, s)
    <3>1. UNCHANGED <<serving, server_pc, cursor, lookup_end, found>>
      BY <2>5 DEF Busy, LookedUp, AllFound, PartlySent
    <3>2. LookedUp(h, e, s) => LookedUp(h, e, s)'
      <4> SUFFICES ASSUME LookedUp(h, e, s)
                   PROVE  Span(packets', e, cursor - 1) = Span(packets, e, cursor - 1)
        BY <3>1 DEF LookedUp
      <4>1. cursor - 1 \in Int /\ cursor - 1 <= n
        BY <2>1 DEF LookedUp
      <4> QED  BY <1>4, <4>1
    <3>3. AllFound(h, e, s) => AllFound(h, e, s)'
      <4>1. Span(packets', e, s - 1) = Span(packets, e, s - 1)
        BY <1>4, <2>1
      <4> QED  BY <3>1, <4>1 DEF AllFound
    <3>4. PartlySent(h, e, s) => PartlySent(h, e, s)'
      <4> SUFFICES ASSUME NEW next \in e .. s - 1
                   PROVE  /\ Span(packets', e, next - 1) = Span(packets, e, next - 1)
                          /\ Span(packets', next, s - 1) = Span(packets, next, s - 1)
        BY <3>1 DEF PartlySent
      <4>1. next - 1 \in Int /\ next - 1 <= n /\ next \in Nat \ {0}
        BY <2>1
      <4>2. s - 1 \in Int /\ s - 1 <= n
        BY <2>1
      <4> QED  BY <1>4, <4>1, <4>2
    <3> QED  BY <2>5, <3>1, <3>2, <3>3, <3>4 DEF Answering
  <2> QED  BY <1>5, <2>2, <2>3, <2>4, <2>5 DEF Answering
<1>6. handler_pc[h] = "request" =>
        \E s \in Nat : parked(h)' = {s} /\ Answering(h, e, s)'
  BY <1>2, <1>3, <1>5 DEF AnswerInv
<1>7. handler_pc[h] = "replay" =>
        \E s \in Nat : parked(h)' = {s} /\ replay_batch'[h] = Span(packets', e, s - 1)
  <2> SUFFICES ASSUME handler_pc[h] = "replay"
               PROVE  \E s \in Nat : /\ parked(h)' = {s}
                                     /\ replay_batch'[h] = Span(packets', e, s - 1)
    OBVIOUS
  <2>1. PICK s \in Nat : parked(h) = {s} /\ replay_batch[h] = Span(packets, e, s - 1)
    BY <1>2 DEF AnswerInv
  <2>2. s \in 1 .. n
    BY <1>1, <2>1
  <2>3. Span(packets', e, s - 1) = Span(packets, e, s - 1)
    BY <1>4, <2>2
  <2> QED  BY <1>3, <2>1, <2>3 DEF SameHandler
<1> QED  BY <1>2, <1>3, <1>6, <1>7 DEF AnswerInv, SameHandler

\* A reply that is being sent lacks its last frame.
LEMMA PartlyIncomplete ==
  ASSUME NEW h, NEW e \in Nat \ {0}, NEW s \in Nat, PartlySent(h, e, s),
         \A i \in e .. s - 1 : packets[i] \in Packet
  PROVE  ~ReplyComplete(h)
<1>1. PICK next \in e .. s - 1 :
        reply[h] = [packet_count |-> s - e, frames |-> Span(packets, e, next - 1)]
  BY DEF PartlySent
<1>2. next - 1 \in Nat /\ e <= (next - 1) + 1 /\ (next - 1) - e + 1 = next - e
      /\ \A i \in e .. next - 1 : i \in e .. s - 1
  OBVIOUS
<1>3. Len(Span(packets, e, next - 1)) = (next - 1) - e + 1
  BY <1>2, SpanIsSeq
<1>4. next - e # s - e
  OBVIOUS
<1> QED  BY <1>1, <1>2, <1>3, <1>4 DEF ReplyComplete

\* The server hangs up on a handler because the exchange is stopping.
LEMMA HungUp ==
  ASSUME NoWrap, IInv, LocalInv, NEW h \in Handlers, AnswerInv(h), SameHandler(h),
         conn'[h] = IF conn[h] = "up" THEN "server_closed" ELSE conn[h],
         request'[h] = request[h], reply'[h] = reply[h],
         conn[h] \in ConnStates, Stopped', ~Busy(h)', UNCHANGED packets
  PROVE  AnswerInv(h)'
<1>1. PICK n \in Nat :
        /\ \A s \in 1 .. n : packets[s] \in Packet
        /\ expected_packet_seq[h] \in 1 .. n + 1
        /\ parked(h) \subseteq 1 .. n
        /\ handler_pc[h] = "request" => \A s \in parked(h) : expected_packet_seq[h] < s
  BY GapFacts
<1>2. PICK e \in Nat \ {0} : e = expected_packet_seq[h] /\ e = expected_packet_seq'[h]
  BY <1>1 DEF SameHandler
<1>3. /\ parked(h)' = parked(h) /\ (ended(h)' <=> ended(h))
      /\ ReplyComplete(h)' <=> ReplyComplete(h)
  BY DEF SameHandler, parked, ended, ReplyComplete
<1>4. ASSUME NEW s \in parked(h), handler_pc[h] = "request", Answering(h, e, s),
             conn[h] # "none", conn[h] # "client_closed", conn[h] \in ConnStates
      PROVE  Answering(h, e, s)'
  <2>1. conn'[h] = "server_closed"
    BY <1>4 DEF ConnStates
  <2>2. CASE Sent(h, e, s)
    BY <2>2 DEF Sent, Answering
  <2>3. CASE ~ReplyComplete(h)
    BY <1>3, <2>1, <2>3 DEF Answering
  <2>4. reply[h] = NoReply => ~ReplyComplete(h)
    BY DEF ReplyComplete
  <2>5. PartlySent(h, e, s) => ~ReplyComplete(h)
    <3>1. s \in 1 .. n
      BY <1>1
    <3>2. \A i \in e .. s - 1 : i \in 1 .. n
      BY <3>1
    <3> QED  BY <1>1, <3>1, <3>2, PartlyIncomplete
  <2>6. LookedUp(h, e, s) \/ AllFound(h, e, s) \/ InSocket(h, e, s) => reply[h] = NoReply
    BY DEF LookedUp, AllFound, InSocket
  <2> QED  BY <1>4, <2>2, <2>3, <2>4, <2>5, <2>6 DEF Answering
<1>5. ASSUME conn[h] \in ConnStates, handler_pc[h] = "request"
      PROVE  conn'[h] # "none" /\ \E s \in Nat : parked(h)' = {s} /\ Answering(h, e, s)'
  <2>1. PICK s \in Nat : parked(h) = {s} /\ Answering(h, e, s)
    BY <1>2, <1>5 DEF AnswerInv
  <2>2. conn[h] # "none" /\ conn[h] # "client_closed"
    BY <1>5 DEF AnswerInv, ended
  <2> QED  BY <1>3, <1>4, <1>5, <2>1, <2>2
<1> QED  BY <1>2, <1>3, <1>5 DEF AnswerInv, SameHandler

\* A handler that has ended asks for nothing any more.
LEMMA EndedAnswer ==
  ASSUME NEW h \in Handlers, handler_pc'[h] \in {"done", "failed", "killed"},
         conn'[h] = "server_closed" => Stopped',
         FewHandlers /\ handler_pc'[h] = "failed" => Stopped'
  PROVE  AnswerInv(h)'
BY DEF AnswerInv, ended

-----------------------------------------------------------------------------
(* Initially.                                                              *)

\* The empty request is one the types allow.
LEMMA NoneInHand == NoRequest \in Request /\ NoRequest.start_seq # 0
BY MaxSeqAssumption DEF NoRequest, Request, SeqNums

\* The initial state satisfies the invariant.
LEMMA RecoveryInitInv == Init => RecoveryInv
<1> SUFFICES ASSUME Init  PROVE RecoveryInv
  OBVIOUS
<1>1. /\ packets = [s \in {} |-> NoReply] /\ listening = TRUE /\ stop_ = FALSE
      /\ server_pc = "loop" /\ serving = NoClient /\ cursor = 0 /\ lookup_end = 0
      /\ found = <<>> /\ backlog = <<>>
      /\ conn = [h \in Handlers |-> "none"]
      /\ request = [h \in Handlers |-> NoRequest]
      /\ reply = [h \in Handlers |-> NoReply]
      /\ handler_pc = [h \in Handlers |-> "recv"]
  BY DEF Init, RecoveryInit, HandlerInit
<1>2. ServerTypes
  <2>1. backlog \in Seq(Handlers) /\ 0 \in SeqNums
    BY <1>1, MaxSeqAssumption DEF SeqNums
  <2>2. packets \in [DOMAIN packets -> Packet] /\ \A s \in DOMAIN packets : parse_packet(packets[s])
    BY <1>1
  <2> QED  BY <1>1, <2>1, <2>2, NoneInHand DEF ServerTypes, InService, ServerPcs, ConnStates
<1>3. ServiceInv
  BY <1>1 DEF ServiceInv, Serves, InService
<1>4. ASSUME NEW h \in Handlers  PROVE AnswerInv(h)
  BY <1>1 DEF AnswerInv, Busy, ended
<1> QED  BY <1>2, <1>3, <1>4 DEF RecoveryInv

-----------------------------------------------------------------------------
(* The handlers.                                                           *)

\* A step of handler h that touches no connection but its own.
OneClient(h) ==
  /\ OnlyHandler(h)
  /\ UNCHANGED <<exchangeVars, packets, listening, stop_, server_pc, serving, found, lookupVars>>
  /\ conn' = [conn EXCEPT ![h] = conn'[h]]
  /\ request' = [request EXCEPT ![h] = request'[h]]
  /\ reply' = [reply EXCEPT ![h] = reply'[h]]

\* Such a step leaves the answers to the others where they are.
LEMMA OtherAnswers ==
  ASSUME NoWrap, IInv, LocalInv, RecoveryInv, NEW h \in Handlers, OneClient(h),
         NEW g \in Handlers, g # h
  PROVE  AnswerInv(g)'
<1>1. /\ handler_pc'[g] = handler_pc[g] /\ expected_packet_seq'[g] = expected_packet_seq[g]
      /\ buffered_packets'[g] = buffered_packets[g] /\ replay_batch'[g] = replay_batch[g]
  BY DEF OneClient, OnlyHandler, IInv, HandlersInv
<1>2. conn'[g] = conn[g] /\ request'[g] = request[g] /\ reply'[g] = reply[g]
  BY DEF OneClient, RecoveryInv, ServerTypes
<1>3. Stopped' <=> Stopped
  BY DEF OneClient, exchangeVars, Stopped
<1>4. /\ UNCHANGED <<serving, server_pc, cursor, lookup_end, found>>
      /\ (Busy(g)' <=> Busy(g))
  BY DEF OneClient, lookupVars, Busy
<1>5. Extends(packets, packets')
  BY DEF OneClient, Extends
<1>6. AnswerInv(g)
  BY DEF RecoveryInv
<1> QED  BY <1>1, <1>2, <1>3, <1>4, <1>5, <1>6, Undisturbed DEF SameHandler

\* What is left to show of a step of one handler: the types of its own
\* connection and where the answer to it is.
LEMMA OneClientStep ==
  ASSUME NoWrap, IInv, LocalInv, RecoveryInv, NEW h \in Handlers, OneClient(h), AnswerInv(h)',
         conn'[h] \in ConnStates, request'[h] \in Request, reply'[h] \in Reply \cup {NoReply},
         Busy(h) => reply'[h] = reply[h],
         conn[h] \in {"up", "client_closed"} => conn'[h] \in {"up", "client_closed"},
         \/ backlog' = backlog
         \/ conn[h] = "none" /\ conn'[h] = "up" /\ backlog' = Append(backlog, h)
  PROVE  RecoveryInv'
<1>1. ServerTypes /\ ServiceInv
  BY DEF RecoveryInv
<1>2. /\ UNCHANGED <<main_pc, packets, listening, stop_, server_pc, serving, found, cursor,
                     lookup_end>>
      /\ conn' = [conn EXCEPT ![h] = conn'[h]]
      /\ request' = [request EXCEPT ![h] = request'[h]]
      /\ reply' = [reply EXCEPT ![h] = reply'[h]]
  BY DEF OneClient, exchangeVars, lookupVars
<1>3. backlog \in Seq(Handlers) /\ backlog' \in Seq(Handlers)
  BY <1>1 DEF ServerTypes
<1>4. ServerTypes'
  <2>1. /\ conn' \in [Handlers -> ConnStates]
        /\ request' \in [Handlers -> Request]
        /\ reply' \in [Handlers -> Reply \cup {NoReply}]
    BY <1>1, <1>2 DEF ServerTypes
  <2> QED  BY <1>1, <1>2, <1>3, <2>1 DEF ServerTypes
<1>5. ASSUME NEW g \in Handlers, conn[g] \in {"up", "client_closed"}
      PROVE  conn'[g] \in {"up", "client_closed"}
  BY <1>1, <1>2, <1>5 DEF ServerTypes
<1>6. \A g : Serves(g)' <=> Serves(g)
  BY <1>2 DEF Serves
<1>7. server_pc' = "frames" => reply'[serving'] \in Reply
  <2> SUFFICES ASSUME server_pc = "frames"  PROVE reply'[serving] \in Reply
    BY <1>2
  <2>1. serving \in Handlers /\ reply[serving] \in Reply
    BY <1>1 DEF ServerTypes, ServiceInv, InService
  <2>2. serving = h => Busy(h)
    BY DEF Busy
  <2> QED  BY <1>1, <1>2, <2>1, <2>2 DEF ServerTypes
<1>8. CASE backlog' = backlog
  <2>1. \A i \in DOMAIN backlog : backlog[i] \in Handlers
    BY <1>3
  <2> QED
    BY <1>1, <1>2, <1>4, <1>5, <1>6, <1>7, <1>8, <2>1, OtherAnswers DEF ServiceInv, RecoveryInv
<1>9. CASE conn[h] = "none" /\ conn'[h] = "up" /\ backlog' = Append(backlog, h)
  <2>1. PICK n \in Nat : n = Len(backlog) /\ DOMAIN backlog = 1 .. n
    BY <1>3
  <2>2. /\ DOMAIN backlog' = 1 .. n + 1 /\ backlog'[n + 1] = h
        /\ \A i \in 1 .. n : backlog'[i] = backlog[i] /\ backlog[i] \in Handlers
    BY <1>3, <1>9, <2>1
  <2>3. \A i \in 1 .. n : backlog[i] # h
    BY <1>1, <1>9, <2>1 DEF ServiceInv
  <2>4. ~Serves(h)
    BY <1>1, <1>9 DEF ServiceInv
  <2>5. \A i, j \in DOMAIN backlog' : backlog'[i] = backlog'[j] => i = j
    <3> SUFFICES ASSUME NEW i \in 1 .. n + 1, NEW j \in 1 .. n + 1, backlog'[i] = backlog'[j]
                 PROVE  i = j
      BY <2>2
    <3>1. CASE i = n + 1 \/ j = n + 1
      BY <2>2, <2>3, <3>1
    <3>2. CASE i \in 1 .. n /\ j \in 1 .. n
      BY <1>1, <2>1, <2>2, <3>2 DEF ServiceInv
    <3> QED  BY <3>1, <3>2
  <2>6. ASSUME NEW i \in DOMAIN backlog'
        PROVE  conn'[backlog'[i]] \in {"up", "client_closed"} /\ ~(serving' = backlog'[i] /\ server_pc' \in InService)
    <3>1. CASE i = n + 1
      BY <1>2, <1>9, <2>2, <2>4, <3>1 DEF Serves
    <3>2. CASE i \in 1 .. n
      BY <1>1, <1>2, <1>5, <2>1, <2>2, <3>2 DEF ServiceInv, Serves
    <3> QED  BY <2>2, <3>1, <3>2
  <2>7. ServiceInv'
    <3>1. \A i \in DOMAIN backlog' : ~Serves(backlog[i])'
      BY <2>6 DEF Serves
    <3> QED  BY <1>1, <1>2, <1>5, <1>6, <1>7, <2>5, <2>6, <3>1 DEF ServiceInv
  <2> QED  BY <1>4, <2>7, OtherAnswers DEF RecoveryInv
<1> QED  BY <1>8, <1>9

\* A handler ends and its connection is closed; where there is room for all, it
\* may fail only if the exchange has stopped.
LEMMA EndStep ==
  ASSUME NoWrap, IInv, LocalInv, RecoveryInv, NEW h \in Handlers, OnlyHandler(h),
         UNCHANGED exchangeVars, close_connection(h),
         NEW pc \in {"done", "failed", "killed"}, Goto(h, pc),
         FewHandlers /\ pc = "failed" => Stopped
  PROVE  RecoveryInv'
<1>1. ServerTypes
  BY DEF RecoveryInv
<1>2. /\ conn' = [conn EXCEPT ![h] = IF @ = "none" THEN "none" ELSE "client_closed"]
      /\ UNCHANGED <<packets, listening, stop_, server_pc, serving, found, lookupVars,
                     backlog, request, reply>>
  BY DEF close_connection
<1>3. conn'[h] = IF conn[h] = "none" THEN "none" ELSE "client_closed"
  BY <1>1, <1>2 DEF ServerTypes
<1>4. handler_pc'[h] = pc
  BY DEF Goto, LocalInv
<1>5. /\ conn' = [conn EXCEPT ![h] = conn'[h]]
      /\ request' = [request EXCEPT ![h] = request'[h]]
      /\ reply' = [reply EXCEPT ![h] = reply'[h]]
  BY <1>1, <1>2, <1>3 DEF ServerTypes
<1>6. OneClient(h)
  BY <1>2, <1>5 DEF OneClient
<1>7. Stopped' <=> Stopped
  BY <1>2 DEF Stopped, exchangeVars
<1>8. AnswerInv(h)'
  BY <1>3, <1>4, <1>7, EndedAnswer
<1>9. /\ conn'[h] \in ConnStates /\ request'[h] \in Request
      /\ reply'[h] \in Reply \cup {NoReply} /\ reply'[h] = reply[h]
      /\ conn[h] \in {"up", "client_closed"} => conn'[h] \in {"up", "client_closed"}
  BY <1>1, <1>2, <1>3 DEF ServerTypes, ConnStates
<1> QED  BY <1>2, <1>6, <1>8, <1>9, OneClientStep

\* A handler at work on its own, its connection idle.
LEMMA IdleStep ==
  ASSUME NoWrap, IInv, LocalInv, RecoveryInv, NEW h \in Handlers, OnlyHandler(h),
         UNCHANGED <<exchangeVars, recoveryVars>>,
         handler_pc[h] \in {"recv", "replay", "drain"},
         handler_pc'[h] \in {"recv", "replay", "drain"},
         handler_pc'[h] = "replay" =>
           \E s \in Nat : /\ parked(h)' = {s}
                          /\ replay_batch'[h] = Span(packets', expected_packet_seq'[h], s - 1)
  PROVE  RecoveryInv'
<1>1. ServerTypes /\ AnswerInv(h)
  BY DEF RecoveryInv
<1>2. UNCHANGED <<packets, listening, stop_, server_pc, serving, found, cursor, lookup_end,
                  backlog, conn, request, reply>>
  BY DEF recoveryVars, lookupVars, socketVars
<1>3. /\ conn' = [conn EXCEPT ![h] = conn'[h]]
      /\ request' = [request EXCEPT ![h] = request'[h]]
      /\ reply' = [reply EXCEPT ![h] = reply'[h]]
  BY <1>1, <1>2 DEF ServerTypes
<1>4. OneClient(h)
  BY <1>2, <1>3 DEF OneClient, lookupVars
<1>5. (Stopped' <=> Stopped) /\ (Busy(h)' <=> Busy(h))
  BY <1>2 DEF Stopped, Busy, exchangeVars
<1>6. AnswerInv(h)'
  BY <1>1, <1>2, <1>5 DEF AnswerInv, ended
<1>7. conn'[h] \in ConnStates /\ request'[h] \in Request /\ reply'[h] \in Reply \cup {NoReply}
  BY <1>1, <1>2 DEF ServerTypes
<1> QED  BY <1>2, <1>4, <1>6, <1>7, OneClientStep

\* A packet of the history.
LEMMA StoredPacket ==
  ASSUME NoWrap, IInv, LocalInv, RecoveryInv
  PROVE  \A s \in DOMAIN packets : /\ packets[s] \in Packet
                                   /\ packets[s].seq_num = s
                                   /\ parse_packet(packets[s])
                                   /\ Genuine(packets, packets[s])
<1>1. PICK n \in Nat : /\ DOMAIN packets = 1 .. n
                       /\ \A s \in 1 .. n : packets[s] \in Packet /\ packets[s].seq_num = s
  BY GapFacts
<1> QED  BY <1>1 DEF RecoveryInv, ServerTypes, Genuine

\* The next packet of a replay is the one the handler expects.
LEMMA ReplayGoesOn ==
  ASSUME NoWrap, IInv, LocalInv, RecoveryInv, NEW h \in Handlers, ProcessReplay(h),
         OnlyHandler(h), UNCHANGED exchangeVars
  PROVE  RecoveryInv'
<1>1. PICK n \in Nat :
        /\ DOMAIN packets = 1 .. n
        /\ \A s \in 1 .. n : packets[s] \in Packet
        /\ expected_packet_seq[h] \in 1 .. n + 1
        /\ parked(h) \subseteq 1 .. n
  BY GapFacts
<1>2. PICK e \in Nat \ {0} : e = expected_packet_seq[h]
  BY <1>1
<1>3. handler_pc[h] = "replay" /\ replay_batch[h] # <<>> /\ ~limit_reached(h)
  BY DEF ProcessReplay
<1>4. PICK s \in Nat : parked(h) = {s} /\ replay_batch[h] = Span(packets, e, s - 1)
  BY <1>2, <1>3 DEF RecoveryInv, AnswerInv
<1>5. e \in 1 .. n /\ s \in 1 .. n /\ e <= s - 1
  <2>1. s \in 1 .. n
    BY <1>1, <1>4
  <2>2. e + Len(replay_batch[h]) = s /\ replay_batch[h] \in Seq(Packet)
    BY <1>2, <1>3, <1>4, HandlerFacts DEF ParkInv, GapAt
  <2>3. Len(replay_batch[h]) >= 1
    BY <1>3, <2>2
  <2> QED  BY <2>1, <2>2, <2>3
<1>6. /\ Head(replay_batch[h]) = packets[e]
      /\ Tail(replay_batch[h]) = Span(packets, e + 1, s - 1)
  <2>1. s - 1 \in Nat /\ e <= s - 1 /\ \A i \in e .. s - 1 : i \in 1 .. n
    BY <1>5
  <2>2. \A i \in e .. s - 1 : packets[i] \in Packet
    BY <1>1, <2>1
  <2>3. /\ Head(Span(packets, e, s - 1)) = packets[e]
        /\ Tail(Span(packets, e, s - 1)) = Span(packets, e + 1, s - 1)
    BY <2>1, <2>2, SpanTail
  <2> QED  BY <1>4, <2>3
<1>7. PICK packet : packet = packets[e]
  OBVIOUS
<1>8. packet.seq_num = e /\ Genuine(packets, packet) /\ Acceptable(h, packet)
  BY <1>1, <1>2, <1>5, <1>7, StoredPacket DEF Acceptable
<1>9. /\ ProcessPacket(h, packet, "replay")
      /\ UNCHANGED <<handler_pc, recoveryVars>>
      /\ replay_batch' = [replay_batch EXCEPT ![h] = Tail(replay_batch[h])]
      /\ UNCHANGED <<limit, buffered_packets>>
  BY <1>6, <1>7, <1>8 DEF ProcessReplay
<1>10. packets' = packets
  BY <1>9 DEF recoveryVars
<1>11. expected_packet_seq'[h] = e + 1
  BY <1>2, <1>3, <1>8, <1>9, <1>10, ProcessKeepsProgress DEF IInv
<1>12. replay_batch'[h] = Span(packets', e + 1, s - 1)
  BY <1>6, <1>9, <1>10 DEF IInv, HandlersInv
<1>13. parked(h)' = {s}
  BY <1>4, <1>9 DEF parked
<1> QED  BY <1>3, <1>9, <1>11, <1>12, <1>13, IdleStep

\* The reply that arrives is all that was asked for.
LEMMA WholeReply ==
  ASSUME NoWrap, IInv, LocalInv, RecoveryInv, NEW h \in Handlers, ReplayArrives(h),
         OnlyHandler(h), UNCHANGED exchangeVars
  PROVE  RecoveryInv'
<1>1. PICK n \in Nat :
        /\ \A s \in 1 .. n : packets[s] \in Packet
        /\ expected_packet_seq[h] \in 1 .. n + 1
        /\ parked(h) \subseteq 1 .. n
        /\ DOMAIN packets = 1 .. n
  BY GapFacts
<1>2. PICK e \in Nat \ {0} : e = expected_packet_seq[h]
  BY <1>1
<1>3. handler_pc[h] = "request" /\ ReplyComplete(h)
  BY DEF ReplayArrives
<1>4. ServerTypes /\ AnswerInv(h)
  BY DEF RecoveryInv
<1>5. PICK s \in Nat : parked(h) = {s} /\ Answering(h, e, s)
  BY <1>2, <1>3, <1>4 DEF AnswerInv
<1>6. Sent(h, e, s)
  <2>1. \A i \in e .. s - 1 : packets[i] \in Packet
    <3>1. s \in 1 .. n
      BY <1>1, <1>5
    <3>2. \A i \in e .. s - 1 : i \in 1 .. n
      BY <3>1
    <3> QED  BY <1>1, <3>2
  <2>2. ~PartlySent(h, e, s)
    BY <1>3, <2>1, PartlyIncomplete
  <2>3. reply[h] # NoReply
    BY <1>3 DEF ReplyComplete
  <2> QED  BY <1>3, <1>5, <2>2, <2>3 DEF Answering, InSocket, LookedUp, AllFound
<1>7. /\ request[h] = NoRequest /\ ~Busy(h)
      /\ reply[h].packet_count = s - e /\ reply[h].frames = Span(packets, e, s - 1)
  BY <1>6 DEF Sent
<1>8. (CHOOSE t \in DOMAIN buffered_packets[h] :
         \A u \in DOMAIN buffered_packets[h] : t <= u) = s
  BY <1>5 DEF parked
<1>9. /\ Goto(h, "replay") /\ TakeReply(h)
      /\ replay_batch' = [replay_batch EXCEPT ![h] = reply[h].frames]
      /\ UNCHANGED <<expected_packet_seq, buffered_packets>>
  BY <1>2, <1>7, <1>8 DEF ReplayArrives
<1>10. /\ UNCHANGED <<packets, listening, stop_, server_pc, serving, found, lookupVars,
                      backlog, conn, request>>
       /\ reply' = [reply EXCEPT ![h] = NoReply]
  BY <1>9 DEF TakeReply
<1>11. /\ handler_pc'[h] = "replay"
       /\ replay_batch'[h] = Span(packets', e, s - 1)
       /\ expected_packet_seq'[h] = e
       /\ parked(h)' = {s}
       /\ reply'[h] = NoReply
       /\ ~Busy(h)'
       /\ Stopped' <=> Stopped
  BY <1>2, <1>4, <1>5, <1>7, <1>9, <1>10
  DEF Goto, LocalInv, IInv, HandlersInv, parked, ServerTypes, Busy, Stopped, exchangeVars
<1>12. /\ conn' = [conn EXCEPT ![h] = conn'[h]]
       /\ request' = [request EXCEPT ![h] = request'[h]]
       /\ reply' = [reply EXCEPT ![h] = reply'[h]]
  BY <1>4, <1>10, <1>11 DEF ServerTypes
<1>13. OneClient(h)
  BY <1>10, <1>12 DEF OneClient
<1>14. AnswerInv(h)'
  BY <1>3, <1>4, <1>7, <1>10, <1>11 DEF AnswerInv, ended
<1>15. conn'[h] \in ConnStates /\ request'[h] \in Request /\ reply'[h] \in Reply \cup {NoReply}
  BY <1>4, <1>10, <1>11 DEF ServerTypes
<1> QED  BY <1>7, <1>10, <1>13, <1>14, <1>15, OneClientStep

\* Nobody waits twice, and one who is not connected does not wait, so there is
\* a place in a queue that holds all.
LEMMA RoomToConnect ==
  ASSUME ServerTypes, ServiceInv, FewHandlers, NEW h \in Handlers, conn[h] = "none"
  PROVE  Len(backlog) < ListenBacklog
<1> DEFINE others == Handlers \ {h}
<1>1. PICK n \in Nat : n = Len(backlog) /\ DOMAIN backlog = 1 .. n
  BY DEF ServerTypes
<1>2. backlog \in [1 .. n -> others]
  <2>1. backlog \in [1 .. n -> Handlers]
    BY <1>1 DEF ServerTypes
  <2>2. \A i \in 1 .. n : backlog[i] # h
    BY <1>1 DEF ServiceInv
  <2> QED  BY <2>1, <2>2
<1>3. /\ IsFiniteSet(others) /\ Cardinality(others) \in Nat
      /\ Cardinality(others) < ListenBacklog
  <2>1. IsFiniteSet(others) /\ Cardinality(others) = Cardinality(Handlers) - 1
    BY FS_RemoveElement DEF FewHandlers
  <2>2. Cardinality(Handlers) \in Nat /\ Cardinality(others) \in Nat
    BY <2>1, FS_CardinalityType DEF FewHandlers
  <2> QED  BY <2>1, <2>2, ListenAssumption DEF FewHandlers
<1> HIDE DEF others
<1>4. SUFFICES ASSUME Cardinality(others) < n  PROVE FALSE
  BY <1>1, <1>3, ListenAssumption
<1>5. IsFiniteSet(1 .. n) /\ Cardinality(1 .. n) = n
  BY FS_Interval
<1>6. \E i, j \in 1 .. n : i # j /\ backlog[i] = backlog[j]
  BY <1>2, <1>3, <1>4, <1>5, FS_PigeonHole
<1> QED  BY <1>1, <1>6 DEF ServiceInv

\* A gap is asked for while its packets are in the history, and where there is
\* room for all asking fails only because the exchange has stopped.
LEMMA RequestGoesOut ==
  ASSUME NoWrap, IInv, LocalInv, RecoveryInv, NEW h \in Handlers, BufferAndRequest(h),
         OnlyHandler(h), UNCHANGED exchangeVars
  PROVE  RecoveryInv'
<1>1. PICK n \in Nat : /\ n = Stored /\ n < MaxSeq
                       /\ expected_packet_seq[h] \in 1 .. n + 1
  BY GapFacts
<1>2. PICK e \in Nat \ {0} : e = expected_packet_seq[h] /\ e = expected_packet_seq'[h]
  BY <1>1 DEF BufferAndRequest
<1>3. handler_pc[h] = "recv" /\ expected_packet_seq' = expected_packet_seq
  BY DEF BufferAndRequest
<1>4. ServerTypes /\ ServiceInv /\ AnswerInv(h)
  BY DEF RecoveryInv
<1>5. PICK s \in 1 .. n :
        /\ e < s
        /\ parked(h)' = {s}
        /\ \/ Unreachable(h) /\ Goto(h, "failed") /\ close_connection(h)
           \/ ~Unreachable(h) /\ Goto(h, "request") /\ SendRequest(h, e, s - 1)
  BY <1>1, <1>2, GapLocal
<1>6. CASE Unreachable(h) /\ Goto(h, "failed") /\ close_connection(h)
  <2>1. FewHandlers => Stopped
    <3>1. FewHandlers /\ conn[h] = "none" => ~listening
      <4>1. Len(backlog) \in Nat
        BY <1>4 DEF ServerTypes
      <4> QED  BY <1>4, <1>6, <4>1, RoomToConnect, ListenAssumption DEF Unreachable
    <3> QED  BY <1>4, <1>6, <3>1 DEF Unreachable, ServiceInv, AnswerInv, Stopped
  <2> QED  BY <1>6, <2>1, EndStep
<1>7. CASE ~Unreachable(h) /\ Goto(h, "request") /\ SendRequest(h, e, s - 1)
  <2>1. /\ conn' = [conn EXCEPT ![h] = "up"]
        /\ backlog' = IF conn[h] = "none" THEN Append(backlog, h) ELSE backlog
        /\ request' = [request EXCEPT ![h] = [start_seq |-> e, end_seq |-> s - 1]]
        /\ UNCHANGED <<packets, listening, stop_, server_pc, serving, found, lookupVars, reply>>
    BY <1>7 DEF SendRequest
  <2>2. /\ conn'[h] = "up" /\ reply'[h] = NoReply
        /\ request'[h] = [start_seq |-> e, end_seq |-> s - 1]
        /\ handler_pc'[h] = "request"
    BY <1>3, <1>4, <1>7, <2>1 DEF AnswerInv, ServerTypes, Goto, LocalInv
  <2>3. ~Busy(h)
    BY <1>3, <1>4 DEF AnswerInv
  <2>4. OneClient(h)
    BY <1>4, <2>1, <2>2 DEF OneClient, ServerTypes
  <2>5. Answering(h, e, s)'
    <3>1. ~Busy(h)'
      BY <2>1, <2>3 DEF Busy
    <3> QED  BY <2>2, <3>1 DEF Answering, InSocket
  <2>6. \E t \in Nat : parked(h)' = {t} /\ Answering(h, e, t)'
    BY <1>5, <2>5
  <2>7. AnswerInv(h)'
    BY <1>2, <2>2, <2>6 DEF AnswerInv, ended
  <2>8. [start_seq |-> e, end_seq |-> s - 1] \in Request
    <3>1. e \in SeqNums /\ s - 1 \in SeqNums
      BY <1>1, <1>5, MaxSeqAssumption DEF SeqNums
    <3> QED  BY <3>1 DEF Request
  <2>9. /\ conn'[h] \in ConnStates /\ request'[h] \in Request
        /\ reply'[h] \in Reply \cup {NoReply}
    BY <2>2, <2>8 DEF ConnStates
  <2> QED  BY <2>1, <2>2, <2>3, <2>4, <2>7, <2>9, OneClientStep
<1> QED  BY <1>5, <1>6, <1>7

\* Every step of a handler.
LEMMA HandlersRecovery ==
  ASSUME NoWrap, IInv, LocalInv, RecoveryInv, HandlersStep
  PROVE  RecoveryInv'
<1>1. PICK h \in Handlers : HandlerStep(h) \/ Receive(h) \/ HandlerKilled(h)
  BY DEF HandlersStep
<1>2. UNCHANGED exchangeVars
  BY DEF HandlersStep
<1>3. OnlyHandler(h)
  BY <1>1, <1>2, ReceiveInv, HandlerStepInv DEF Forward
<1>4. RecoveryInv /\ AnswerInv(h) /\ handler_pc = [g \in Handlers |-> handler_pc[g]]
  BY DEF RecoveryInv, LocalInv
<1>5. CASE ProcessReplay(h)
  BY <1>2, <1>3, <1>5, ReplayGoesOn
<1>6. CASE ReplayArrives(h)
  BY <1>2, <1>3, <1>6, WholeReply
<1>7. CASE BufferAndRequest(h)
  BY <1>2, <1>3, <1>7, RequestGoesOut
<1>8. CASE ReplyEof(h)
  <2>1. Goto(h, "failed") /\ close_connection(h) /\ Stopped
    BY <1>4, <1>8 DEF ReplyEof, AnswerInv
  <2> QED  BY <1>2, <1>3, <2>1, EndStep
<1>9. CASE LimitReached(h)
  <2>1. Goto(h, "done") /\ close_connection(h)
    BY <1>9 DEF LimitReached
  <2> QED  BY <1>2, <1>3, <2>1, EndStep
<1>10. CASE HandlerKilled(h)
  <2>1. Goto(h, "killed") /\ close_connection(h)
    BY <1>10 DEF HandlerKilled
  <2> QED  BY <1>2, <1>3, <2>1, EndStep
<1>11. CASE Discard(h)
  <2>1. /\ UNCHANGED <<recoveryVars, handler_pc>> /\ handler_pc[h] = "recv"
    BY <1>11 DEF Discard, handlerVars
  <2> QED  BY <1>2, <1>3, <2>1, IdleStep
<1>12. CASE ProcessLive(h) \/ ReplayOver(h) \/ ProcessDrain(h) \/ DrainOver(h)
  <2>1. /\ UNCHANGED recoveryVars
        /\ handler_pc[h] \in {"recv", "replay", "drain"}
        /\ handler_pc'[h] \in {"recv", "drain"}
    BY <1>4, <1>12 DEF ProcessLive, ReplayOver, ProcessDrain, DrainOver, Goto
  <2> QED  BY <1>2, <1>3, <2>1, IdleStep
<1> QED
  BY <1>1, <1>5, <1>6, <1>7, <1>8, <1>9, <1>10, <1>11, <1>12 DEF HandlerStep, Receive

-----------------------------------------------------------------------------
(* The exchange.                                                           *)

\* A step of the publisher that leaves the recovery server alone, but for the
\* packet it stores and the flag it stops the thread with.
LEMMA PublisherStep ==
  ASSUME NoWrap, IInv, LocalInv, RecoveryInv,
         UNCHANGED <<handlerVars, listening, server_pc, serving, found, lookupVars, socketVars>>,
         main_pc # "exited", stop_' \in BOOLEAN, stop_ => stop_',
         Extends(packets, packets'), packets' \in [DOMAIN packets' -> Packet],
         \A s \in DOMAIN packets' : parse_packet(packets'[s])
  PROVE  RecoveryInv'
<1>1. ServerTypes /\ ServiceInv
  BY DEF RecoveryInv
<1>2. UNCHANGED <<listening, server_pc, serving, found, cursor, lookup_end, backlog, conn,
                  request, reply>>
  BY DEF lookupVars, socketVars
<1>3. ServerTypes'
  BY <1>1, <1>2 DEF ServerTypes
<1>4. \A g : (Serves(g)' <=> Serves(g)) /\ (Busy(g)' <=> Busy(g))
  BY <1>2 DEF Serves, Busy
<1>5. ServiceInv'
  BY <1>1, <1>2, <1>4 DEF ServiceInv
<1>6. ASSUME NEW h \in Handlers  PROVE AnswerInv(h)'
  <2>1. AnswerInv(h) /\ SameHandler(h)
    BY DEF RecoveryInv, SameHandler, handlerVars
  <2>2. Stopped => Stopped'
    BY DEF Stopped
  <2> QED  BY <1>2, <1>4, <2>1, <2>2, Undisturbed
<1> QED  BY <1>3, <1>5, <1>6 DEF RecoveryInv

\* What is stored is a whole packet, and nothing stored is overwritten.
LEMMA StoreRecovery ==
  ASSUME NoWrap, IInv, LocalInv, RecoveryInv, StorePacket, UNCHANGED handlerVars
  PROVE  RecoveryInv'
<1>1. /\ main_pc = "store"
      /\ packets' = [s \in DOMAIN packets \cup {packet_sequence} |->
                       IF s = packet_sequence THEN packet_buffer ELSE packets[s]]
      /\ UNCHANGED <<listening, stop_, server_pc, serving, found, lookupVars, socketVars>>
  BY DEF StorePacket, store
<1>2. HistoryInv /\ ServerTypes
  BY DEF IInv, RecoveryInv
<1>3. packet_sequence \notin DOMAIN packets
  <2>1. DOMAIN packets = 1 .. Stored /\ Stored = packet_sequence - 1
        /\ packet_sequence \in Nat \ {0}
    BY <1>1, <1>2 DEF HistoryInv, Stored
  <2> QED  BY <2>1
<1>4. packet_buffer \in Packet
  BY <1>1, <1>2, BufferFacts DEF HistoryInv
<1>5. parse_packet(packet_buffer)
  <2>1. packet_buffer.msg_count \in Nat
        /\ packet_buffer.size = packet_size_bytes(packet_buffer.msg_count)
    BY <1>4 DEF Packet, packet_buffer, serialize_packet
  <2> QED  BY <2>1 DEF parse_packet, packet_size_bytes, PacketHeaderSize, kFixedMessageSize
<1>6. Extends(packets, packets')
  BY <1>1, <1>3 DEF Extends
<1>7. /\ packets' \in [DOMAIN packets' -> Packet]
      /\ \A s \in DOMAIN packets' : parse_packet(packets'[s])
  <2>1. \A s \in DOMAIN packets : packets[s] \in Packet /\ parse_packet(packets[s])
    BY <1>2 DEF ServerTypes
  <2>2. DOMAIN packets' = DOMAIN packets \cup {packet_sequence}
    BY <1>1
  <2>3. \A s \in DOMAIN packets' : packets'[s] \in Packet /\ parse_packet(packets'[s])
    BY <1>1, <1>4, <1>5, <2>1, <2>2
  <2>4. packets' = [s \in DOMAIN packets' |-> packets'[s]]
    BY <1>1, <2>2
  <2> QED  BY <2>3, <2>4
<1>8. stop_' \in BOOLEAN
  BY <1>1, <1>2 DEF ServerTypes
<1> QED  BY <1>1, <1>6, <1>7, <1>8, PublisherStep

\* The exchange ends: the server hangs up on everybody it was connected to.
LEMMA GoneRecovery ==
  ASSUME NoWrap, IInv, LocalInv, RecoveryInv, ServerGone, main_pc' = "exited",
         UNCHANGED handlerVars
  PROVE  RecoveryInv'
<1>1. ServerTypes /\ ServiceInv
  BY DEF RecoveryInv
<1>2. /\ listening' = FALSE /\ server_pc' = "exited" /\ serving' = NoClient
      /\ cursor' = 0 /\ lookup_end' = 0 /\ found' = <<>> /\ backlog' = <<>>
      /\ conn' = [h \in Handlers |-> IF conn[h] = "up" THEN "server_closed" ELSE conn[h]]
      /\ UNCHANGED <<packets, stop_, request, reply>>
  BY DEF ServerGone
<1>3. ServerTypes'
  <2>1. conn' \in [Handlers -> ConnStates]
    BY <1>1, <1>2 DEF ServerTypes, ConnStates
  <2>2. 0 \in SeqNums /\ <<>> \in Seq(Handlers)
    BY MaxSeqAssumption DEF SeqNums
  <2> QED  BY <1>1, <1>2, <2>1, <2>2 DEF ServerTypes, ServerPcs, InService
<1>4. ServiceInv'
  BY <1>2 DEF ServiceInv, Serves, InService
<1>5. ASSUME NEW h \in Handlers  PROVE AnswerInv(h)'
  <2>1. AnswerInv(h) /\ SameHandler(h)
    BY DEF RecoveryInv, SameHandler, handlerVars
  <2>2. Stopped' /\ ~Busy(h)' /\ conn[h] \in ConnStates
    BY <1>1, <1>2 DEF Stopped, Busy, ServerTypes
  <2> QED  BY <1>2, <2>1, <2>2, HungUp
<1> QED  BY <1>3, <1>4, <1>5 DEF RecoveryInv

\* Every step of the exchange.
LEMMA ExchangeRecovery ==
  ASSUME NoWrap, IInv, LocalInv, RecoveryInv, ExchangeStep
  PROVE  RecoveryInv'
<1>1. UNCHANGED handlerVars
  BY DEF ExchangeStep
<1>2. CASE StorePacket
  BY <1>1, <1>2, StoreRecovery
<1>3. CASE SendPacket \/ SendThrows \/ GraceOver
  <2>1. /\ UNCHANGED <<packets, listening, server_pc, serving, found, lookupVars, socketVars>>
        /\ main_pc # "exited"
        /\ stop_' = stop_ \/ stop_' = TRUE
    BY <1>3 DEF SendPacket, SendThrows, GraceOver, recoveryVars
  <2>2. ServerTypes /\ Extends(packets, packets')
    BY <2>1 DEF RecoveryInv, Extends
  <2> QED  BY <1>1, <2>1, <2>2, PublisherStep DEF ServerTypes
<1>4. CASE JoinReturns \/ ExchangeKilled
  BY <1>1, <1>4, GoneRecovery DEF JoinReturns, ExchangeKilled
<1> QED  BY <1>2, <1>3, <1>4 DEF ExchangeStep, Publisher

-----------------------------------------------------------------------------
(* The recovery server.                                                    *)

\* A step of the server that is at work on the request of another.
LEMMA OtherClients ==
  ASSUME NoWrap, IInv, LocalInv, RecoveryInv, UNCHANGED <<main_pc, stop_, handlerVars, packets>>,
         NEW g \in Handlers, ~Busy(g), ~Busy(g)',
         conn'[g] = conn[g], request'[g] = request[g], reply'[g] = reply[g]
  PROVE  AnswerInv(g)'
<1>1. AnswerInv(g) /\ SameHandler(g)
  BY DEF RecoveryInv, SameHandler, handlerVars
<1>2. (Stopped => Stopped') /\ Extends(packets, packets')
  BY DEF Stopped, Extends
<1> QED  BY <1>1, <1>2, Undisturbed

\* A handler that has ended asks nothing of the server that still serves it.
LEMMA EndedClient ==
  ASSUME RecoveryInv, UNCHANGED <<main_pc, stop_, handlerVars>>,
         NEW h \in Handlers, ended(h), conn'[h] = conn[h]
  PROVE  AnswerInv(h)'
<1>1. handler_pc'[h] \in {"done", "failed", "killed"} /\ handler_pc'[h] = handler_pc[h]
  BY DEF ended, handlerVars
<1>2. AnswerInv(h) /\ (Stopped' <=> Stopped)
  BY DEF RecoveryInv, Stopped
<1> QED  BY <1>1, <1>2, EndedAnswer DEF AnswerInv

\* What the server is at work on is what a waiting handler asked for, and it
\* is in the history.
LEMMA AtWork ==
  ASSUME NoWrap, IInv, LocalInv, RecoveryInv, NEW h \in Handlers, Serves(h), ~ended(h),
         Busy(h) \/ request[h] # NoRequest
  PROVE  /\ handler_pc[h] = "request"
         /\ \E n \in Nat, e \in Nat \ {0}, s \in Nat :
              /\ n < MaxSeq
              /\ DOMAIN packets = 1 .. n
              /\ \A i \in 1 .. n : packets[i] \in Packet
              /\ e = expected_packet_seq[h]
              /\ e < s /\ s <= n
              /\ parked(h) = {s}
              /\ \/ ~Busy(h) /\ InSocket(h, e, s)
                 \/ Busy(h) /\ request[h] = NoRequest
                    /\ (LookedUp(h, e, s) \/ AllFound(h, e, s) \/ PartlySent(h, e, s))
<1>1. AnswerInv(h) /\ conn[h] \in {"up", "client_closed"}
  BY DEF RecoveryInv, ServiceInv
<1>2. PICK n \in Nat :
        /\ n < MaxSeq
        /\ DOMAIN packets = 1 .. n
        /\ \A i \in 1 .. n : packets[i] \in Packet
        /\ expected_packet_seq[h] \in 1 .. n + 1
        /\ parked(h) \subseteq 1 .. n
        /\ handler_pc[h] \in HandlerPcs
        /\ handler_pc[h] = "request" => \A s \in parked(h) : expected_packet_seq[h] < s
  BY GapFacts
<1>3. handler_pc[h] = "request"
  BY <1>1, <1>2 DEF AnswerInv, ended, HandlerPcs
<1>4. PICK e \in Nat \ {0} : e = expected_packet_seq[h]
  BY <1>2
<1>5. PICK s \in Nat : parked(h) = {s} /\ Answering(h, e, s)
  BY <1>1, <1>3, <1>4 DEF AnswerInv
<1>6. e < s /\ s <= n
  BY <1>2, <1>3, <1>4, <1>5
<1>7. \/ ~Busy(h) /\ InSocket(h, e, s)
      \/ Busy(h) /\ request[h] = NoRequest
         /\ (LookedUp(h, e, s) \/ AllFound(h, e, s) \/ PartlySent(h, e, s))
  BY <1>1, <1>5 DEF Answering, InSocket, Sent, LookedUp, AllFound, PartlySent, Busy
<1> QED  BY <1>2, <1>3, <1>4, <1>5, <1>6, <1>7

\* The answer to a waiting handler has moved on.
LEMMA StillAnswering ==
  ASSUME LocalInv, RecoveryInv, UNCHANGED <<main_pc, stop_, handlerVars>>,
         NEW h \in Handlers, handler_pc[h] = "request", conn'[h] = conn[h],
         NEW e, e = expected_packet_seq[h],
         NEW s \in Nat, parked(h) = {s}, Answering(h, e, s)'
  PROVE  AnswerInv(h)'
<1>1. /\ handler_pc' = handler_pc /\ expected_packet_seq' = expected_packet_seq
      /\ parked(h)' = {s}
  BY DEF handlerVars, parked
<1>2. AnswerInv(h) /\ (Stopped' <=> Stopped)
  BY DEF RecoveryInv, Stopped
<1> QED  BY <1>1, <1>2 DEF AnswerInv, ended

\* Between connections.
LEMMA LoopRecovery ==
  ASSUME NoWrap, IInv, LocalInv, RecoveryInv, UNCHANGED <<main_pc, handlerVars>>,
         CheckStop \/ PollTimeout \/ PollFails \/ CheckServe
  PROVE  RecoveryInv'
<1>1. ServerTypes /\ ServiceInv
  BY DEF RecoveryInv
<1>2. /\ UNCHANGED <<packets, listening, stop_, serving, found, cursor, lookup_end, backlog,
                     conn, request, reply>>
      /\ \/ server_pc \in {"loop", "poll"} /\ server_pc' \in {"loop", "poll", "exited"}
         \/ server_pc = "check" /\ server_pc' = "recv"
  BY DEF CheckStop, PollTimeout, PollFails, CheckServe, lookupVars, socketVars
<1>3. ServerTypes'
  BY <1>1, <1>2 DEF ServerTypes, ServerPcs, InService
<1>4. \A g : Serves(g)' => Serves(g)
  BY <1>2 DEF Serves, InService
<1>5. ServiceInv'
  BY <1>1, <1>2, <1>4 DEF ServiceInv
<1>6. ASSUME NEW h \in Handlers  PROVE AnswerInv(h)'
  BY <1>2, OtherClients DEF Busy
<1> QED  BY <1>3, <1>5, <1>6 DEF RecoveryInv

\* A connection is taken from the backlog.
LEMMA AcceptRecovery ==
  ASSUME NoWrap, IInv, LocalInv, RecoveryInv, UNCHANGED <<main_pc, handlerVars>>, Accept
  PROVE  RecoveryInv'
<1>1. ServerTypes /\ ServiceInv
  BY DEF RecoveryInv
<1>2. /\ server_pc = "poll" /\ server_pc' = "check"
      /\ backlog # <<>> /\ serving' = Head(backlog) /\ backlog' = Tail(backlog)
      /\ UNCHANGED <<packets, listening, stop_, found, cursor, lookup_end, conn, request, reply>>
  BY DEF Accept, lookupVars
<1>3. PICK n \in Nat : n = Len(backlog) /\ DOMAIN backlog = 1 .. n /\ n >= 1
  <2>1. backlog \in Seq(Handlers)
    BY <1>1 DEF ServerTypes
  <2>2. Len(backlog) \in Nat /\ DOMAIN backlog = 1 .. Len(backlog)
    BY <2>1
  <2>3. Len(backlog) >= 1
    BY <1>2, <2>1
  <2> QED  BY <2>2, <2>3, Zenon
<1>4. /\ backlog' \in Seq(Handlers) /\ DOMAIN backlog' = 1 .. n - 1
      /\ \A i \in 1 .. n - 1 : backlog'[i] = backlog[i + 1]
      /\ serving' = backlog[1] /\ backlog[1] \in Handlers
  BY <1>1, <1>2, <1>3 DEF ServerTypes
<1>5. ServerTypes'
  BY <1>1, <1>2, <1>4 DEF ServerTypes, ServerPcs
<1>6. \A i \in 1 .. n - 1 : i + 1 \in 1 .. n /\ i + 1 # 1
  OBVIOUS
<1>7. \A i, j \in DOMAIN backlog' : backlog'[i] = backlog'[j] => i = j
  <2> SUFFICES ASSUME NEW i \in 1 .. n - 1, NEW j \in 1 .. n - 1, backlog'[i] = backlog'[j]
               PROVE  i = j
    BY <1>4
  <2>1. i + 1 = j + 1
    BY <1>1, <1>3, <1>4, <1>6 DEF ServiceInv
  <2> QED  BY <2>1
<1>8. \A i \in DOMAIN backlog' : /\ conn'[backlog'[i]] \in {"up", "client_closed"}
                                 /\ backlog'[i] # serving'
  <2> SUFFICES ASSUME NEW i \in 1 .. n - 1
               PROVE  /\ conn[backlog'[i]] \in {"up", "client_closed"}
                      /\ backlog'[i] # serving'
    BY <1>2, <1>4
  <2>1. conn[backlog[i + 1]] \in {"up", "client_closed"} /\ backlog[i + 1] # backlog[1]
    BY <1>1, <1>3, <1>6 DEF ServiceInv
  <2> QED  BY <1>4, <2>1
<1>9. \A h \in Handlers : Serves(h)' => conn'[h] \in {"up", "client_closed"}
  <2>1. 1 \in DOMAIN backlog
    BY <1>3
  <2> QED  BY <1>1, <1>2, <1>4, <2>1 DEF Serves, ServiceInv
<1>10. \A i \in DOMAIN backlog' : ~Serves(backlog[i])'
  BY <1>8 DEF Serves
<1>11. ServiceInv'
  BY <1>1, <1>2, <1>7, <1>8, <1>9, <1>10 DEF ServiceInv
<1>12. ASSUME NEW h \in Handlers  PROVE AnswerInv(h)'
  BY <1>2, OtherClients DEF Busy
<1> QED  BY <1>5, <1>11, <1>12 DEF RecoveryInv

\* The server closes a connection because it is stopping or the client is gone.
LEMMA CloseRecovery ==
  ASSUME NoWrap, IInv, LocalInv, RecoveryInv, UNCHANGED <<main_pc, handlerVars>>,
         CheckServeStopped \/ RecvEof \/ SendFails
  PROVE  RecoveryInv'
<1>1. ServerTypes /\ ServiceInv
  BY DEF RecoveryInv
<1>2. /\ server_pc \in InService /\ serving \in Handlers /\ Serves(serving)
      /\ CloseClient
      /\ Stopped \/ conn[serving] = "client_closed"
  BY <1>1 DEF CheckServeStopped, RecvEof, SendFails, InService, ServerTypes, Serves, Stopped
<1>3. /\ conn' = [conn EXCEPT ![serving] = IF @ = "up" THEN "server_closed" ELSE @]
      /\ serving' = NoClient /\ found' = <<>> /\ server_pc' = "loop"
      /\ UNCHANGED <<packets, listening, stop_, cursor, lookup_end, backlog, request, reply>>
  BY <1>2 DEF CloseClient, lookupVars
<1>4. ServerTypes'
  BY <1>1, <1>3 DEF ServerTypes, ServerPcs, InService, ConnStates
<1>5. \A g : ~Serves(g)' /\ ~Busy(g)'
  BY <1>3 DEF Serves, Busy, InService
<1>6. \A i \in DOMAIN backlog : conn'[backlog[i]] = conn[backlog[i]]
  <2>1. \A i \in DOMAIN backlog : backlog[i] # serving /\ backlog[i] \in Handlers
    BY <1>1, <1>2 DEF ServiceInv, ServerTypes
  <2> QED  BY <1>1, <1>3, <2>1 DEF ServerTypes
<1>7. ServiceInv'
  BY <1>1, <1>3, <1>5, <1>6 DEF ServiceInv
<1>8. ASSUME NEW h \in Handlers, h # serving  PROVE AnswerInv(h)'
  BY <1>1, <1>3, <1>5, <1>8, OtherClients DEF Busy, ServerTypes
<1>9. ASSUME NEW g \in Handlers, g = serving  PROVE AnswerInv(g)'
  <2>1. conn'[g] = IF conn[g] = "up" THEN "server_closed" ELSE conn[g]
    BY <1>1, <1>3, <1>9 DEF ServerTypes
  <2>2. AnswerInv(g) /\ SameHandler(g) /\ conn[g] \in ConnStates
    BY <1>1 DEF RecoveryInv, ServerTypes, SameHandler, handlerVars
  <2>3. CASE Stopped
    BY <1>3, <1>5, <2>1, <2>2, <2>3, HungUp DEF Stopped
  <2>4. CASE conn[g] = "client_closed"
    <3>1. ended(g) /\ conn'[g] = conn[g]
      BY <2>1, <2>2, <2>4 DEF AnswerInv
    <3> QED  BY <1>3, <3>1, EndedClient
  <2> QED  BY <1>2, <1>9, <2>3, <2>4
<1> QED  BY <1>4, <1>7, <1>8, <1>9 DEF RecoveryInv

\* A step of the server on behalf of the client it serves.
AtService ==
  /\ server_pc \in InService /\ server_pc' \in {"check", "lookup", "count", "frames"}
  /\ UNCHANGED <<main_pc, handlerVars, packets, listening, stop_, serving, backlog, conn>>
  /\ request' = [request EXCEPT ![serving] = request'[serving]]
  /\ reply' = [reply EXCEPT ![serving] = reply'[serving]]

\* What is left to show of such a step: types, that nothing is left in hand at
\* its end, and where the answer to that client is, if it still waits for it.
LEMMA ServiceStep ==
  ASSUME NoWrap, IInv, LocalInv, RecoveryInv, AtService,
         cursor' \in SeqNums, lookup_end' \in SeqNums,
         request'[serving] \in Request, reply'[serving] \in Reply \cup {NoReply},
         server_pc' = "check" => found' = <<>>,
         server_pc' = "frames" => reply'[serving] \in Reply,
         ASSUME NEW h \in Handlers, h = serving, ~ended(h)  PROVE AnswerInv(h)'
  PROVE  RecoveryInv'
<1>1. ServerTypes /\ ServiceInv
  BY DEF RecoveryInv
<1>2. /\ server_pc \in InService /\ server_pc' \in {"check", "lookup", "count", "frames"}
      /\ UNCHANGED <<main_pc, packets, listening, stop_, serving, backlog, conn>>
      /\ request' = [request EXCEPT ![serving] = request'[serving]]
      /\ reply' = [reply EXCEPT ![serving] = reply'[serving]]
      /\ serving \in Handlers
  BY <1>1 DEF AtService, ServerTypes
<1>3. ServerTypes'
  <2>1. request' \in [Handlers -> Request] /\ reply' \in [Handlers -> Reply \cup {NoReply}]
    BY <1>1, <1>2 DEF ServerTypes
  <2> QED  BY <1>1, <1>2, <2>1 DEF ServerTypes, ServerPcs
<1>4. \A g : Serves(g)' <=> Serves(g)
  BY <1>2 DEF Serves, InService
<1>5. ServiceInv'
  BY <1>1, <1>2, <1>4 DEF ServiceInv
<1>6. ASSUME NEW h \in Handlers  PROVE AnswerInv(h)'
  <2>1. CASE h # serving
    <3>1. conn'[h] = conn[h] /\ request'[h] = request[h] /\ reply'[h] = reply[h]
      BY <1>1, <1>2, <2>1 DEF ServerTypes
    <3>2. ~Busy(h) /\ ~Busy(h)'
      BY <1>2, <2>1 DEF Busy
    <3>3. UNCHANGED <<main_pc, stop_, handlerVars, packets>>
      BY DEF AtService
    <3> QED  BY <3>1, <3>2, <3>3, OtherClients
  <2>2. CASE h = serving /\ ended(h)
    <3>1. UNCHANGED <<main_pc, stop_, handlerVars>> /\ conn'[h] = conn[h]
      BY DEF AtService
    <3> QED  BY <2>2, <3>1, EndedClient
  <2> QED  BY <2>1, <2>2
<1> QED  BY <1>3, <1>5, <1>6 DEF RecoveryInv

\* A request is taken from the socket and the look-up begins at its first packet.
LEMMA RecvRecovery ==
  ASSUME NoWrap, IInv, LocalInv, RecoveryInv, UNCHANGED <<main_pc, handlerVars>>, RecvRequest
  PROVE  RecoveryInv'
<1>1. ServerTypes /\ ServiceInv
  BY DEF RecoveryInv
<1>2. /\ server_pc = "recv" /\ request[serving] # NoRequest
      /\ cursor' = request[serving].start_seq /\ lookup_end' = request[serving].end_seq
      /\ server_pc' = IF cursor' > lookup_end' THEN "count" ELSE "lookup"
      /\ request' = [request EXCEPT ![serving] = NoRequest]
      /\ UNCHANGED <<packets, listening, stop_, serving, found, backlog, conn, reply>>
  BY DEF RecvRequest
<1>3. serving \in Handlers /\ Serves(serving) /\ ~Busy(serving) /\ found = <<>>
  BY <1>1, <1>2 DEF ServerTypes, ServiceInv, Serves, Busy, InService
<1>4. request'[serving] = NoRequest /\ reply'[serving] = reply[serving]
  BY <1>1, <1>2, <1>3 DEF ServerTypes
<1>5. AtService
  BY <1>1, <1>2, <1>4 DEF AtService, InService, ServerTypes
<1>6. cursor' \in SeqNums /\ lookup_end' \in SeqNums
  BY <1>1, <1>2, <1>3 DEF ServerTypes, Request
<1>7. ASSUME NEW h \in Handlers, h = serving, ~ended(h)  PROVE AnswerInv(h)'
  <2>1. PICK e \in Nat \ {0}, s \in Nat :
          /\ handler_pc[h] = "request"
          /\ e = expected_packet_seq[h] /\ e < s /\ parked(h) = {s}
          /\ InSocket(h, e, s)
    BY <1>2, <1>3, <1>7, AtWork
  <2>2. cursor' = e /\ lookup_end' = s - 1 /\ server_pc' = "lookup"
    BY <1>2, <1>7, <2>1 DEF InSocket
  <2>3. e \in e .. s - 1
    BY <2>1
  <2>4. LookedUp(h, e, s)'
    <3>1. found' = Span(packets', e, cursor' - 1)
      BY <1>2, <1>3, <2>2, SpanEmpty
    <3> QED  BY <1>2, <2>1, <2>2, <2>3, <3>1 DEF LookedUp, InSocket
  <2>5. Answering(h, e, s)'
    BY <1>2, <1>4, <1>7, <2>4 DEF Answering
  <2> QED  BY <1>2, <2>1, <2>5, StillAnswering
<1>8. request'[serving] \in Request /\ reply'[serving] \in Reply \cup {NoReply}
  BY <1>1, <1>3, <1>4, NoneInHand DEF ServerTypes
<1> QED  BY <1>2, <1>5, <1>6, <1>7, <1>8, ServiceStep

\* Every packet of a gap is found, and none is looked up twice.
LEMMA LookupRecovery ==
  ASSUME NoWrap, IInv, LocalInv, RecoveryInv, UNCHANGED <<main_pc, handlerVars>>, LookupStep
  PROVE  RecoveryInv'
<1>1. ServerTypes /\ ServiceInv
  BY DEF RecoveryInv
<1>2. PICK last \in BOOLEAN :
        /\ last <=> (cursor = MaxSeq \/ cursor + 1 > lookup_end)
        /\ server_pc = "lookup"
        /\ found' = IF cursor \in DOMAIN packets THEN Append(found, packets[cursor]) ELSE found
        /\ server_pc' = IF last THEN "count" ELSE "lookup"
        /\ cursor' = IF last THEN 0 ELSE cursor + 1
        /\ lookup_end' = IF last THEN 0 ELSE lookup_end
        /\ UNCHANGED <<packets, listening, stop_, serving, backlog, conn, request, reply>>
  BY DEF LookupStep, LookupTurn, socketVars
<1>3. serving \in Handlers /\ Serves(serving) /\ Busy(serving)
  BY <1>1, <1>2 DEF ServerTypes, Serves, Busy, InService
<1>4. AtService
  BY <1>1, <1>2 DEF AtService, InService, ServerTypes
<1>5. cursor' \in SeqNums /\ lookup_end' \in SeqNums
  BY <1>1, <1>2, MaxSeqAssumption DEF ServerTypes, SeqNums
<1>6. ASSUME NEW h \in Handlers, h = serving, ~ended(h)  PROVE AnswerInv(h)'
  <2>1. PICK n \in Nat, e \in Nat \ {0}, s \in Nat :
          /\ handler_pc[h] = "request" /\ request[h] = NoRequest
          /\ n < MaxSeq /\ DOMAIN packets = 1 .. n
          /\ \A i \in 1 .. n : packets[i] \in Packet
          /\ e = expected_packet_seq[h] /\ e < s /\ s <= n /\ parked(h) = {s}
          /\ LookedUp(h, e, s)
    BY <1>2, <1>3, <1>6, AtWork DEF AllFound, PartlySent
  <2>2. PICK c \in e .. s - 1 :
          c = cursor /\ found = Span(packets, e, c - 1) /\ lookup_end = s - 1
          /\ reply[h] = NoReply
    BY <2>1 DEF LookedUp
  <2>3. /\ c \in Nat /\ c \in DOMAIN packets /\ c # MaxSeq /\ e <= c
        /\ \A i \in e .. c : i \in 1 .. n
    BY <2>1, <2>2, MaxSeqAssumption
  <2>4. found' = Span(packets, e, c)
    <3>1. found' = Append(Span(packets, e, c - 1), packets[c])
      BY <1>2, <2>2, <2>3
    <3>2. \A i \in e .. c : packets[i] \in Packet
      BY <2>1, <2>3
    <3> QED  BY <2>3, <3>1, <3>2, SpanAppend
  <2>5. Answering(h, e, s)'
    <3>1. CASE c = s - 1
      <4>1. server_pc' = "count"
        BY <1>2, <2>2, <3>1
      <4>2. AllFound(h, e, s)'
        BY <1>2, <2>2, <2>4, <3>1, <4>1 DEF AllFound
      <4> QED  BY <1>2, <1>6, <2>1, <4>2 DEF Answering
    <3>2. CASE c # s - 1
      <4>1. /\ server_pc' = "lookup" /\ cursor' = c + 1 /\ lookup_end' = s - 1
            /\ c + 1 \in e .. s - 1 /\ (c + 1) - 1 = c
        BY <1>2, <2>2, <2>3, <3>2
      <4>2. LookedUp(h, e, s)'
        BY <1>2, <2>2, <2>4, <4>1 DEF LookedUp
      <4> QED  BY <1>2, <1>6, <2>1, <4>2 DEF Answering
    <3> QED  BY <3>1, <3>2
  <2> QED  BY <1>2, <2>1, <2>5, StillAnswering
<1>7. request'[serving] \in Request /\ reply'[serving] \in Reply \cup {NoReply}
  BY <1>1, <1>2, <1>3 DEF ServerTypes
<1> QED  BY <1>2, <1>4, <1>5, <1>6, <1>7, ServiceStep

\* The count sent first is the number of packets missing.
LEMMA CountRecovery ==
  ASSUME NoWrap, IInv, LocalInv, RecoveryInv, UNCHANGED <<main_pc, handlerVars>>, SendCount
  PROVE  RecoveryInv'
<1>1. ServerTypes /\ ServiceInv
  BY DEF RecoveryInv
<1>2. /\ server_pc = "count"
      /\ reply' = [reply EXCEPT ![serving] = [packet_count |-> Len(found), frames |-> <<>>]]
      /\ server_pc' = IF found = <<>> THEN "check" ELSE "frames"
      /\ UNCHANGED <<packets, listening, stop_, serving, found, cursor, lookup_end, backlog,
                     conn, request>>
  BY DEF SendCount, lookupVars
<1>3. serving \in Handlers /\ Serves(serving) /\ Busy(serving)
  BY <1>1, <1>2 DEF ServerTypes, Serves, Busy, InService
<1>4. /\ reply'[serving] = [packet_count |-> Len(found), frames |-> <<>>]
      /\ request'[serving] = request[serving]
  BY <1>1, <1>2, <1>3 DEF ServerTypes
<1>5. AtService
  BY <1>1, <1>2, <1>4 DEF AtService, InService, ServerTypes
<1>6. reply'[serving] \in Reply
  <2>1. Len(found) \in Nat /\ <<>> \in Seq(Packet)
    BY DEF IInv, ServerInv, AllGenuine
  <2> QED  BY <1>4, <2>1 DEF Reply
<1>7. ASSUME NEW h \in Handlers, h = serving, ~ended(h)  PROVE AnswerInv(h)'
  <2>1. PICK n \in Nat, e \in Nat \ {0}, s \in Nat :
          /\ handler_pc[h] = "request" /\ request[h] = NoRequest
          /\ \A i \in 1 .. n : packets[i] \in Packet
          /\ e = expected_packet_seq[h] /\ e < s /\ s <= n /\ parked(h) = {s}
          /\ AllFound(h, e, s)
    BY <1>2, <1>3, <1>7, AtWork DEF LookedUp, PartlySent
  <2>2. found = Span(packets, e, s - 1)
    BY <2>1 DEF AllFound
  <2>3. Len(found) = s - e
    <3>1. s - 1 \in Nat /\ e <= (s - 1) + 1 /\ (s - 1) - e + 1 = s - e
          /\ \A i \in e .. s - 1 : i \in 1 .. n
      BY <2>1
    <3>2. \A i \in e .. s - 1 : packets[i] \in Packet
      BY <2>1, <3>1
    <3>3. Len(Span(packets, e, s - 1)) = (s - 1) - e + 1
      BY <3>1, <3>2, SpanIsSeq
    <3> QED  BY <2>2, <3>1, <3>3
  <2>4. server_pc' = "frames"
    <3>1. s - e # 0 /\ Len(<<>>) = 0
      BY <2>1
    <3>2. found # <<>>
      BY <2>3, <3>1
    <3> QED  BY <1>2, <3>2
  <2>5. /\ reply'[h] = [packet_count |-> s - e, frames |-> Span(packets', e, e - 1)]
        /\ found' = Span(packets', e, s - 1)
    BY <1>2, <1>4, <1>7, <2>2, <2>3, SpanEmpty
  <2>6. e \in e .. s - 1
    BY <2>1
  <2>7. PartlySent(h, e, s)'
    BY <2>4, <2>5, <2>6 DEF PartlySent
  <2>8. Answering(h, e, s)'
    BY <1>2, <1>7, <2>1, <2>7 DEF Answering
  <2> QED  BY <1>2, <2>1, <2>8, StillAnswering
<1>8. request'[serving] \in Request /\ cursor' \in SeqNums /\ lookup_end' \in SeqNums
  BY <1>1, <1>2, <1>3, <1>4 DEF ServerTypes
<1>9. server_pc' = "check" => found' = <<>>
  BY <1>2
<1> QED  BY <1>2, <1>5, <1>6, <1>7, <1>8, <1>9, ServiceStep

\* Each frame is the packet after the one before.
LEMMA FrameRecovery ==
  ASSUME NoWrap, IInv, LocalInv, RecoveryInv, UNCHANGED <<main_pc, handlerVars>>, SendFrame
  PROVE  RecoveryInv'
<1>1. ServerTypes /\ ServiceInv
  BY DEF RecoveryInv
<1>2. /\ server_pc = "frames"
      /\ reply' = [reply EXCEPT ![serving].frames = Append(@, Head(found))]
      /\ found' = Tail(found)
      /\ server_pc' = IF Len(found) = 1 THEN "check" ELSE "frames"
      /\ UNCHANGED <<packets, listening, stop_, serving, cursor, lookup_end, backlog, conn,
                     request>>
  BY DEF SendFrame, lookupVars
<1>3. serving \in Handlers /\ Serves(serving) /\ Busy(serving)
  BY <1>1, <1>2 DEF ServerTypes, Serves, Busy, InService
<1>4. found \in Seq(Packet) /\ found # <<>> /\ Head(found) \in Packet
  <2>1. AllGenuine(packets, found) /\ found # <<>>
    BY <1>2 DEF IInv, ServerInv, FramesInv
  <2> QED  BY <2>1, TailGenuine DEF AllGenuine
<1>5. PICK count \in Nat, frames \in Seq(Packet) :
        reply[serving] = [packet_count |-> count, frames |-> frames]
  BY <1>1, <1>2 DEF ServiceInv, Reply
<1>6. /\ reply'[serving] = [packet_count |-> count, frames |-> Append(frames, Head(found))]
      /\ request'[serving] = request[serving]
  <2>1. reply'[serving]
          = [reply[serving] EXCEPT !.frames = Append(reply[serving].frames, Head(found))]
    BY <1>1, <1>2, <1>3 DEF ServerTypes
  <2>2. [reply[serving] EXCEPT !.frames = Append(frames, Head(found))]
          = [packet_count |-> count, frames |-> Append(frames, Head(found))]
    <3>1. PICK longer : longer = Append(frames, Head(found))
      OBVIOUS
    <3>2. [[packet_count |-> count, frames |-> frames] EXCEPT !.frames = longer]
            = [packet_count |-> count, frames |-> longer]
      OBVIOUS
    <3> QED  BY <1>5, <3>1, <3>2
  <2>3. reply[serving].frames = frames
    BY <1>5
  <2> QED  BY <1>2, <2>1, <2>2, <2>3
<1>7. AtService
  <2>1. reply' = [reply EXCEPT ![serving] = reply'[serving]]
    BY <1>1, <1>2, <1>3 DEF ServerTypes
  <2> QED  BY <1>1, <1>2, <2>1 DEF AtService, InService, ServerTypes
<1>8. reply'[serving] \in Reply
  <2>1. Append(frames, Head(found)) \in Seq(Packet)
    BY <1>4
  <2> QED  BY <1>6, <2>1 DEF Reply
<1>9. server_pc' = "check" => found' = <<>>
  <2> SUFFICES ASSUME Len(found) = 1  PROVE Tail(found) = <<>>
    BY <1>2
  <2>1. Tail(found) \in Seq(Packet) /\ Len(Tail(found)) = 0
    BY <1>4, HeadTailProperties
  <2>2. Tail(found) # <<>> => Len(Tail(found)) \in Nat \ {0}
    BY <2>1, EmptySeq
  <2> QED  BY <2>1, <2>2
<1>10. ASSUME NEW h \in Handlers, h = serving, ~ended(h)  PROVE AnswerInv(h)'
  <2>1. PICK n \in Nat, e \in Nat \ {0}, s \in Nat :
          /\ handler_pc[h] = "request" /\ request[h] = NoRequest
          /\ \A i \in 1 .. n : packets[i] \in Packet
          /\ e = expected_packet_seq[h] /\ e < s /\ s <= n /\ parked(h) = {s}
          /\ PartlySent(h, e, s)
    BY <1>2, <1>3, <1>10, AtWork DEF LookedUp, AllFound
  <2>2. PICK next \in e .. s - 1 :
          /\ reply[h] = [packet_count |-> s - e, frames |-> Span(packets, e, next - 1)]
          /\ found = Span(packets, next, s - 1)
    BY <2>1 DEF PartlySent
  <2>3. /\ next \in Nat \ {0} /\ e <= next /\ s - 1 \in Nat /\ next <= s - 1
        /\ next <= (s - 1) + 1 /\ (s - 1) - next + 1 = s - next
        /\ \A i \in e .. s - 1 : packets[i] \in Packet
        /\ \A i \in next .. s - 1 : packets[i] \in Packet
        /\ \A i \in e .. next : packets[i] \in Packet
    <3>1. /\ next \in Nat \ {0} /\ e <= next /\ s - 1 \in Nat /\ next <= s - 1
          /\ next <= (s - 1) + 1 /\ (s - 1) - next + 1 = s - next
      BY <2>1
    <3>2. \A i \in e .. s - 1 : i \in 1 .. n
      BY <2>1
    <3>3. /\ \A i \in next .. s - 1 : i \in e .. s - 1
          /\ \A i \in e .. next : i \in e .. s - 1
      BY <3>1
    <3>4. \A i \in e .. s - 1 : packets[i] \in Packet
      BY <2>1, <3>2
    <3> QED  BY <3>1, <3>3, <3>4
  <2>4. /\ Len(found) = s - next
        /\ Head(found) = packets[next]
        /\ found' = Span(packets, next + 1, s - 1)
    <3>1. Len(Span(packets, next, s - 1)) = (s - 1) - next + 1
      BY <2>3, SpanIsSeq
    <3>2. /\ Head(Span(packets, next, s - 1)) = packets[next]
          /\ Tail(Span(packets, next, s - 1)) = Span(packets, next + 1, s - 1)
      BY <2>3, SpanTail
    <3> QED  BY <1>2, <2>2, <2>3, <3>1, <3>2
  <2>5. reply'[h] = [packet_count |-> s - e, frames |-> Span(packets, e, next)]
    <3>1. Append(Span(packets, e, next - 1), packets[next]) = Span(packets, e, next)
      BY <2>3, SpanAppend
    <3>2. count = s - e /\ frames = Span(packets, e, next - 1)
      BY <1>5, <1>10, <2>2
    <3> QED  BY <1>6, <1>10, <2>4, <3>1, <3>2
  <2>6. Answering(h, e, s)'
    <3>1. CASE next = s - 1
      <4>1. server_pc' = "check"
        <5>1. s - next = 1
          BY <2>3, <3>1
        <5> QED  BY <1>2, <2>4, <5>1
      <4>2. Sent(h, e, s)'
        BY <1>2, <1>6, <1>10, <2>1, <2>5, <3>1, <4>1 DEF Sent, Busy
      <4> QED  BY <4>2 DEF Answering
    <3>2. CASE next # s - 1
      <4>1. next + 1 \in e .. s - 1 /\ (next + 1) - 1 = next /\ s - next # 1
        BY <2>3, <3>2
      <4>2. server_pc' = "frames"
        BY <1>2, <2>4, <4>1
      <4>3. PartlySent(h, e, s)'
        BY <1>2, <2>4, <2>5, <4>1, <4>2 DEF PartlySent
      <4> QED  BY <1>2, <1>10, <2>1, <4>3 DEF Answering
    <3> QED  BY <3>1, <3>2
  <2> QED  BY <1>2, <2>1, <2>6, StillAnswering
<1>11. request'[serving] \in Request /\ cursor' \in SeqNums /\ lookup_end' \in SeqNums
  BY <1>1, <1>2, <1>3, <1>6 DEF ServerTypes
<1> QED  BY <1>2, <1>7, <1>8, <1>9, <1>10, <1>11, ServiceStep

-----------------------------------------------------------------------------
(* The theorems.                                                           *)

\* Every step of the system preserves the invariant.
LEMMA RecoveryNext ==
  ASSUME NoWrap, IInv, LocalInv, RecoveryInv, [Next]_vars
  PROVE  RecoveryInv'
<1>1. CASE ExchangeStep
  BY <1>1, ExchangeRecovery
<1>2. CASE HandlersStep
  BY <1>2, HandlersRecovery
<1>3. CASE ServerStep \/ ServerFails
  <2>1. UNCHANGED <<main_pc, handlerVars>>
    BY <1>3 DEF ServerStep, ServerThread, ServerFails, exchangeVars
  <2> QED
    BY <1>3, <2>1, LoopRecovery, AcceptRecovery, CloseRecovery, RecvRecovery, LookupRecovery,
       CountRecovery, FrameRecovery
    DEF ServerStep, ServerThread, Server, ServerFails
<1>4. CASE UNCHANGED vars
  <2>1. UNCHANGED <<exchangeVars, recoveryVars, handlerVars>>
    BY <1>4 DEF vars
  <2>2. ServerTypes /\ ServiceInv
    BY DEF RecoveryInv
  <2>3. UNCHANGED <<main_pc, packets, listening, stop_, server_pc, serving, found, cursor,
                    lookup_end, backlog, conn, request, reply>>
    BY <2>1 DEF exchangeVars, recoveryVars, lookupVars, socketVars
  <2>4. ServerTypes'
    BY <2>2, <2>3 DEF ServerTypes
  <2>5. \A g : (Serves(g)' <=> Serves(g)) /\ (Busy(g)' <=> Busy(g))
    BY <2>3 DEF Serves, Busy
  <2>6. ServiceInv'
    BY <2>2, <2>3, <2>5 DEF ServiceInv
  <2>7. ASSUME NEW h \in Handlers  PROVE AnswerInv(h)'
    <3>1. AnswerInv(h) /\ SameHandler(h)
      BY <2>1 DEF RecoveryInv, SameHandler, handlerVars
    <3>2. Extends(packets, packets') /\ (Stopped => Stopped')
      BY <2>3 DEF Extends, Stopped
    <3> QED  BY <2>3, <2>5, <3>1, <3>2, Undisturbed
  <2> QED  BY <2>4, <2>6, <2>7 DEF RecoveryInv
<1> QED  BY <1>1, <1>2, <1>3, <1>4 DEF Next, NextPollWorks

\* So it always holds.
LEMMA RecoveryHolds == ASSUME NoWrap PROVE Spec => []RecoveryInv
<1>1. IInv /\ LocalInv /\ RecoveryInv /\ [Next]_vars => RecoveryInv'
  BY RecoveryNext
<1> QED  BY <1>1, RecoveryInitInv, Invariance, LocalHolds, PTL DEF Spec

\* The packets a handler replays are the ones from the next it expects up to
\* the one it parked, for any number of handlers and whenever the exchange dies:
\* request_replay never begins what request_packets got only a part of.
THEOREM ReplaysAreWhole == ASSUME NoWrap PROVE Spec => []ReplayIsWhole
<1>1. IInv /\ LocalInv /\ RecoveryInv => ReplayIsWhole
  <2> SUFFICES ASSUME IInv, LocalInv, RecoveryInv,
                      NEW h \in Handlers, handler_pc[h] = "replay"
               PROVE  \E s \in DOMAIN buffered_packets[h] :
                        replay_batch[h] = [i \in 1 .. s - expected_packet_seq[h] |->
                                             packets[expected_packet_seq[h] + i - 1]]
    BY DEF ReplayIsWhole
  <2>1. PICK e \in Nat : e = expected_packet_seq[h]
    BY GapFacts
  <2>2. PICK s \in Nat : parked(h) = {s} /\ replay_batch[h] = Span(packets, e, s - 1)
    BY <2>1 DEF RecoveryInv, AnswerInv
  <2>3. (s - 1) - e + 1 = s - e
    OBVIOUS
  <2> QED  BY <2>1, <2>2, <2>3 DEF Span, parked
<1> QED  BY <1>1, Invariance, LocalHolds, RecoveryHolds, PTL

\* A handler exits 1 only after the exchange has stopped or been killed: while
\* the exchange runs, every replay it asks for is in the history (store before
\* send), is looked up whole (lookup_range) and arrives in sequence.  It takes
\* a queue of listen() that holds all handlers: with more of them one may find
\* it full and give up on a connect, the exchange being alive.
THEOREM FailureMeansStopped ==
  ASSUME NoWrap, FewHandlers  PROVE Spec => []FailsOnlyAfterStop
<1>1. RecoveryInv => FailsOnlyAfterStop
  BY DEF RecoveryInv, AnswerInv, Stopped, FailsOnlyAfterStop
<1> QED  BY <1>1, RecoveryHolds, PTL

\* Limits are set once, and what a handler parks is a map.
MapsInv ==
  /\ limit \in [Handlers -> Limits]
  /\ \A h \in Handlers : buffered_packets[h] = [s \in parked(h) |-> buffered_packets[h][s]]

\* Every step of the system preserves it.
LEMMA MapsHold == ASSUME NoWrap PROVE Spec => []MapsInv
<1>1. Init => MapsInv
  <2> SUFFICES ASSUME Init  PROVE MapsInv
    OBVIOUS
  <2>1. ASSUME NEW h \in Handlers
        PROVE  buffered_packets[h] = [s \in parked(h) |-> buffered_packets[h][s]]
    BY DEF Init, HandlerInit, NoPackets, parked
  <2> QED  BY <2>1 DEF Init, HandlerInit, MapsInv
<1>2. IInv /\ MapsInv /\ [Next]_vars => MapsInv'
  <2> SUFFICES ASSUME IInv, MapsInv, [Next]_vars  PROVE MapsInv'
    OBVIOUS
  <2>1. CASE UNCHANGED <<limit, buffered_packets>>
    BY <2>1 DEF MapsInv, parked
  <2>2. CASE \E h \in Handlers : BufferAndRequest(h) \/ ProcessDrain(h)
    <3>1. PICK h \in Handlers : BufferAndRequest(h) \/ ProcessDrain(h)
      BY <2>2
    <3>2. PICK keys, value :
            /\ buffered_packets' = [buffered_packets EXCEPT ![h] = value]
            /\ value = [s \in keys |-> value[s]]
      <4>1. CASE BufferAndRequest(h)
        <5>1. PICK datagram \in Receivable :
                buffered_packets' =
                  [buffered_packets EXCEPT ![h] =
                     [s \in DOMAIN buffered_packets[h] \cup {datagram.seq_num} |->
                        IF s = datagram.seq_num THEN datagram ELSE buffered_packets[h][s]]]
          BY <4>1 DEF BufferAndRequest
        <5> DEFINE keys == DOMAIN buffered_packets[h] \cup {datagram.seq_num}
                   value == [s \in keys |-> IF s = datagram.seq_num
                                            THEN datagram ELSE buffered_packets[h][s]]
        <5>2. value = [s \in keys |-> value[s]]
          OBVIOUS
        <5>3. buffered_packets' = [buffered_packets EXCEPT ![h] = value]
          BY <5>1
        <5> HIDE DEF keys, value
        <5> QED  BY <5>2, <5>3
      <4>2. CASE ProcessDrain(h)
        <5>1. buffered_packets' =
                [buffered_packets EXCEPT ![h] =
                   [s \in parked(h) \ {expected_packet_seq[h]} |-> buffered_packets[h][s]]]
          BY <4>2 DEF ProcessDrain, IInv, HandlersInv, parked
        <5> DEFINE keys == parked(h) \ {expected_packet_seq[h]}
                   value == [s \in keys |-> buffered_packets[h][s]]
        <5>2. value = [s \in keys |-> value[s]]
          OBVIOUS
        <5>3. buffered_packets' = [buffered_packets EXCEPT ![h] = value]
          BY <5>1
        <5> HIDE DEF keys, value
        <5> QED  BY <5>2, <5>3
      <4> QED  BY <3>1, <4>1, <4>2
    <3>3. limit' = limit /\ buffered_packets = [g \in Handlers |-> buffered_packets[g]]
      BY <3>1 DEF BufferAndRequest, ProcessDrain, IInv, HandlersInv
    <3>4. ASSUME NEW g \in Handlers
          PROVE  buffered_packets'[g] = [s \in parked(g)' |-> buffered_packets'[g][s]]
      <4>1. CASE g = h
        BY <3>2, <3>3, <4>1 DEF parked
      <4>2. CASE g # h
        BY <3>2, <3>3, <4>2 DEF parked, MapsInv
      <4> QED  BY <4>1, <4>2
    <3> QED  BY <3>3, <3>4 DEF MapsInv
  <2> QED
    BY <2>1, <2>2
    DEF Next, NextPollWorks, ExchangeStep, ServerStep, ServerFails, HandlersStep, HandlerStep,
        Receive, Discard, ProcessLive, ReplayArrives, ReplyEof, ProcessReplay, ReplayOver,
        DrainOver, LimitReached, HandlerKilled, handlerVars, vars
<1> QED  BY <1>1, <1>2, Invariance, PTL DEF Spec

\* Every variable keeps its type, sequence numbers included: no counter of the
\* exchange, the server or a handler leaves its range while they last.
THEOREM TypesAreKept == ASSUME NoWrap PROVE Spec => []TypeOK
<1>1. IInv /\ LocalInv /\ RecoveryInv /\ MapsInv => TypeOK
  <2> SUFFICES ASSUME IInv, LocalInv, RecoveryInv, MapsInv  PROVE TypeOK
    OBVIOUS
  <2>1. ServerTypes /\ HistoryInv /\ HandlersInv
    BY DEF RecoveryInv, IInv
  <2>2. PICK n \in Nat :
          /\ n = Stored /\ n < MaxSeq
          /\ DOMAIN packets = 1 .. n
          /\ \A s \in 1 .. n : packets[s] \in Packet /\ packets[s].seq_num = s
          /\ \A h \in Handlers : expected_packet_seq[h] \in 1 .. n + 1 /\ parked(h) \subseteq 1 .. n
    BY GapFacts
  <2>3. /\ generated \in Nat /\ emitted_messages \in 0 .. Messages /\ packet_sequence \in SeqNums
    BY <2>1, ExchangeAssumption, MaxSeqAssumption DEF HistoryInv, NoWrap, SeqNums
  <2>4. \A s \in 1 .. n : s \in SeqNums
    BY <2>2, MaxSeqAssumption DEF SeqNums
  <2>5. multicast \subseteq Packet
    BY <2>2 DEF IInv, NetworkInv, Genuine
  <2>6. MapOf(packets, SeqNums, Packet)
    BY <2>1, <2>2, <2>4 DEF MapOf, ServerTypes
  <2>7. found \in Seq(Packet)
    BY DEF IInv, ServerInv, AllGenuine
  <2>8. ASSUME NEW h \in Handlers
        PROVE  /\ expected_packet_seq[h] \in SeqNums
               /\ applied[h] \in Seq(Nat)
               /\ replay_batch[h] \in Seq(Packet)
               /\ counts[h] \in Counts
               /\ MapOf(buffered_packets[h], SeqNums, Packet)
    <3>1. ProgressInv(h) /\ BuffersInv(h) /\ SummaryInv(h)
      BY HandlerFacts
    <3>2. expected_packet_seq[h] \in SeqNums
      BY <2>2, MaxSeqAssumption DEF SeqNums
    <3>3. \A s \in parked(h) : buffered_packets[h][s] \in Packet /\ s \in SeqNums
      BY <2>2, <2>4, <3>1 DEF BuffersInv, Genuine, parked
    <3>4. MapOf(buffered_packets[h], SeqNums, Packet)
      BY <3>3 DEF MapOf, MapsInv, parked
    <3> QED  BY <3>1, <3>2, <3>4 DEF ProgressInv, BuffersInv, AllGenuine, SummaryInv
  <2>9. /\ expected_packet_seq \in [Handlers -> SeqNums]
        /\ applied \in [Handlers -> Seq(Nat)]
        /\ replay_batch \in [Handlers -> Seq(Packet)]
        /\ counts \in [Handlers -> Counts]
    BY <2>1, <2>8 DEF HandlersInv, LocalInv
  <2> QED
    BY <2>1, <2>3, <2>5, <2>6, <2>7, <2>8, <2>9
    DEF TypeOK, ServerTypes, InService, HistoryInv, LocalInv, MapsInv
<1> QED  BY <1>1, Invariance, LocalHolds, RecoveryHolds, MapsHold, PTL
=============================================================================
