-------------------------- MODULE FeedSystemProofs --------------------------
(***************************************************************************)
(* Proof that every handler applies a prefix of the generator's messages,  *)
(* for any number of handlers, messages and losses, as long as sequence    *)
(* numbers do not wrap.  The inductive invariant IInv says where packets   *)
(* in flight come from: whatever the network, the server, a reply, a       *)
(* replay or a buffer holds is a packet of the history.                    *)
(***************************************************************************)
EXTENDS FeedSystem, SequenceTheorems, TLAPS

\* There are fewer packets than sequence numbers, packets holding at least one
\* message each.
NoWrap == Messages < MaxSeq

\* The packets stored so far: a batch is generated and stored in one step and
\* counted as emitted in the next.
Stored == IF generated > emitted_messages THEN packet_sequence ELSE packet_sequence - 1

\* The last message of packet s, the first packet being 1.
LastOf(hist, s) == IF s = 0 THEN 0 ELSE hist[s].messages[hist[s].msg_count]

\* Packets 1 to n follow each other without a hole, none past last.
Chain(hist, n, last) ==
  \A s \in 1 .. n :
    /\ hist[s] \in Packet
    /\ hist[s].seq_num = s
    /\ hist[s].msg_count >= 1
    /\ Len(hist[s].messages) = hist[s].msg_count
    /\ \A i \in 1 .. hist[s].msg_count : hist[s].messages[i] = LastOf(hist, s - 1) + i
    /\ LastOf(hist, s) <= last
    /\ \A r \in 0 .. s : LastOf(hist, r) <= LastOf(hist, s)

Genuine(hist, packet) == packet.seq_num \in DOMAIN hist /\ packet = hist[packet.seq_num]

AllGenuine(hist, seq) ==
  /\ seq \in Seq(Packet)
  /\ \A i \in 1 .. Len(seq) : Genuine(hist, seq[i])

HistoryInv ==
  /\ main_pc \in {"store", "send", "grace", "join", "exited"}
  /\ emitted_messages \in Nat /\ generated \in Nat /\ packet_sequence \in Nat \ {0}
  /\ packet_sequence - 1 <= emitted_messages
  /\ emitted_messages <= generated /\ generated <= Messages
  /\ main_pc \in {"store", "grace"} => generated = emitted_messages
  /\ main_pc = "store" => emitted_messages < Messages
  /\ main_pc = "send" => /\ emitted_messages < generated
                         /\ generated = emitted_messages + BatchSize
                         /\ packets[packet_sequence] = packet_buffer
  /\ DOMAIN packets = 1 .. Stored
  /\ Stored <= generated
  /\ LastOf(packets, Stored) = generated
  /\ Chain(packets, Stored, generated)

NetworkInv == \A packet \in multicast : Genuine(packets, packet)

ServerInv ==
  /\ AllGenuine(packets, found)
  /\ reply = [h \in Handlers |-> reply[h]]
  /\ \A h \in Handlers :
       /\ reply[h] = [packet_count |-> reply[h].packet_count, frames |-> reply[h].frames]
       /\ AllGenuine(packets, reply[h].frames)

\* Between two frames of a reply there is a packet left to send.
FramesInv == server_pc = "frames" => found # <<>>

\* A handler's book has the messages of all packets below the expected one,
\* unless it stopped inside one at its limit.
ProgressInv(h) ==
  /\ limit[h] \in Nat
  /\ expected_packet_seq[h] \in 1 .. Stored + 1
  /\ applied[h] \in Seq(Nat)
  /\ \A i \in 1 .. Len(applied[h]) : applied[h][i] = i
  /\ Len(applied[h]) <= generated
  /\ limit_reached(h) \/ Len(applied[h]) = LastOf(packets, expected_packet_seq[h] - 1)
  /\ handler_pc[h] = "recv" => ~limit_reached(h)

BuffersInv(h) ==
  /\ AllGenuine(packets, replay_batch[h])
  /\ \A s \in DOMAIN buffered_packets[h] :
       Genuine(packets, buffered_packets[h][s]) /\ buffered_packets[h][s].seq_num = s

HandlersInv ==
  /\ handler_pc = [h \in Handlers |-> handler_pc[h]]
  /\ expected_packet_seq = [h \in Handlers |-> expected_packet_seq[h]]
  /\ applied = [h \in Handlers |-> applied[h]]
  /\ replay_batch = [h \in Handlers |-> replay_batch[h]]
  /\ buffered_packets = [h \in Handlers |-> buffered_packets[h]]
  /\ \A h \in Handlers : ProgressInv(h) /\ BuffersInv(h)

IInv == HistoryInv /\ NetworkInv /\ ServerInv /\ FramesInv /\ HandlersInv

-----------------------------------------------------------------------------
(* Sequences of genuine packets.                                           *)

\* A history that has grown: it still has every packet it had.
Extends(old, new) == DOMAIN old \subseteq DOMAIN new /\ \A s \in DOMAIN old : new[s] = old[s]

\* What came from the history still does when the history has grown.
LEMMA GenuineGrows ==
  ASSUME NEW old, NEW new, Extends(old, new)
  PROVE  /\ \A packet : Genuine(old, packet) => Genuine(new, packet)
         /\ \A seq : AllGenuine(old, seq) => AllGenuine(new, seq)
BY DEF Extends, Genuine, AllGenuine

\* The empty sequence holds nothing that did not come from the history.
LEMMA EmptyGenuine == ASSUME NEW hist PROVE AllGenuine(hist, <<>>)
BY DEF AllGenuine

\* Appending a genuine packet.
LEMMA AppendGenuine ==
  ASSUME NEW hist, NEW seq, AllGenuine(hist, seq),
         NEW packet \in Packet, Genuine(hist, packet)
  PROVE  AllGenuine(hist, Append(seq, packet))
BY DEF AllGenuine

\* Taking the first packet off.
LEMMA TailGenuine ==
  ASSUME NEW hist, NEW seq, AllGenuine(hist, seq), seq # <<>>
  PROVE  /\ AllGenuine(hist, Tail(seq))
         /\ Head(seq) \in Packet
         /\ Genuine(hist, Head(seq))
<1>1. seq \in Seq(Packet) /\ Len(seq) >= 1
  BY DEF AllGenuine
<1>2. Tail(seq) \in Seq(Packet) /\ Len(Tail(seq)) = Len(seq) - 1
  BY <1>1
<1>3. \A i \in 1 .. Len(Tail(seq)) : Tail(seq)[i] = seq[i + 1] /\ i + 1 \in 1 .. Len(seq)
  BY <1>1, <1>2
<1>4. Head(seq) = seq[1] /\ 1 \in 1 .. Len(seq)
  BY <1>1
<1> QED  BY <1>1, <1>2, <1>3, <1>4 DEF AllGenuine

-----------------------------------------------------------------------------
(* Applying the next packet.                                               *)

\* Appending the first w messages of packet e keeps the run 1, 2, 3, ... going.
ExtendsRun(app, hist, e, w, last) ==
  LET new == app \o SubSeq(hist[e].messages, 1, w) IN
    /\ new \in Seq(Nat)
    /\ Len(new) = Len(app) + w
    /\ \A i \in 1 .. Len(new) : new[i] = i
    /\ Len(new) <= last
    /\ w = hist[e].msg_count => Len(new) = LastOf(hist, e)

\* Applying the first w messages of the packet that follows extends the run
\* 1, 2, 3, ... and stays within what was generated.
LEMMA ApplyNext ==
  ASSUME NEW hist, NEW n \in Nat, NEW last \in Nat, Chain(hist, n, last),
         NEW e \in 1 .. n,
         NEW app \in Seq(Nat), \A i \in 1 .. Len(app) : app[i] = i,
         Len(app) = LastOf(hist, e - 1),
         NEW w \in 0 .. hist[e].msg_count
  PROVE  ExtendsRun(app, hist, e, w, last)
<1> DEFINE p == hist[e]
           part == SubSeq(p.messages, 1, w)
           run == app \o part
<1>1. /\ p \in Packet
      /\ p.msg_count >= 1
      /\ Len(p.messages) = p.msg_count
      /\ \A i \in 1 .. p.msg_count : p.messages[i] = Len(app) + i
      /\ LastOf(hist, e) <= last
  BY DEF Chain
<1>2. p.msg_count \in Nat /\ p.messages \in Seq(Nat) /\ e # 0
  BY <1>1 DEF Packet
<1>3. LastOf(hist, e) = p.messages[p.msg_count]
  BY <1>2 DEF LastOf
<1>4. w \in Nat /\ w <= p.msg_count
  BY <1>2
<1> HIDE DEF p
<1>5. p.messages[p.msg_count] = Len(app) + p.msg_count
  <2>1. p.msg_count \in 1 .. p.msg_count
    BY <1>1, <1>2
  <2> QED  BY <1>1, <2>1
<1>6. part \in Seq(Nat) /\ Len(part) = w /\ \A i \in 1 .. w : part[i] = Len(app) + i
  <2>1. \A i \in 1 .. w : p.messages[i] = Len(app) + i /\ p.messages[i] \in Nat
    <3>1. Len(app) \in Nat
      OBVIOUS
    <3>2. \A i \in 1 .. w : i \in Nat /\ i \in 1 .. p.msg_count
      BY <1>2, <1>4
    <3>3. \A i \in 1 .. w : p.messages[i] = Len(app) + i
      BY <1>1, <3>2
    <3> QED  BY <3>1, <3>2, <3>3
  <2>2. /\ part \in Seq(Nat)
        /\ Len(part) = IF 1 <= w THEN w - 1 + 1 ELSE 0
        /\ \A i \in 1 .. w - 1 + 1 : part[i] = p.messages[1 + i - 1]
    BY <2>1, <1>4, SubSeqProperties
  <2> HIDE DEF part
  <2>3. \A i \in 1 .. w : part[i] = p.messages[i]
    BY <2>2, <1>4
  <2> QED  BY <2>1, <2>2, <2>3, <1>4
<1> HIDE DEF part
<1>7. PICK len \in Nat : len = Len(app)
  OBVIOUS
<1>8. /\ run \in Seq(Nat) /\ Len(run) = len + w
      /\ \A i \in 1 .. len + w : run[i] = IF i <= len THEN app[i] ELSE part[i - len]
  BY <1>6, <1>7, ConcatProperties
<1> HIDE DEF run
<1>9. ASSUME NEW i \in 1 .. len + w  PROVE run[i] = i
  <2>1. CASE i <= len
    <3>1. i \in 1 .. len /\ run[i] = app[i]
      BY <2>1, <1>8
    <3> QED  BY <3>1, <1>7
  <2>2. CASE ~(i <= len)
    <3>1. i - len \in 1 .. w
      BY <2>2, <1>4
    <3>2. run[i] = part[i - len] /\ part[i - len] = len + (i - len)
      BY <2>2, <3>1, <1>6, <1>7, <1>8
    <3> QED  BY <3>2
  <2> QED  BY <2>1, <2>2
<1>10. len + w <= last /\ (w = p.msg_count => len + w = LastOf(hist, e))
  <2>1. PICK count \in Nat : count = p.msg_count
    BY <1>2
  <2>2. LastOf(hist, e) = len + count
    BY <1>3, <1>5, <1>7, <2>1
  <2>3. len + count <= last /\ w <= count /\ w \in Nat
    BY <1>1, <1>4, <2>1, <2>2
  <2>4. len + w <= last /\ (w = count => len + w = len + count)
    BY <2>3
  <2> QED  BY <2>1, <2>2, <2>4
<1> QED  BY <1>7, <1>8, <1>9, <1>10 DEF run, p, part, ExtendsRun

-----------------------------------------------------------------------------
(* The initial state, and chains.                                         *)

\* The initial state satisfies the invariant.
LEMMA InitInv == ASSUME NoWrap, Init PROVE IInv
<1> USE ExchangeAssumption, LimitsAssumption, MaxSeqAssumption
<1>1. HistoryInv
  BY DEF Init, RecoveryInit, ExchangeInit, HistoryInv, Stored, LastOf, Chain
<1>2. NetworkInv
  BY DEF Init, MulticastInit, NetworkInv
<1>3. ServerInv
  BY EmptyGenuine DEF Init, RecoveryInit, ServerInv, NoReply
<1>5. FramesInv
  BY DEF Init, RecoveryInit, FramesInv
<1>4. HandlersInv
  <2>1. /\ handler_pc = [h \in Handlers |-> handler_pc[h]]
        /\ expected_packet_seq = [h \in Handlers |-> expected_packet_seq[h]]
        /\ applied = [h \in Handlers |-> applied[h]]
        /\ replay_batch = [h \in Handlers |-> replay_batch[h]]
        /\ buffered_packets = [h \in Handlers |-> buffered_packets[h]]
    BY DEF Init, HandlerInit
  <2>2. ASSUME NEW h \in Handlers  PROVE ProgressInv(h) /\ BuffersInv(h)
    <3>1. Stored = 0 /\ generated = 0
      BY DEF Init, ExchangeInit, Stored
    <3>2. /\ applied[h] = <<>> /\ replay_batch[h] = <<>> /\ expected_packet_seq[h] = 1
          /\ buffered_packets[h] = NoPackets /\ limit[h] \in Nat
      BY DEF Init, HandlerInit
    <3>3. Len(applied[h]) = 0 /\ applied[h] \in Seq(Nat)
      BY <3>2
    <3>4. ~limit_reached(h)
      BY <3>2, <3>3 DEF limit_reached, received_messages
    <3>5. ProgressInv(h)
      BY <3>1, <3>2, <3>3, <3>4 DEF ProgressInv, LastOf
    <3>6. BuffersInv(h)
      BY <3>2, EmptyGenuine DEF BuffersInv, NoPackets
    <3> QED  BY <3>5, <3>6
  <2> QED  BY <2>1, <2>2 DEF HandlersInv
<1> QED  BY <1>1, <1>2, <1>3, <1>4, <1>5 DEF IInv

\* The last message of a packet of a chain is a number.
LEMMA LastIsNat ==
  ASSUME NEW hist, NEW n \in Nat, NEW last, Chain(hist, n, last), NEW s \in 1 .. n
  PROVE  LastOf(hist, s) \in Nat
<1>1. PICK m \in Seq(Nat), k \in Nat :
        m = hist[s].messages /\ k = hist[s].msg_count /\ k >= 1 /\ Len(m) = k
  BY DEF Chain, Packet
<1>2. m[k] \in Nat
  BY <1>1
<1> QED  BY <1>1, <1>2 DEF LastOf

\* No message of a packet of a chain comes after the packet's last.
LEMMA MessageBounded ==
  ASSUME NEW hist, NEW n \in Nat, NEW last, Chain(hist, n, last), NEW s \in 1 .. n,
         NEW i \in 1 .. hist[s].msg_count
  PROVE  hist[s].messages[i] \in Nat /\ hist[s].messages[i] <= LastOf(hist, s)
<1>1. PICK before : before = LastOf(hist, s - 1)
  OBVIOUS
<1>2. PICK m \in Seq(Nat), k \in Nat :
        /\ m = hist[s].messages /\ k = hist[s].msg_count /\ k >= 1 /\ Len(m) = k
        /\ \A j \in 1 .. k : m[j] = before + j
  BY <1>1 DEF Chain, Packet
<1>3. /\ i \in 1 .. k /\ k \in 1 .. k
      /\ \A j \in 1 .. k : m[j] \in Nat
  <2>1. i \in 1 .. k /\ k \in 1 .. k
    BY <1>2
  <2>2. \A j \in 1 .. Len(m) : m[j] \in Nat
    OBVIOUS
  <2> QED  BY <1>2, <2>1, <2>2
<1>4. m[i] = before + i /\ m[k] = before + k
  BY <1>2, <1>3
<1>5. before \in Nat
  <2>1. CASE s = 1
    BY <1>1, <2>1 DEF LastOf
  <2>2. CASE s # 1
    <3>1. s - 1 \in 1 .. n
      BY <2>2
    <3> QED  BY <1>1, <3>1, LastIsNat
  <2> QED  BY <2>1, <2>2
<1>6. LastOf(hist, s) = m[k]
  BY <1>2 DEF LastOf
<1> QED  BY <1>2, <1>3, <1>4, <1>5, <1>6

\* A chain whose history grows is still a chain.
LEMMA ChainGrows ==
  ASSUME NEW old, NEW new, NEW n \in Nat, NEW last \in Nat, NEW later \in Nat,
         Chain(old, n, last), last <= later,
         \A s \in 1 .. n : new[s] = old[s]
  PROVE  Chain(new, n, later)
<1> SUFFICES ASSUME NEW s \in 1 .. n
             PROVE  /\ new[s] \in Packet
                    /\ new[s].seq_num = s
                    /\ new[s].msg_count >= 1
                    /\ Len(new[s].messages) = new[s].msg_count
                    /\ \A i \in 1 .. new[s].msg_count :
                         new[s].messages[i] = LastOf(new, s - 1) + i
                    /\ LastOf(new, s) <= later
                    /\ \A r \in 0 .. s : LastOf(new, r) <= LastOf(new, s)
  BY DEF Chain
<1>1. new[s] = old[s] /\ (s # 1 => new[s - 1] = old[s - 1])
  OBVIOUS
<1>2. LastOf(new, s - 1) = LastOf(old, s - 1) /\ LastOf(new, s) = LastOf(old, s)
  BY <1>1 DEF LastOf
<1>3. /\ old[s] \in Packet /\ old[s].seq_num = s /\ old[s].msg_count >= 1
      /\ Len(old[s].messages) = old[s].msg_count
      /\ \A i \in 1 .. old[s].msg_count : old[s].messages[i] = LastOf(old, s - 1) + i
      /\ LastOf(old, s) <= last
      /\ \A r \in 0 .. s : LastOf(old, r) <= LastOf(old, s)
  BY DEF Chain
<1>4. LastOf(old, s) \in Nat
  <2>1. PICK m \in Seq(Nat), k \in Nat : m = old[s].messages /\ k = old[s].msg_count
    BY <1>3 DEF Packet
  <2>2. k \in 1 .. Len(m)
    BY <1>3, <2>1
  <2>3. m[k] \in Nat
    BY <2>2
  <2> QED  BY <2>1, <2>3 DEF LastOf
<1>5. \A r \in 0 .. s : LastOf(new, r) = LastOf(old, r)
  BY DEF LastOf
<1> QED  BY <1>1, <1>2, <1>3, <1>4, <1>5

-----------------------------------------------------------------------------
(* What a step that leaves a part of the state alone keeps.                *)

\* A step of the server or of a handler keeps the history.
LEMMA HistoryKept ==
  ASSUME HistoryInv, UNCHANGED <<exchangeVars, packets>>
  PROVE  HistoryInv' /\ Stored' = Stored
<1>1. /\ main_pc' = main_pc /\ generated' = generated /\ emitted_messages' = emitted_messages
      /\ packet_sequence' = packet_sequence /\ packets' = packets
  BY DEF exchangeVars
<1>2. Stored' = Stored
  BY <1>1 DEF Stored
<1>3. BatchSize' = BatchSize
  BY <1>1 DEF BatchSize
<1>4. packet_buffer' = packet_buffer
  BY <1>1, <1>3 DEF packet_buffer
<1> QED  BY <1>1, <1>2, <1>3, <1>4 DEF HistoryInv

\* A step that only makes the history longer keeps the handlers' invariant.
LEMMA HandlersKept ==
  ASSUME HandlersInv, UNCHANGED handlerVars, Extends(packets, packets'),
         DOMAIN packets = 1 .. Stored, Stored \in Nat, Stored' \in Nat, Stored <= Stored',
         generated \in Nat, generated' \in Nat, generated <= generated'
  PROVE  HandlersInv'
<1>1. ASSUME NEW h \in Handlers  PROVE ProgressInv(h)' /\ BuffersInv(h)'
  <2>1. ProgressInv(h) /\ BuffersInv(h)
    BY DEF HandlersInv
  <2>2. /\ limit'[h] = limit[h] /\ applied'[h] = applied[h] /\ handler_pc'[h] = handler_pc[h]
        /\ expected_packet_seq'[h] = expected_packet_seq[h]
        /\ replay_batch'[h] = replay_batch[h] /\ buffered_packets'[h] = buffered_packets[h]
    BY DEF handlerVars
  <2>3. LastOf(packets', expected_packet_seq[h] - 1) = LastOf(packets, expected_packet_seq[h] - 1)
    <3>1. PICK e \in 1 .. Stored + 1 : e = expected_packet_seq[h]
      BY <2>1 DEF ProgressInv
    <3>2. e # 1 => e - 1 \in DOMAIN packets
      BY <3>1
    <3> QED  BY <3>1, <3>2 DEF LastOf, Extends
  <2>4. limit_reached(h)' <=> limit_reached(h)
    BY <2>2 DEF limit_reached, received_messages
  <2>5. ProgressInv(h)'
    BY <2>1, <2>2, <2>3, <2>4 DEF ProgressInv
  <2>6. BuffersInv(h)'
    BY <2>1, <2>2, GenuineGrows DEF BuffersInv
  <2> QED  BY <2>5, <2>6
<1> QED  BY <1>1 DEF HandlersInv, handlerVars

\* What is on the network stays genuine when the history grows.
LEMMA NetworkKept ==
  ASSUME NetworkInv, UNCHANGED multicast, Extends(packets, packets')
  PROVE  NetworkInv'
BY GenuineGrows DEF NetworkInv

\* And what the server has looked up and sent stays genuine.
LEMMA ServerKept ==
  ASSUME ServerInv, UNCHANGED <<found, reply>>, Extends(packets, packets')
  PROVE  ServerInv'
BY GenuineGrows DEF ServerInv

-----------------------------------------------------------------------------
(* The exchange.                                                           *)

\* The packet under way follows the stored ones and holds the next messages.
LEMMA BufferFacts ==
  ASSUME NoWrap, HistoryInv, emitted_messages < Messages
  PROVE  /\ BatchSize \in 1 .. Messages - emitted_messages
         /\ packet_buffer \in Packet
         /\ packet_buffer.seq_num = packet_sequence
         /\ packet_buffer.msg_count = BatchSize
         /\ Len(packet_buffer.messages) = BatchSize
         /\ \A i \in 1 .. BatchSize : packet_buffer.messages[i] = emitted_messages + i
<1> USE ExchangeAssumption, MaxSeqAssumption
<1>1. /\ emitted_messages \in Nat /\ packet_sequence \in Nat \ {0}
      /\ packet_sequence - 1 <= emitted_messages
  BY DEF HistoryInv
<1>2. BatchSize \in 1 .. Messages - emitted_messages
  BY <1>1 DEF BatchSize
<1>3. PICK n \in Nat : n = BatchSize
  BY <1>1, <1>2
<1> DEFINE batch == [i \in 1 .. n |-> emitted_messages + i]
<1>4. batch \in Seq(Nat) /\ Len(batch) = n /\ \A i \in 1 .. n : batch[i] = emitted_messages + i
  BY <1>1, <1>3
<1>5. packet_sequence \in SeqNums
  BY <1>1 DEF SeqNums, NoWrap
<1>6. packet_buffer = serialize_packet(packet_sequence, batch)
  BY <1>3 DEF packet_buffer
<1> HIDE DEF batch
<1>7. packet_size_bytes(n) \in Nat
  BY DEF packet_size_bytes, PacketHeaderSize, kFixedMessageSize
<1>8. packet_buffer = [size |-> packet_size_bytes(n), seq_num |-> packet_sequence,
                       msg_count |-> n, messages |-> batch]
  BY <1>4, <1>6 DEF serialize_packet
<1>9. packet_buffer \in Packet
  BY <1>4, <1>5, <1>7, <1>8 DEF Packet
<1> QED  BY <1>2, <1>3, <1>4, <1>8, <1>9

\* Storing the packet under way makes the history one packet longer.
LEMMA StoreInv ==
  ASSUME NoWrap, IInv, StorePacket, UNCHANGED handlerVars
  PROVE  IInv'
<1> USE ExchangeAssumption, MaxSeqAssumption
<1> DEFINE q == packet_sequence
<1>1. /\ main_pc = "store" /\ main_pc' = "send"
      /\ packets' = [s \in DOMAIN packets \cup {q} |->
                       IF s = q THEN packet_buffer ELSE packets[s]]
      /\ generated' = generated + BatchSize
      /\ UNCHANGED <<emitted_messages, packet_sequence, multicast, server_pc, found, reply>>
  BY DEF StorePacket, store, socketVars
<1>2. /\ HistoryInv /\ NetworkInv /\ ServerInv /\ HandlersInv
      /\ generated = emitted_messages /\ emitted_messages < Messages
      /\ emitted_messages \in Nat /\ generated \in Nat /\ q \in Nat \ {0}
      /\ q - 1 <= emitted_messages
  BY <1>1 DEF IInv, HistoryInv
<1>3. /\ BatchSize \in 1 .. Messages - emitted_messages
      /\ packet_buffer \in Packet
      /\ packet_buffer.seq_num = q
      /\ packet_buffer.msg_count = BatchSize
      /\ Len(packet_buffer.messages) = BatchSize
      /\ \A i \in 1 .. BatchSize : packet_buffer.messages[i] = emitted_messages + i
  BY <1>2, BufferFacts
<1>4. BatchSize' = BatchSize /\ packet_buffer' = packet_buffer
  BY <1>1 DEF packet_buffer, BatchSize
<1>5. Stored = q - 1 /\ Stored' = q
  BY <1>1, <1>2, <1>3 DEF Stored
<1>6. DOMAIN packets = 1 .. q - 1
  BY <1>2, <1>5 DEF HistoryInv
<1>7. DOMAIN packets' = 1 .. q /\ packets'[q] = packet_buffer
  BY <1>1, <1>2, <1>6
<1>8. Extends(packets, packets')
  BY <1>1, <1>2, <1>6 DEF Extends
<1>9. LastOf(packets, q - 1) = generated /\ LastOf(packets', q - 1) = generated
  <2>1. LastOf(packets, q - 1) = generated
    BY <1>2, <1>5 DEF HistoryInv
  <2>2. q # 1 => packets'[q - 1] = packets[q - 1]
    BY <1>2, <1>6, <1>8 DEF Extends
  <2> QED  BY <2>1, <2>2, <1>2 DEF LastOf
<1>10. LastOf(packets', q) = generated'
  <2>1. PICK n \in Nat : n = BatchSize /\ n >= 1
    BY <1>2, <1>3
  <2>2. packet_buffer.messages[n] = emitted_messages + n
    BY <1>3, <2>1
  <2> QED  BY <1>1, <1>2, <1>3, <1>7, <2>1, <2>2 DEF LastOf
<1>11. Chain(packets', q, generated')
  <2>1. Chain(packets, q - 1, generated)
    BY <1>2, <1>5 DEF HistoryInv
  <2>2. generated' \in Nat /\ generated <= generated'
    BY <1>1, <1>2, <1>3
  <2>3. Chain(packets', q - 1, generated')
    <3>1. q - 1 \in Nat /\ \A s \in 1 .. q - 1 : packets'[s] = packets[s]
      BY <1>2, <1>6, <1>8 DEF Extends
    <3> HIDE DEF q
    <3> QED  BY <3>1, <2>1, <2>2, <1>2, ChainGrows
  <2>4. /\ packets'[q] \in Packet
        /\ packets'[q].seq_num = q
        /\ packets'[q].msg_count >= 1
        /\ Len(packets'[q].messages) = packets'[q].msg_count
        /\ LastOf(packets', q) <= generated'
    BY <1>2, <1>3, <1>7, <1>10, <2>2
  <2>5. \A i \in 1 .. packets'[q].msg_count :
          packets'[q].messages[i] = LastOf(packets', q - 1) + i
    BY <1>2, <1>3, <1>7, <1>9
  <2>6. 1 .. q = (1 .. q - 1) \cup {q}
    BY <1>2
  <2>7. ASSUME NEW r \in 0 .. q  PROVE LastOf(packets', r) <= LastOf(packets', q)
    <3>1. CASE r = q
      BY <1>10, <2>2, <3>1
    <3>2. CASE r = 0
      BY <1>10, <2>2, <3>2 DEF LastOf
    <3>3. CASE r \in 1 .. q - 1
      BY <1>10, <2>3, <3>3 DEF Chain
    <3> QED  BY <1>2, <3>1, <3>2, <3>3
  <2> HIDE DEF q
  <2> QED  BY <2>3, <2>4, <2>5, <2>6, <2>7 DEF Chain
<1>12. generated' <= Messages /\ emitted_messages' < generated' /\ q <= generated'
       /\ generated' \in Nat /\ generated <= generated'
  BY <1>1, <1>2, <1>3
<1>13. HistoryInv'
  BY <1>1, <1>2, <1>4, <1>5, <1>7, <1>10, <1>11, <1>12 DEF HistoryInv
<1>14. NetworkInv' /\ ServerInv'
  BY <1>1, <1>2, <1>8, NetworkKept, ServerKept
<1>15. HandlersInv'
  BY <1>2, <1>5, <1>6, <1>8, <1>12, HandlersKept
<1>16. FramesInv'
  BY <1>1 DEF IInv, FramesInv
<1> QED  BY <1>13, <1>14, <1>15, <1>16 DEF IInv

\* Publishing the packet under way, or passing over it, counts it as emitted.
LEMMA SendInv ==
  ASSUME NoWrap, IInv, SendPacket, UNCHANGED handlerVars
  PROVE  IInv'
<1> USE ExchangeAssumption, MaxSeqAssumption
<1>1. /\ main_pc = "send"
      /\ multicast' = multicast \/ multicast' = multicast \cup {packet_buffer}
      /\ emitted_messages' = emitted_messages + BatchSize
      /\ packet_sequence' = NextSeq(packet_sequence)
      /\ main_pc' = IF emitted_messages' < Messages THEN "store" ELSE "grace"
      /\ UNCHANGED <<generated, packets, server_pc, found, reply>>
  BY DEF SendPacket, send, recoveryVars, socketVars
<1>2. /\ HistoryInv /\ NetworkInv /\ ServerInv /\ HandlersInv
      /\ emitted_messages < generated /\ generated = emitted_messages + BatchSize
      /\ packets[packet_sequence] = packet_buffer
      /\ emitted_messages \in Nat /\ generated \in Nat /\ packet_sequence \in Nat \ {0}
      /\ packet_sequence - 1 <= emitted_messages /\ generated <= Messages
  BY <1>1 DEF IInv, HistoryInv
<1>3. packet_sequence' = packet_sequence + 1
  BY <1>1, <1>2 DEF NextSeq, NoWrap
<1>4. emitted_messages' = generated
  BY <1>1, <1>2
<1>5. Stored = packet_sequence /\ Stored' = Stored
  BY <1>1, <1>2, <1>3, <1>4 DEF Stored
<1>6. /\ DOMAIN packets = 1 .. Stored /\ Stored <= generated
      /\ LastOf(packets, Stored) = generated /\ Chain(packets, Stored, generated)
  BY <1>2 DEF HistoryInv
<1>7. /\ main_pc' \in {"store", "grace"}
      /\ main_pc' = "store" => emitted_messages' < Messages
  BY <1>1
<1>8. HistoryInv'
  BY <1>1, <1>2, <1>3, <1>4, <1>5, <1>6, <1>7 DEF HistoryInv
<1>9. NetworkInv'
  <2>1. Genuine(packets, packet_buffer)
    <3>1. packet_buffer.seq_num = packet_sequence
      BY <1>2, BufferFacts
    <3> QED  BY <3>1, <1>2, <1>5, <1>6 DEF Genuine
  <2> QED  BY <1>1, <1>2, <2>1 DEF NetworkInv
<1>10. Extends(packets, packets')
  BY <1>1 DEF Extends
<1>11. ServerInv'
  BY <1>1, <1>2, <1>10, ServerKept
<1>12. HandlersInv'
  BY <1>1, <1>2, <1>5, <1>6, <1>10, HandlersKept
<1>13. FramesInv'
  BY <1>1 DEF IInv, FramesInv
<1> QED  BY <1>8, <1>9, <1>11, <1>12, <1>13 DEF IInv

\* Ending, however the process ends, leaves the history and what was sent.
LEMMA StopInv ==
  ASSUME IInv, UNCHANGED handlerVars,
         SendThrows \/ GraceOver \/ JoinReturns \/ ExchangeKilled
  PROVE  IInv'
<1>1. /\ main_pc' \in {"join", "exited"}
      /\ UNCHANGED <<generated, emitted_messages, packet_sequence, multicast, packets, reply>>
      /\ UNCHANGED <<server_pc, found>> \/ (server_pc' = "exited" /\ found' = <<>>)
  BY DEF SendThrows, GraceOver, JoinReturns, ExchangeKilled, ServerGone, socketVars
<1>2. HistoryInv /\ NetworkInv /\ ServerInv /\ HandlersInv
  BY DEF IInv
<1>3. Stored' = Stored
  BY <1>1 DEF Stored
<1>4. HistoryInv'
  BY <1>1, <1>2, <1>3 DEF HistoryInv
<1>5. Extends(packets, packets')
  BY <1>1 DEF Extends
<1>6. ServerInv'
  BY <1>1, <1>2, EmptyGenuine DEF ServerInv
<1>7. HandlersInv'
  BY <1>1, <1>2, <1>3, <1>5, HandlersKept DEF HistoryInv, Stored
<1>8. FramesInv'
  BY <1>1 DEF IInv, FramesInv
<1> QED  BY <1>1, <1>2, <1>4, <1>5, <1>6, <1>7, <1>8, NetworkKept DEF IInv

-----------------------------------------------------------------------------
(* The server.                                                             *)

\* The server looks packets up and sends them: what it has found and what has
\* reached a client stay genuine.
LEMMA ServerStepInv ==
  ASSUME IInv, ServerStep \/ ServerFails
  PROVE  IInv'
<1>1. UNCHANGED <<exchangeVars, multicast, handlerVars, packets>>
  BY DEF ServerStep, ServerThread, Server, ServerFails, CheckStop, PollTimeout, PollFails,
         Accept, CloseClient, CheckServe, CheckServeStopped, RecvRequest, LookupStep,
         LookupTurn, RecvEof, SendCount, SendFrame, SendFails
<1>2. HistoryInv /\ NetworkInv /\ ServerInv /\ FramesInv /\ HandlersInv
  BY DEF IInv
<1>3. HistoryInv' /\ Stored' = Stored /\ Extends(packets, packets')
  BY <1>1, <1>2, HistoryKept DEF Extends
<1>4. NetworkInv' /\ HandlersInv'
  BY <1>1, <1>2, <1>3, NetworkKept, HandlersKept DEF HistoryInv, exchangeVars, Stored
<1>5. ServerInv'
  <2>1. CASE UNCHANGED <<found, reply>>
    BY <1>2, <1>3, <2>1, ServerKept
  <2>2. CASE found' = <<>> /\ UNCHANGED reply
    BY <1>1, <1>2, <2>2, EmptyGenuine DEF ServerInv
  <2>3. CASE LookupStep
    <3>1. UNCHANGED reply
      BY <2>3 DEF LookupStep, LookupTurn, socketVars
    <3>2. CASE cursor \in DOMAIN packets
      <4>1. found' = Append(found, packets[cursor])
        BY <2>3, <3>2 DEF LookupStep, LookupTurn
      <4>2. DOMAIN packets = 1 .. Stored /\ Chain(packets, Stored, generated)
        BY <1>2 DEF HistoryInv
      <4>3. packets[cursor] \in Packet /\ Genuine(packets, packets[cursor])
        BY <3>2, <4>2 DEF Chain, Genuine
      <4>4. AllGenuine(packets, found')
        BY <1>2, <4>1, <4>3, AppendGenuine DEF ServerInv
      <4> QED  BY <1>1, <1>2, <3>1, <4>4 DEF ServerInv
    <3>3. CASE cursor \notin DOMAIN packets
      BY <1>2, <1>3, <2>3, <3>1, <3>3, ServerKept DEF LookupStep, LookupTurn
    <3> QED  BY <3>2, <3>3
  <2>4. CASE SendCount
    BY <1>1, <1>2, <2>4, EmptyGenuine DEF SendCount, ServerInv
  <2>5. CASE SendFrame
    <3>1. PICK frame : frame = Head(found)
      OBVIOUS
    <3>2. /\ AllGenuine(packets, Tail(found)) /\ frame \in Packet /\ Genuine(packets, frame)
      BY <1>2, <2>5, <3>1, TailGenuine DEF SendFrame, ServerInv, FramesInv
    <3>3. /\ found' = Tail(found)
          /\ reply' = [reply EXCEPT ![serving].frames = Append(@, frame)]
      BY <2>5, <3>1 DEF SendFrame
    <3>4. ASSUME NEW h \in Handlers
          PROVE  /\ reply'[h] = [packet_count |-> reply'[h].packet_count,
                                 frames |-> reply'[h].frames]
                 /\ AllGenuine(packets, reply'[h].frames)
      <4>1. PICK c, f : reply[h] = [packet_count |-> c, frames |-> f] /\ AllGenuine(packets, f)
        BY <1>2 DEF ServerInv
      <4>2. AllGenuine(packets, Append(f, frame))
        BY <3>2, <4>1, AppendGenuine
      <4>3. CASE h = serving
        <5>1. reply'[h] = [packet_count |-> c, frames |-> Append(f, frame)]
          <6>1. reply'[h] = [reply[h] EXCEPT !.frames = Append(@, frame)]
            BY <1>2, <3>3, <4>3 DEF ServerInv
          <6>2. PICK r : r = reply[h] /\ r = [packet_count |-> c, frames |-> f]
            BY <4>1
          <6>3. reply'[h] = [r EXCEPT !.frames = Append(r.frames, frame)]
            BY <6>1, <6>2
          <6> QED  BY <6>2, <6>3
        <5> QED  BY <4>2, <5>1
      <4>4. CASE h # serving
        BY <1>2, <3>3, <4>1, <4>4 DEF ServerInv
      <4> QED  BY <4>3, <4>4
    <3>5. reply' = [h \in Handlers |-> reply'[h]]
      BY <1>2, <3>3 DEF ServerInv
    <3> QED  BY <1>1, <3>2, <3>3, <3>4, <3>5 DEF ServerInv
  <2> QED
    BY <2>1, <2>2, <2>3, <2>4, <2>5
    DEF ServerStep, ServerThread, Server, ServerFails, CheckStop, PollTimeout, PollFails,
        Accept, CloseClient, CheckServe, CheckServeStopped, RecvRequest, RecvEof, SendFails,
        socketVars
<1>6. FramesInv'
  <2>1. CASE SendFrame
    <3>1. found' = Tail(found) /\ server_pc' = IF Len(found) = 1 THEN "check" ELSE "frames"
      BY <2>1 DEF SendFrame
    <3>2. found \in Seq(Packet) /\ found # <<>>
      BY <1>2, <2>1 DEF SendFrame, FramesInv, ServerInv, AllGenuine
    <3>3. Len(Tail(found)) = Len(found) - 1 /\ Tail(found) \in Seq(Packet)
      BY <3>2
    <3>4. Len(found) # 1 => Tail(found) # <<>>
      <4>1. Len(found) \in Nat /\ Len(found) >= 1
        BY <3>2
      <4>2. Len(found) # 1 => Len(Tail(found)) # 0
        BY <3>3, <4>1
      <4> QED  BY <4>2, <3>3
    <3> QED  BY <3>1, <3>4 DEF FramesInv
  <2>2. CASE ~SendFrame
    BY <1>2, <2>2
    DEF ServerStep, ServerThread, Server, ServerFails, CheckStop, PollTimeout, PollFails,
        Accept, CloseClient, CheckServe, CheckServeStopped, RecvRequest, LookupStep,
        LookupTurn, RecvEof, SendCount, SendFails, FramesInv
  <2> QED  BY <2>1, <2>2
<1> QED  BY <1>3, <1>4, <1>5, <1>6 DEF IInv

-----------------------------------------------------------------------------
(* The handlers.                                                           *)

\* A step of handler h alone.
OnlyHandler(h) ==
  /\ UNCHANGED limit
  /\ handler_pc' = [handler_pc EXCEPT ![h] = handler_pc'[h]]
  /\ expected_packet_seq' = [expected_packet_seq EXCEPT ![h] = expected_packet_seq'[h]]
  /\ applied' = [applied EXCEPT ![h] = applied'[h]]
  /\ replay_batch' = [replay_batch EXCEPT ![h] = replay_batch'[h]]
  /\ buffered_packets' = [buffered_packets EXCEPT ![h] = buffered_packets'[h]]

\* A step that takes nothing back from the book of handler h.
Forward(h) == OnlyHandler(h) /\ Len(applied'[h]) >= Len(applied[h])

\* What is left to show of a step of one handler: that its own part of the
\* invariant holds after it.
LEMMA OneHandler ==
  ASSUME IInv, NEW h \in Handlers, OnlyHandler(h),
         UNCHANGED <<exchangeVars, multicast, packets, server_pc, found>>,
         reply' = reply \/ reply' = [reply EXCEPT ![h] = NoReply],
         ProgressInv(h)', BuffersInv(h)'
  PROVE  IInv'
<1>1. HistoryInv /\ NetworkInv /\ ServerInv /\ FramesInv /\ HandlersInv
  BY DEF IInv
<1>2. HistoryInv' /\ Stored' = Stored /\ generated' = generated /\ packets' = packets
  BY <1>1, HistoryKept DEF exchangeVars
<1>3. NetworkInv'
  BY <1>1, <1>2 DEF NetworkInv
<1>4. FramesInv'
  BY <1>1 DEF FramesInv
<1>5. ServerInv'
  <2>1. CASE UNCHANGED reply
    BY <1>1, <1>2, <2>1 DEF ServerInv
  <2>2. CASE reply' = [reply EXCEPT ![h] = NoReply]
    <3>1. NoReply = [packet_count |-> -1, frames |-> <<>>] /\ AllGenuine(packets, NoReply.frames)
      BY EmptyGenuine DEF NoReply
    <3>2. \A g \in Handlers : reply'[g] = IF g = h THEN NoReply ELSE reply[g]
      BY <1>1, <2>2 DEF ServerInv
    <3>3. reply' = [g \in Handlers |-> reply'[g]]
      BY <1>1, <2>2 DEF ServerInv
    <3>4. ASSUME NEW g \in Handlers
          PROVE  /\ reply'[g] = [packet_count |-> reply'[g].packet_count,
                                 frames |-> reply'[g].frames]
                 /\ AllGenuine(packets, reply'[g].frames)
      BY <1>1, <3>1, <3>2 DEF ServerInv
    <3> QED  BY <1>1, <1>2, <3>3, <3>4 DEF ServerInv
  <2> QED  BY <2>1, <2>2
<1>6. HandlersInv'
  <2>1. ASSUME NEW g \in Handlers, g # h  PROVE ProgressInv(g)' /\ BuffersInv(g)'
    <3>1. ProgressInv(g) /\ BuffersInv(g)
      BY <1>1 DEF HandlersInv
    <3>2. /\ limit'[g] = limit[g] /\ applied'[g] = applied[g] /\ handler_pc'[g] = handler_pc[g]
          /\ expected_packet_seq'[g] = expected_packet_seq[g]
          /\ replay_batch'[g] = replay_batch[g] /\ buffered_packets'[g] = buffered_packets[g]
      BY <1>1, <2>1 DEF OnlyHandler, HandlersInv
    <3>3. limit_reached(g)' <=> limit_reached(g)
      BY <3>2 DEF limit_reached, received_messages
    <3>4. ProgressInv(g)'
      BY <1>2, <3>1, <3>2, <3>3 DEF ProgressInv
    <3>5. BuffersInv(g)'
      BY <1>2, <3>1, <3>2 DEF BuffersInv
    <3> QED  BY <3>4, <3>5
  <2>2. /\ handler_pc' = [k \in Handlers |-> handler_pc'[k]]
        /\ expected_packet_seq' = [k \in Handlers |-> expected_packet_seq'[k]]
        /\ applied' = [k \in Handlers |-> applied'[k]]
        /\ replay_batch' = [k \in Handlers |-> replay_batch'[k]]
        /\ buffered_packets' = [k \in Handlers |-> buffered_packets'[k]]
    BY <1>1 DEF OnlyHandler, HandlersInv
  <2> QED  BY <2>1, <2>2 DEF HandlersInv
<1> QED  BY <1>2, <1>3, <1>4, <1>5, <1>6 DEF IInv

\* Applying the packet that is next in sequence keeps the handler on track.
LEMMA ProcessKeepsProgress ==
  ASSUME NoWrap, HistoryInv, NEW h \in Handlers, HandlersInv,
         NEW packet, Genuine(packets, packet), packet.seq_num = expected_packet_seq[h],
         ~limit_reached(h),
         NEW source, ProcessPacket(h, packet, source),
         UNCHANGED <<exchangeVars, packets, limit>>, handler_pc'[h] # "recv"
  PROVE  /\ ProgressInv(h)' /\ Len(applied'[h]) >= Len(applied[h])
         /\ expected_packet_seq'[h] = expected_packet_seq[h] + 1
         /\ limit[h] # 0 => Len(applied'[h]) <= limit[h]
<1> USE ExchangeAssumption, MaxSeqAssumption
<1>1. Stored' = Stored /\ generated' = generated /\ packets' = packets
  BY HistoryKept DEF exchangeVars
<1>2. /\ Stored \in Nat /\ generated \in Nat /\ Stored <= generated /\ generated <= Messages
      /\ DOMAIN packets = 1 .. Stored
      /\ Chain(packets, Stored, generated)
  BY DEF HistoryInv, Stored
<1>3. PICK e \in 1 .. Stored : e = expected_packet_seq[h] /\ packet = packets[e]
  BY <1>2 DEF Genuine
<1>4. ProgressInv(h)
  BY DEF HandlersInv
<1>5. PICK app \in Seq(Nat), lim \in Nat, k \in Nat :
        /\ app = applied[h] /\ lim = limit[h] /\ k = packets[e].msg_count
  BY <1>2, <1>3, <1>4 DEF ProgressInv, Chain, Packet
<1>6. \A i \in 1 .. Len(app) : app[i] = i
  BY <1>4, <1>5 DEF ProgressInv
<1>7. Len(app) = LastOf(packets, e - 1)
  BY <1>3, <1>4, <1>5 DEF ProgressInv
<1>8. lim = 0 \/ Len(app) < lim
  BY <1>5 DEF limit_reached, received_messages
<1>9. PICK w \in 0 .. k :
        /\ w = Wanted(h, packet)
        /\ w = k \/ (lim # 0 /\ Len(app) + w = lim)
        /\ lim # 0 => Len(app) + w <= lim
  <2>1. PICK len \in Nat : len = Len(app)
    OBVIOUS
  <2>2. Wanted(h, packet) = IF lim = 0 \/ k <= lim - len THEN k ELSE lim - len
    BY <1>3, <1>5, <2>1 DEF Wanted, received_messages
  <2>3. lim = 0 \/ len < lim
    BY <1>8, <2>1
  <2>4. CASE lim = 0 \/ k <= lim - len
    BY <2>1, <2>2, <2>4
  <2>5. CASE lim # 0 /\ ~(k <= lim - len)
    <3>1. lim - len \in 0 .. k /\ len + (lim - len) = lim
      BY <2>3, <2>5
    <3> QED  BY <2>1, <2>2, <2>5, <3>1
  <2> QED  BY <2>4, <2>5
<1> DEFINE new == app \o SubSeq(packets[e].messages, 1, w)
<1>10. /\ new \in Seq(Nat)
       /\ Len(new) = Len(app) + w
       /\ \A i \in 1 .. Len(new) : new[i] = i
       /\ Len(new) <= generated
       /\ w = k => Len(new) = LastOf(packets, e)
  <2>1. w \in 0 .. packets[e].msg_count
    BY <1>5, <1>9
  <2>2. ExtendsRun(app, packets, e, w, generated)
    <3> HIDE DEF new
    <3> QED  BY <2>1, <1>2, <1>5, <1>6, <1>7, ApplyNext
  <2> QED  BY <2>2, <1>5 DEF ExtendsRun
<1>11. applied'[h] = new
  BY <1>3, <1>5, <1>9 DEF ProcessPacket, HandlersInv
<1> HIDE DEF new
<1>12. expected_packet_seq'[h] = e + 1
  <2>1. expected_packet_seq'[h] = NextSeq(e)
    BY <1>3 DEF ProcessPacket, HandlersInv
  <2>2. e # MaxSeq
    BY <1>2 DEF NoWrap
  <2> QED  BY <2>1, <2>2 DEF NextSeq
<1>13. limit_reached(h)' \/ Len(new) = LastOf(packets, e)
  <2>1. limit_reached(h)' <=> lim # 0 /\ Len(new) >= lim
    BY <1>5, <1>11 DEF limit_reached, received_messages
  <2> QED  BY <1>9, <1>10, <2>1
<1>14. e + 1 \in 1 .. Stored + 1 /\ (e + 1) - 1 = e
  BY <1>2
<1>15. Len(applied'[h]) >= Len(applied[h])
  BY <1>5, <1>9, <1>10, <1>11
<1>16. ProgressInv(h)'
  BY <1>1, <1>5, <1>10, <1>11, <1>12, <1>13, <1>14 DEF ProgressInv
<1>17. limit[h] # 0 => Len(applied'[h]) <= limit[h]
  BY <1>5, <1>9, <1>10, <1>11
<1> QED  BY <1>3, <1>12, <1>15, <1>16, <1>17

\* A step that applies nothing keeps the handler on track, unless it returns
\* to the socket with the limit reached.
LEMMA WaitKeepsProgress ==
  ASSUME HistoryInv, NEW h \in Handlers, HandlersInv,
         UNCHANGED <<exchangeVars, packets, limit, applied, expected_packet_seq>>,
         handler_pc'[h] = "recv" => ~limit_reached(h)
  PROVE  ProgressInv(h)'
<1>1. ProgressInv(h)
  BY DEF HandlersInv
<1>2. Stored' = Stored /\ generated' = generated
  BY HistoryKept DEF exchangeVars
<1>3. limit_reached(h)' <=> limit_reached(h)
  BY DEF limit_reached, received_messages
<1> QED  BY <1>1, <1>2, <1>3 DEF ProgressInv

\* Reading a datagram: a whole packet comes from the history.
LEMMA ReceiveInv ==
  ASSUME NoWrap, IInv, NEW h \in Handlers, Receive(h), UNCHANGED exchangeVars
  PROVE  IInv' /\ Forward(h)
<1>1. HistoryInv /\ NetworkInv /\ ServerInv /\ HandlersInv
  BY DEF IInv
<1>2. ProgressInv(h) /\ BuffersInv(h)
  BY <1>1 DEF HandlersInv
<1>3. CASE Discard(h)
  <2>1. OnlyHandler(h)
    BY <1>1, <1>3 DEF Discard, handlerVars, OnlyHandler, HandlersInv
  <2>2. UNCHANGED <<handlerVars, multicast, packets, server_pc, found, reply>>
    BY <1>3 DEF Discard, recoveryVars, socketVars
  <2>3. ProgressInv(h)'
    BY <1>1, <1>2, <2>2, WaitKeepsProgress DEF handlerVars, ProgressInv
  <2>4. BuffersInv(h)'
    BY <1>2, <2>2 DEF BuffersInv, handlerVars
  <2>5. Len(applied'[h]) >= Len(applied[h])
    BY <1>2, <2>2 DEF handlerVars, ProgressInv
  <2> QED  BY <2>1, <2>2, <2>3, <2>4, <2>5, OneHandler DEF Forward
<1>4. CASE ProcessLive(h)
  <2>1. PICK datagram \in Receivable :
          /\ parse_packet(datagram)
          /\ datagram.seq_num = expected_packet_seq[h]
          /\ ProcessPacket(h, datagram, "live")
    BY <1>4 DEF ProcessLive
  <2>2. Genuine(packets, datagram)
    BY <1>1, <2>1, StraysAssumption DEF Receivable, NetworkInv
  <2>3. /\ handler_pc[h] = "recv" /\ handler_pc' = [handler_pc EXCEPT ![h] = "drain"]
        /\ UNCHANGED <<limit, buffered_packets, replay_batch, multicast, packets, server_pc,
                       found, reply>>
    BY <1>4 DEF ProcessLive, Goto, recoveryVars, socketVars
  <2>4. OnlyHandler(h) /\ handler_pc'[h] = "drain"
    BY <1>1, <2>1, <2>3 DEF OnlyHandler, ProcessPacket, HandlersInv
  <2>5. ~limit_reached(h)
    BY <1>2, <2>3 DEF ProgressInv
  <2>6. ProgressInv(h)' /\ Len(applied'[h]) >= Len(applied[h])
    BY <1>1, <2>1, <2>2, <2>3, <2>4, <2>5, ProcessKeepsProgress
  <2>7. BuffersInv(h)'
    BY <1>2, <2>3 DEF BuffersInv
  <2> QED  BY <2>3, <2>4, <2>6, <2>7, OneHandler DEF Forward
<1>5. CASE BufferAndRequest(h)
  <2>1. PICK datagram \in Receivable :
          /\ parse_packet(datagram)
          /\ buffered_packets' =
               [buffered_packets EXCEPT ![h] =
                  [s \in DOMAIN buffered_packets[h] \cup {datagram.seq_num} |->
                     IF s = datagram.seq_num THEN datagram ELSE buffered_packets[h][s]]]
    BY <1>5 DEF BufferAndRequest
  <2>2. Genuine(packets, datagram)
    BY <1>1, <2>1, StraysAssumption DEF Receivable, NetworkInv
  <2>3. /\ handler_pc[h] = "recv"
        /\ \E pc \in {"recv", "failed", "request"} : handler_pc' = [handler_pc EXCEPT ![h] = pc]
        /\ UNCHANGED <<limit, expected_packet_seq, applied, replay_batch, multicast>>
        /\ UNCHANGED <<packets, server_pc, found>>
        /\ reply' = reply \/ reply' = [reply EXCEPT ![h] = NoReply]
    BY <1>5 DEF BufferAndRequest, Goto, SendRequest, close_connection, recoveryVars, socketVars
  <2>4. OnlyHandler(h)
    BY <1>1, <2>1, <2>3 DEF OnlyHandler, HandlersInv
  <2>5. ProgressInv(h)'
    BY <1>1, <1>2, <2>3, WaitKeepsProgress DEF ProgressInv
  <2>6. BuffersInv(h)'
    <3>1. buffered_packets'[h] =
            [s \in DOMAIN buffered_packets[h] \cup {datagram.seq_num} |->
               IF s = datagram.seq_num THEN datagram ELSE buffered_packets[h][s]]
      BY <1>1, <2>1 DEF HandlersInv
    <3> QED  BY <1>2, <2>2, <2>3, <3>1 DEF BuffersInv
  <2>7. Len(applied'[h]) >= Len(applied[h])
    BY <1>2, <2>3 DEF ProgressInv
  <2> QED  BY <2>3, <2>4, <2>5, <2>6, <2>7, OneHandler DEF Forward
<1> QED  BY <1>3, <1>4, <1>5 DEF Receive

\* Processing a packet of a replay or a parked one, and every other step
\* between two visits to the socket.
LEMMA HandlerStepInv ==
  ASSUME NoWrap, IInv, NEW h \in Handlers, HandlerStep(h) \/ HandlerKilled(h),
         UNCHANGED exchangeVars
  PROVE  IInv' /\ Forward(h)
<1>1. HistoryInv /\ NetworkInv /\ ServerInv /\ HandlersInv
  BY DEF IInv
<1>2. ProgressInv(h) /\ BuffersInv(h)
  BY <1>1 DEF HandlersInv
<1>3. CASE ProcessReplay(h) /\ Acceptable(h, Head(replay_batch[h]))
  <2>1. PICK packet : packet = Head(replay_batch[h])
    OBVIOUS
  <2>2. /\ handler_pc[h] = "replay" /\ replay_batch[h] # <<>> /\ ~limit_reached(h)
        /\ packet.seq_num = expected_packet_seq[h]
        /\ ProcessPacket(h, packet, "replay")
        /\ replay_batch' = [replay_batch EXCEPT ![h] = Tail(replay_batch[h])]
        /\ UNCHANGED <<handler_pc, limit, buffered_packets, multicast, packets, server_pc,
                       found, reply>>
    BY <1>3, <2>1 DEF ProcessReplay, Acceptable, recoveryVars, socketVars
  <2>3. AllGenuine(packets, Tail(replay_batch[h])) /\ Genuine(packets, packet)
    BY <1>2, <2>1, <2>2, TailGenuine DEF BuffersInv
  <2>4. OnlyHandler(h) /\ handler_pc'[h] = "replay"
    BY <1>1, <2>2 DEF OnlyHandler, ProcessPacket, HandlersInv
  <2>5. ProgressInv(h)' /\ Len(applied'[h]) >= Len(applied[h])
    BY <1>1, <2>2, <2>3, <2>4, ProcessKeepsProgress
  <2>6. replay_batch'[h] = Tail(replay_batch[h])
    BY <1>1, <2>2 DEF HandlersInv
  <2>7. BuffersInv(h)'
    BY <1>2, <2>2, <2>3, <2>6 DEF BuffersInv
  <2> QED  BY <2>2, <2>4, <2>5, <2>7, OneHandler DEF Forward
<1>4. CASE ProcessDrain(h)
  <2>1. PICK packet : packet = buffered_packets[h][expected_packet_seq[h]]
    OBVIOUS
  <2>2. /\ handler_pc[h] = "drain" /\ ~limit_reached(h)
        /\ expected_packet_seq[h] \in DOMAIN buffered_packets[h]
        /\ ProcessPacket(h, packet, "drain")
        /\ buffered_packets' =
             [buffered_packets EXCEPT ![h] =
                [s \in DOMAIN buffered_packets[h] \ {expected_packet_seq[h]} |->
                   buffered_packets[h][s]]]
        /\ UNCHANGED <<handler_pc, limit, replay_batch, multicast, packets, server_pc,
                       found, reply>>
    BY <1>4, <2>1 DEF ProcessDrain, recoveryVars, socketVars
  <2>3. Genuine(packets, packet) /\ packet.seq_num = expected_packet_seq[h]
    BY <1>2, <2>1, <2>2 DEF BuffersInv
  <2>4. OnlyHandler(h) /\ handler_pc'[h] = "drain"
    BY <1>1, <2>2 DEF OnlyHandler, ProcessPacket, HandlersInv
  <2>5. ProgressInv(h)' /\ Len(applied'[h]) >= Len(applied[h])
    BY <1>1, <2>2, <2>3, <2>4, ProcessKeepsProgress
  <2>6. buffered_packets'[h] = [s \in DOMAIN buffered_packets[h] \ {expected_packet_seq[h]} |->
                                  buffered_packets[h][s]]
    BY <1>1, <2>2 DEF HandlersInv
  <2>7. BuffersInv(h)'
    BY <1>2, <2>2, <2>6 DEF BuffersInv
  <2> QED  BY <2>2, <2>4, <2>5, <2>7, OneHandler DEF Forward
<1>5. CASE /\ ~ProcessDrain(h)
           /\ ~(ProcessReplay(h) /\ Acceptable(h, Head(replay_batch[h])))
  <2>1. /\ UNCHANGED <<limit, expected_packet_seq, applied, buffered_packets, multicast,
                       packets, server_pc, found>>
        /\ reply' = reply \/ reply' = [reply EXCEPT ![h] = NoReply]
    BY <1>5
    DEF HandlerStep, HandlerKilled, ReplayArrives, ReplyEof, ProcessReplay, ReplayOver,
        DrainOver, LimitReached, TakeReply, close_connection, recoveryVars, socketVars
  <2>2. \E pc \in {"replay", "failed", "drain", "recv", "done", "killed"} :
          /\ handler_pc' = [handler_pc EXCEPT ![h] = pc]
          /\ pc = "recv" => ~limit_reached(h)
    BY <1>5
    DEF HandlerStep, HandlerKilled, ReplayArrives, ReplyEof, ProcessReplay, ReplayOver,
        DrainOver, LimitReached, Goto
  <2>3. \E batch : /\ replay_batch' = [replay_batch EXCEPT ![h] = batch]
                   /\ AllGenuine(packets, batch)
    <3>1. CASE ReplayArrives(h)
      <4>1. AllGenuine(packets, reply[h].frames) /\ AllGenuine(packets, replay_batch[h])
        BY <1>1, <1>2 DEF ServerInv, BuffersInv
      <4>2. replay_batch = [replay_batch EXCEPT ![h] = replay_batch[h]]
        BY <1>1 DEF HandlersInv
      <4> QED  BY <3>1, <4>1, <4>2 DEF ReplayArrives
    <3>2. CASE ReplayOver(h)
      BY <3>2, EmptyGenuine DEF ReplayOver
    <3>3. CASE ProcessReplay(h)
      <4>1. AllGenuine(packets, Tail(replay_batch[h]))
        BY <1>2, <3>3, TailGenuine DEF BuffersInv, ProcessReplay
      <4> QED  BY <3>3, <4>1 DEF ProcessReplay
    <3>4. CASE UNCHANGED replay_batch
      BY <1>1, <1>2, <3>4 DEF HandlersInv, BuffersInv
    <3> QED
      BY <1>5, <3>1, <3>2, <3>3, <3>4
      DEF HandlerStep, HandlerKilled, ReplyEof, DrainOver, LimitReached
  <2>4. OnlyHandler(h) /\ (handler_pc'[h] = "recv" => ~limit_reached(h))
    BY <1>1, <2>1, <2>2, <2>3 DEF OnlyHandler, HandlersInv
  <2>5. AllGenuine(packets, replay_batch'[h])
    BY <1>1, <2>3 DEF HandlersInv
  <2>6. ProgressInv(h)'
    BY <1>1, <2>1, <2>4, WaitKeepsProgress
  <2>7. BuffersInv(h)'
    BY <1>2, <2>1, <2>5 DEF BuffersInv
  <2>8. Len(applied'[h]) >= Len(applied[h])
    BY <1>2, <2>1 DEF ProgressInv
  <2> QED  BY <2>1, <2>4, <2>6, <2>7, <2>8, OneHandler DEF Forward
<1> QED
  BY <1>3, <1>4, <1>5

-----------------------------------------------------------------------------
(* The system.                                                             *)

\* Every step of the system keeps the invariant.
LEMMA NextInv == ASSUME NoWrap, IInv, [Next]_vars PROVE IInv'
<1>1. CASE ExchangeStep
  BY <1>1, StoreInv, SendInv, StopInv DEF ExchangeStep, Publisher
<1>2. CASE ServerStep \/ ServerFails
  BY <1>2, ServerStepInv
<1>3. CASE HandlersStep
  BY <1>3, ReceiveInv, HandlerStepInv DEF HandlersStep
<1>4. CASE UNCHANGED vars
  <2>1. UNCHANGED <<exchangeVars, handlerVars, multicast, packets, server_pc, found, reply>>
    BY <1>4 DEF vars, recoveryVars, socketVars
  <2>2. HistoryInv' /\ Stored' = Stored /\ Extends(packets, packets')
    BY <2>1, HistoryKept DEF IInv, Extends
  <2>3. HandlersInv'
    BY <2>1, <2>2, HandlersKept DEF IInv, HistoryInv, Stored, exchangeVars
  <2> QED
    BY <2>1, <2>2, <2>3, NetworkKept, ServerKept DEF IInv, FramesInv
<1> QED  BY <1>1, <1>2, <1>3, <1>4 DEF Next, NextPollWorks

\* The inductive invariant is an invariant of the system.
THEOREM Invariance == ASSUME NoWrap PROVE Spec => []IInv
<1>1. Init => IInv
  BY InitInv
<1>2. IInv /\ [Next]_vars => IInv'
  BY NextInv
<1> QED  BY <1>1, <1>2, PTL DEF Spec

\* Whatever is lost, repeated, reordered or replayed, and whoever is killed, a
\* handler's book is given a prefix of the generator's messages: the sequence
\* checks of the receive loop and process_packet_bytes are enough, for any
\* number of handlers, messages and packet sizes, while sequence numbers last.
THEOREM BookIsGivenAPrefix == ASSUME NoWrap PROVE Spec => []AppliedIsPrefix
<1>1. IInv => AppliedIsPrefix
  BY DEF IInv, HandlersInv, ProgressInv, AppliedIsPrefix
<1> QED  BY <1>1, Invariance, PTL

\* What the receive loop discards as stale (main.cpp, packet_seq below
\* expected_packet_seq) was applied, as long as sequence numbers last.
THEOREM StaleIsRedundant == ASSUME NoWrap PROVE Spec => []StaleWasApplied
<1>1. IInv => StaleWasApplied
  <2> SUFFICES ASSUME IInv, NEW h \in Handlers, handler_pc[h] = "recv",
                      NEW packet \in multicast, packet.seq_num < expected_packet_seq[h],
                      NEW i \in 1 .. packet.msg_count
               PROVE  packet.messages[i] <= Len(applied[h])
    BY DEF StaleWasApplied
  <2>1. PICK n \in Nat : n = Stored /\ DOMAIN packets = 1 .. n /\ Chain(packets, n, generated)
    BY DEF IInv, HistoryInv, Stored
  <2>2. PICK e \in 1 .. n + 1 :
          e = expected_packet_seq[h] /\ Len(applied[h]) = LastOf(packets, e - 1)
    BY <2>1 DEF IInv, HandlersInv, ProgressInv
  <2>3. PICK s \in 1 .. n : s = packet.seq_num /\ packet = packets[s]
    BY <2>1 DEF IInv, NetworkInv, Genuine
  <2>4. s <= e - 1 /\ e - 1 \in 1 .. n
    BY <2>2, <2>3
  <2>5. LastOf(packets, s) <= LastOf(packets, e - 1)
    BY <2>1, <2>4 DEF Chain
  <2>6. packet.messages[i] \in Nat /\ packet.messages[i] <= LastOf(packets, s)
    BY <2>1, <2>3, MessageBounded
  <2>7. LastOf(packets, s) \in Nat /\ LastOf(packets, e - 1) \in Nat
    BY <2>1, <2>4, LastIsNat
  <2> QED  BY <2>2, <2>5, <2>6, <2>7
<1> QED  BY <1>1, Invariance, PTL

-----------------------------------------------------------------------------
(* The system implements the ordered feed.                                 *)

\* A handler that went forward was delivered messages in order.
LEMMA ForwardDelivers ==
  ASSUME NEW h \in Handlers, IInv, IInv', Forward(h), generated' = generated
  PROVE  Feed!Deliver(h)
<1>1. PICK n \in Nat : n = Len(applied'[h])
  <2>1. applied'[h] \in Seq(Nat)
    BY DEF IInv, HandlersInv, ProgressInv
  <2> QED  BY <2>1
<1>2. /\ applied'[h] \in Seq(Nat)
      /\ \A i \in 1 .. n : applied'[h][i] = i
      /\ n \in Len(applied[h]) .. generated
  BY <1>1 DEF IInv, HandlersInv, ProgressInv, Forward, HistoryInv
<1>3. applied'[h] = [i \in 1 .. n |-> i]
  BY <1>1, <1>2
<1>4. applied' = [applied EXCEPT ![h] = [i \in 1 .. n |-> i]]
  BY <1>3 DEF Forward, OnlyHandler
<1> QED  BY <1>2, <1>4 DEF Feed!Deliver

\* Every step of the system generates messages, delivers some, or does neither.
LEMMA StepRefines ==
  ASSUME NoWrap, IInv, [Next]_vars
  PROVE  [Feed!Next]_(Feed!vars)
<1>1. IInv'
  BY NextInv
<1>2. CASE StorePacket /\ UNCHANGED handlerVars
  <2>1. /\ generated \in Nat /\ emitted_messages < Messages
        /\ generated' = generated + BatchSize /\ applied' = applied
    BY <1>2 DEF StorePacket, handlerVars, IInv, HistoryInv
  <2>2. BatchSize \in 1 .. Messages - emitted_messages
    BY <2>1, BufferFacts DEF IInv
  <2>3. generated' \in Nat /\ generated' > generated
    BY <2>1, <2>2, ExchangeAssumption DEF IInv, HistoryInv
  <2> QED  BY <2>1, <2>3 DEF Feed!Next, Feed!Generate
<1>3. CASE HandlersStep
  <2>1. PICK h \in Handlers : HandlerStep(h) \/ Receive(h) \/ HandlerKilled(h)
    BY <1>3 DEF HandlersStep
  <2>2. Forward(h) /\ generated' = generated
    BY <1>3, <2>1, ReceiveInv, HandlerStepInv DEF HandlersStep, exchangeVars
  <2> QED  BY <1>1, <2>2, ForwardDelivers DEF Feed!Next
<1>4. CASE UNCHANGED <<generated, applied>>
  BY <1>4 DEF Feed!vars
<1>5. CASE ~(StorePacket /\ UNCHANGED handlerVars) /\ ~HandlersStep
  <2>1. UNCHANGED <<generated, applied>>
    BY <1>5
    DEF Next, NextPollWorks, ExchangeStep, Publisher, SendPacket, SendThrows, GraceOver,
        JoinReturns, ExchangeKilled, ServerStep, ServerThread, ServerFails, vars,
        exchangeVars, handlerVars
  <2> QED  BY <1>4, <2>1
<1> QED  BY <1>2, <1>3, <1>5

\* The exchange's history and the handlers' progress implement OrderedFeed: in
\* every step each consumer is given the next messages, or nothing.
THEOREM ImplementsOrderedFeed == ASSUME NoWrap PROVE Spec => FeedIsOrdered
<1>1. Init => Feed!Init
  BY DEF Init, ExchangeInit, HandlerInit, Feed!Init
<1>2. IInv /\ [Next]_vars => [Feed!Next]_(Feed!vars)
  BY StepRefines
<1> QED  BY <1>1, <1>2, Invariance, PTL DEF Spec, FeedIsOrdered, Feed!Spec
=============================================================================
