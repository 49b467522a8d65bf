----------------------------- MODULE WireFormat -----------------------------
(***************************************************************************)
(* Packets as bytes (protocol.hpp, protocol.cpp and the exchange's own     *)
(* serialiser): packed structs whose integers are in network byte order,   *)
(* written by one process and read through casts by the other.             *)
(*                                                                         *)
(* The fields have the widths of the code.  How many values a byte has is  *)
(* a parameter, so that TLC's integers hold a uint64_t.                    *)
(***************************************************************************)
EXTENDS Integers, Sequences

CONSTANTS ByteValues,    \* 256
          CharCode,      \* the byte of each character that has a meaning
          SeqNumValues, TscValues,
          Batches,       \* sequences of messages a packet may carry
          Strays         \* datagrams of somebody else on the group

VARIABLES wire_pc,    \* "send", "arrived", "reading", "discarded" or "thrown"
          sent,       \* what the exchange put into the packet
          datagram,   \* its bytes
          decoded     \* the messages read out of it so far

wireVars == <<wire_pc, sent, datagram, decoded>>

kPacketBufferSize == 1024
kFixedMessageSize == 24

\* sizeof of the integers, and of the packed structs field by field.
sizeof_u8 == 1
sizeof_u16 == 2
sizeof_u32 == 4
sizeof_u64 == 8

PacketHeaderSize == sizeof_u32 + sizeof_u16 + sizeof_u64

Reserved == [A |-> 6, M |-> 7, D |-> 15, T |-> 7]

StructSize ==
  LET Key == sizeof_u8 + sizeof_u64
      Amounts == sizeof_u32 + sizeof_u32
  IN [A |-> Key + sizeof_u8 + Amounts + Reserved.A, M |-> Key + Amounts + Reserved.M,
      D |-> Key + Reserved.D,                       T |-> Key + Amounts + Reserved.T]

kMaxMessagesPerPacket == (kPacketBufferSize - PacketHeaderSize) \div kFixedMessageSize

packet_size_bytes(msg_count) == PacketHeaderSize + msg_count * kFixedMessageSize

Chars == {"A", "M", "D", "T", "B", "S"}
Bytes == 0 .. ByteValues - 1

\* How many values a uint16_t, a uint32_t and a uint64_t have.
U16 == ByteValues * ByteValues
U32 == U16 * U16
U64 == U32 * U32

ASSUME WireAssumption ==
  /\ ByteValues \in Nat
  /\ kMaxMessagesPerPacket < U16
  /\ CharCode \in [Chars -> Bytes]
  /\ \A c, d \in Chars : c # d => CharCode[c] # CharCode[d]

\* The messages there are, by their types.
WireMessage ==
  [type : {"A"}, order_id : 0 .. U64 - 1, side : {"B", "S"},
   price : 0 .. U32 - 1, quantity : 0 .. U32 - 1]
  \cup [type : {"M", "T"}, order_id : 0 .. U64 - 1, price : 0 .. U32 - 1, quantity : 0 .. U32 - 1]
  \cup [type : {"D"}, order_id : 0 .. U64 - 1]

ASSUME PacketsAssumption ==
  /\ SeqNumValues \subseteq 0 .. U32 - 1
  /\ TscValues \subseteq 0 .. U64 - 1
  /\ Batches \subseteq Seq(WireMessage)
  /\ Strays \subseteq Seq(Bytes)

Zeros(n) == [i \in 1 .. n |-> 0]

\* A field of the struct that bytes are cast to.
Field(bytes, offset, width) == SubSeq(bytes, offset + 1, offset + width)

-----------------------------------------------------------------------------
(* Byte order: the most significant byte first.                            *)

htons(value) == <<value \div ByteValues, value % ByteValues>>

htonl(value) == htons(value \div U16) \o htons(value % U16)

host_to_network_u64(value) == htonl(value \div U32) \o htonl(value % U32)

ntohs(bytes) == bytes[1] * ByteValues + bytes[2]

ntohl(bytes) ==
  ntohs(Field(bytes, 0, sizeof_u16)) * U16 + ntohs(Field(bytes, sizeof_u16, sizeof_u16))

\* A variant that swaps the two words only.
MutNetworkToHostU64(bytes) ==
  ntohl(Field(bytes, sizeof_u32, sizeof_u32)) * U32 + ntohl(Field(bytes, 0, sizeof_u32))

network_to_host_u64(bytes) ==
  ntohl(Field(bytes, 0, sizeof_u32)) * U32 + ntohl(Field(bytes, sizeof_u32, sizeof_u32))

-----------------------------------------------------------------------------
(* The packed structs as they lie in memory, and what their fields hold.   *)

make_packet_header(seq_num, msg_count, publish_tsc) ==
  htonl(seq_num) \o htons(msg_count) \o host_to_network_u64(publish_tsc)

make_add_order_msg(order_id, side, price, quantity) ==
  <<CharCode["A"]>> \o host_to_network_u64(order_id) \o <<CharCode[side]>>
    \o htonl(price) \o htonl(quantity) \o Zeros(Reserved.A)

make_modify_order_msg(order_id, price, quantity) ==
  <<CharCode["M"]>> \o host_to_network_u64(order_id) \o htonl(price) \o htonl(quantity)
    \o Zeros(Reserved.M)

make_delete_order_msg(order_id) ==
  <<CharCode["D"]>> \o host_to_network_u64(order_id) \o Zeros(Reserved.D)

make_trade_msg(order_id, price, quantity) ==
  <<CharCode["T"]>> \o host_to_network_u64(order_id) \o htonl(price) \o htonl(quantity)
    \o Zeros(Reserved.T)

make_msg(m) ==
  CASE m.type = "A" -> make_add_order_msg(m.order_id, m.side, m.price, m.quantity)
    [] m.type = "M" -> make_modify_order_msg(m.order_id, m.price, m.quantity)
    [] m.type = "D" -> make_delete_order_msg(m.order_id)
    [] m.type = "T" -> make_trade_msg(m.order_id, m.price, m.quantity)

decode_seq_num(header) == ntohl(Field(header, 0, sizeof_u32))
decode_msg_count(header) == ntohs(Field(header, sizeof_u32, sizeof_u16))
decode_publish_tsc(header) ==
  network_to_host_u64(Field(header, sizeof_u32 + sizeof_u16, sizeof_u64))

\* The price is after the side, where a message has one.
PriceOffset(type) == sizeof_u8 + sizeof_u64 + (IF type = "A" THEN sizeof_u8 ELSE 0)

decode_order_id(chunk) == network_to_host_u64(Field(chunk, sizeof_u8, sizeof_u64))
decode_price(type, chunk) == ntohl(Field(chunk, PriceOffset(type), sizeof_u32))
decode_quantity(type, chunk) == ntohl(Field(chunk, PriceOffset(type) + sizeof_u32, sizeof_u32))
SideByte(chunk) == chunk[sizeof_u8 + sizeof_u64 + 1]

-----------------------------------------------------------------------------
(* Writing packets.                                                        *)

\* memcpy to an offset of a buffer.
Copy(buffer, offset, bytes) ==
  [i \in DOMAIN buffer |->
     IF i - offset \in DOMAIN bytes THEN bytes[i - offset] ELSE buffer[i]]

\* The loop over the messages: each is copied to the cursor, which then moves on
\* by what there is in advance for its type.
Written(buffer, messages, advance) ==
  LET after[n \in 0 .. Len(messages)] ==
        IF n = 0 THEN [bytes |-> buffer, cursor |-> PacketHeaderSize]
        ELSE LET before == after[n - 1]
             IN [bytes |-> Copy(before.bytes, before.cursor, make_msg(messages[n])),
                 cursor |-> before.cursor + advance[messages[n].type]]
  IN after[Len(messages)].bytes

\* serialize_packet of protocol.cpp, into a vector of the right size.
serialize_packet(seq_num, messages, publish_tsc) ==
  LET buffer == Copy(Zeros(packet_size_bytes(Len(messages))), 0,
                     make_packet_header(seq_num, Len(messages), publish_tsc))
  IN Written(buffer, messages, [type \in DOMAIN StructSize |-> kFixedMessageSize])

\* A variant that goes on by the bytes before reserved.
MutSerializeToBuffer(seq_num, publish_tsc, messages) ==
  LET buffer == Copy(Zeros(kPacketBufferSize), 0,
                     make_packet_header(seq_num, Len(messages), publish_tsc))
  IN SubSeq(Written(buffer, messages, [A |-> 18, M |-> 17, D |-> 9, T |-> 17]),
            1, packet_size_bytes(Len(messages)))

\* The exchange's serialize_packet_to_buffer, which moves on by the size of
\* each struct in its fixed buffer, and the part of the buffer that is sent.
serialize_packet_to_buffer(seq_num, publish_tsc, messages) ==
  LET buffer == Copy(Zeros(kPacketBufferSize), 0,
                     make_packet_header(seq_num, Len(messages), publish_tsc))
  IN SubSeq(Written(buffer, messages, StructSize), 1, packet_size_bytes(Len(messages)))

-----------------------------------------------------------------------------
(* Reading packets.                                                        *)

\* A variant that accepts bytes after the last message.
MutParsePacket(bytes) ==
  /\ Len(bytes) >= PacketHeaderSize
  /\ Len(bytes) >= packet_size_bytes(decode_msg_count(bytes))

\* Whether parse_packet returns a view.
parse_packet(bytes) ==
  /\ Len(bytes) >= PacketHeaderSize
  /\ Len(bytes) = packet_size_bytes(decode_msg_count(bytes))

\* message_type_from_char and side_from_char: the character a byte stands for,
\* if it is one of those asked for.
CharOf(byte) == CHOOSE c \in Chars : CharCode[c] = byte

IsOneOf(byte, chars) == \E c \in chars : CharCode[c] = byte

NoMessage == [type |-> "none"]

\* The part of message_bytes that is the message at an index.
Chunk(bytes, index) == Field(bytes, packet_size_bytes(index), kFixedMessageSize)

\* What the decode functions make of a message of a type.
Decoded(type, chunk) ==
  CASE type = "A" -> [type |-> type, order_id |-> decode_order_id(chunk),
                      side |-> CharOf(SideByte(chunk)),
                      price |-> decode_price(type, chunk),
                      quantity |-> decode_quantity(type, chunk)]
    [] type \in {"M", "T"} -> [type |-> type, order_id |-> decode_order_id(chunk),
                               price |-> decode_price(type, chunk),
                               quantity |-> decode_quantity(type, chunk)]
    [] type = "D" -> [type |-> type, order_id |-> decode_order_id(chunk)]

\* A variant that takes any known character for a side.
MutMessageAt(bytes, index) ==
  LET chunk == Chunk(bytes, index)
      type == CharOf(Head(chunk))
  IN IF /\ IsOneOf(Head(chunk), {"A", "M", "D", "T"})
        /\ type = "A" => IsOneOf(SideByte(chunk), Chars)
     THEN Decoded(type, chunk)
     ELSE NoMessage

\* message_at, for an index below msg_count, and the decoding of what it
\* returns: nothing for an unknown type or an Add with an unknown side.
message_at(bytes, index) ==
  LET chunk == Chunk(bytes, index)
      type == CharOf(Head(chunk))
  IN IF /\ IsOneOf(Head(chunk), {"A", "M", "D", "T"})
        /\ type = "A" => IsOneOf(SideByte(chunk), {"B", "S"})
     THEN Decoded(type, chunk)
     ELSE NoMessage

-----------------------------------------------------------------------------
(* A packet on its way.                                                    *)

\* What sent holds when no packet of the exchange is on its way; sent is not in
\* the code.
Nothing == [seq_num |-> 0, publish_tsc |-> 0, messages |-> <<>>]

WireInit ==
  /\ wire_pc = "send"
  /\ sent = Nothing
  /\ datagram = <<>>
  /\ decoded = <<>>

\* The exchange serialises a batch and sends it.
Send ==
  /\ wire_pc = "send"
  /\ \E seq_num \in SeqNumValues, publish_tsc \in TscValues, messages \in Batches :
       /\ Len(messages) <= kMaxMessagesPerPacket
       /\ sent' = [seq_num |-> seq_num, publish_tsc |-> publish_tsc, messages |-> messages]
       /\ datagram' = serialize_packet_to_buffer(seq_num, publish_tsc, messages)
  /\ wire_pc' = "arrived"
  /\ UNCHANGED decoded

Stray ==
  /\ wire_pc = "send"
  /\ datagram' \in Strays
  /\ wire_pc' = "arrived"
  /\ UNCHANGED <<sent, decoded>>

\* The handler takes the header apart, or discards the datagram.
Parse ==
  /\ wire_pc = "arrived"
  /\ wire_pc' = IF parse_packet(datagram) THEN "reading" ELSE "discarded"
  /\ UNCHANGED <<sent, datagram, decoded>>

\* The next turn of the handler's loop; a message that is none throws.
ReadMessage ==
  /\ wire_pc = "reading"
  /\ Len(decoded) < decode_msg_count(datagram)
  /\ LET message == message_at(datagram, Len(decoded))
     IN IF message = NoMessage
        THEN wire_pc' = "thrown" /\ UNCHANGED decoded
        ELSE decoded' = Append(decoded, message) /\ UNCHANGED wire_pc
  /\ UNCHANGED <<sent, datagram>>

\* The packet has been read, or discarded: the next one.
PacketOver ==
  /\ \/ wire_pc = "discarded"
     \/ wire_pc = "reading" /\ Len(decoded) = decode_msg_count(datagram)
  /\ wire_pc' = "send"
  /\ sent' = Nothing /\ datagram' = <<>> /\ decoded' = <<>>

WireNext == Send \/ Stray \/ Parse \/ ReadMessage \/ PacketOver

WireSpec == WireInit /\ [][WireNext]_wireVars

-----------------------------------------------------------------------------
(* Properties.                                                             *)

\* What the exchange sends the handler accepts, and reads back field by field:
\* byte order, offsets and sizes agree on both sides (make_*, decode_*, the
\* casts of message_at).
ReadsWhatWasSent ==
  sent # Nothing =>
    /\ wire_pc \notin {"discarded", "thrown"}
    /\ wire_pc = "reading" =>
       /\ decode_seq_num(datagram) = sent.seq_num
       /\ decode_msg_count(datagram) = Len(sent.messages)
       /\ decode_publish_tsc(datagram) = sent.publish_tsc
       /\ decoded = SubSeq(sent.messages, 1, Len(decoded))

\* The two serialisers, which share no code for the body of a packet, write
\* the same bytes (serialize_packet, serialize_packet_to_buffer).
SerializersAgree ==
  wire_pc = "arrived" /\ sent # Nothing =>
    datagram = serialize_packet(sent.seq_num, sent.messages, sent.publish_tsc)

\* The sequencing model's packets.
Abstract == INSTANCE Protocol WITH MaxSeq <- U32 - 1

\* A part of a packet, or a packet with a tail, is malformed, and parse_packet
\* decides as the sequencing model says it does.
OnlyWholePackets ==
  wire_pc = "arrived" =>
    LET View(bytes) == [size |-> Len(bytes),
                        msg_count |-> IF Len(bytes) < PacketHeaderSize THEN 0
                                      ELSE decode_msg_count(bytes)]
        Parts == {SubSeq(datagram, 1, n) : n \in 0 .. Len(datagram) - 1}
        Tailed == {datagram \o Zeros(n) : n \in 1 .. kFixedMessageSize}
    IN /\ sent # Nothing => \A bytes \in Parts \cup Tailed : ~parse_packet(bytes)
       /\ \A bytes \in Parts \cup Tailed \cup {datagram} :
            parse_packet(bytes) <=> Abstract!parse_packet(View(bytes))

\* Whatever arrives, the messages the handler gets out of it lie within it, and
\* have a type, a side and numbers a message can have (the length check of
\* parse_packet, message_at and its casts).
OnlyWellFormedMessages ==
  /\ decoded \in Seq(WireMessage)
  /\ decoded # <<>> => packet_size_bytes(Len(decoded)) <= Len(datagram)

\* Whatever byte stands where the type, or the side of an Add, should be, a
\* message comes out only if it is one of the characters the enums list.
UnknownBytesRejected ==
  wire_pc = "arrived" =>
    \A i \in DOMAIN sent.messages, byte \in 0 .. ByteValues - 1 :
      LET At(offset) ==
            message_at([datagram EXCEPT ![packet_size_bytes(i - 1) + offset] = byte], i - 1)
      IN /\ At(1) # NoMessage => At(1).type \in {"A", "M", "D", "T"} /\ CharCode[At(1).type] = byte
         /\ sent.messages[i].type = "A" =>
              (At(10) # NoMessage <=> byte \in {CharCode["B"], CharCode["S"]})
=============================================================================
