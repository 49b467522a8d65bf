------------------------------ MODULE Protocol ------------------------------
(***************************************************************************)
(* Packets as the handler tells them apart (protocol.hpp, protocol.cpp):   *)
(* the byte length of the datagram, the header's seq_num and msg_count,    *)
(* and the messages.  A message is named by its place in the output of the *)
(* exchange's generator, so that a lost, repeated or swapped message       *)
(* shows.                                                                  *)
(***************************************************************************)
EXTENDS Integers, Sequences

CONSTANT MaxSeq   \* 2^32 - 1: seq_num is a uint32_t

ASSUME MaxSeqAssumption == MaxSeq \in Nat \ {0}

SeqNums == 0 .. MaxSeq

PacketHeaderSize == 14
kFixedMessageSize == 24

packet_size_bytes(msg_count) == PacketHeaderSize + msg_count * kFixedMessageSize

Packet == [size : Nat, seq_num : SeqNums, msg_count : Nat, messages : Seq(Nat)]

serialize_packet(seq, msgs) ==
  [size |-> packet_size_bytes(Len(msgs)), seq_num |-> seq,
   msg_count |-> Len(msgs), messages |-> msgs]

\* Whether parse_packet returns a view; a datagram too short for a header or
\* whose length disagrees with msg_count is malformed.
parse_packet(datagram) ==
  /\ datagram.size >= PacketHeaderSize
  /\ datagram.size = packet_size_bytes(datagram.msg_count)

\* ++ on a uint32_t.
NextSeq(seq) == IF seq = MaxSeq THEN 0 ELSE seq + 1

PrevSeq(seq) == IF seq = 0 THEN MaxSeq ELSE seq - 1
=============================================================================
