---------------------------- MODULE MCWireFormat ----------------------------
(***************************************************************************)
(* Bytes of eight values, and fields at the ends of their ranges and with  *)
(* bytes that differ from each other.                                      *)
(***************************************************************************)
EXTENDS WireFormat

MCCharCode == [A |-> 1, M |-> 2, D |-> 3, T |-> 4, B |-> 5, S |-> 6]

MCSeqNums == {0, 668, 8 ^ 4 - 1}          \* 668 is 1234 in octal

MCTscs == {0, 8 ^ 8 - 1}

MCOrderIds == {1, 342391, 8 ^ 8 - 1}      \* 342391 is 1234567 in octal

MCPrices == {668, 8 ^ 4 - 1}

MCQuantities == {0, 2396}                 \* 2396 is 4534 in octal

Adds == [type : {"A"}, order_id : MCOrderIds, side : {"B", "S"},
         price : MCPrices, quantity : MCQuantities]

ModifiesAndTrades == [type : {"M", "T"}, order_id : MCOrderIds,
                      price : MCPrices, quantity : MCQuantities]

Deletes == [type : {"D"}, order_id : MCOrderIds]

AllMessages == Adds \cup ModifiesAndTrades \cup Deletes

\* One message of each type, to follow or precede any other.
OneOfEach == {m \in AllMessages : m.order_id = 342391
                                  /\ (m.type # "D" => m.price = 668 /\ m.quantity = 2396)
                                  /\ (m.type = "A" => m.side = "S")}

\* As many messages as --messages-per-packet allows.
FullBatch ==
  LET message == CHOOSE m \in OneOfEach : m.type = "A"
  IN [i \in 1 .. 42 |-> IF i % 2 = 0 THEN message ELSE [message EXCEPT !.side = "B"]]

MCBatches ==
  {<<m>> : m \in AllMessages}
    \cup {<<m, n>> : m \in AllMessages, n \in OneOfEach} \cup {FullBatch}

\* Too short for a header, shorter and longer than its msg_count says, and
\* packets whose second message has no known type or side.
MCStrays ==
  LET add == CHOOSE m \in OneOfEach : m.type = "A"
      packet == serialize_packet(1, <<add, add>>, 0)
      second == packet_size_bytes(1)
  IN {<<>>, SubSeq(packet, 1, PacketHeaderSize - 1), SubSeq(packet, 1, second),
      Append(packet, 0), [packet EXCEPT ![second + 1] = 7], [packet EXCEPT ![second + 10] = 1]}
=============================================================================
