-------------------------- MODULE WireFormatProofs --------------------------
(***************************************************************************)
(* Proofs that the handler reads what the exchange wrote, for any messages,*)
(* fields of any value and packets of any length, and that nothing else is *)
(* taken for a packet or a message.                                        *)
(***************************************************************************)
EXTENDS WireFormat, SequenceTheorems, WellFoundedInduction, TLAPS

-----------------------------------------------------------------------------
(* Numbers and bytes.                                                      *)

\* A whole number of times and what is left.
LEMMA Division ==
  ASSUME NEW u \in Nat, u > 0, NEW v \in Nat
  PROVE  v = u * (v \div u) + (v % u)
  BY SMT

\* There is one way to write a number as so many wholes and a rest.
LEMMA Halves ==
  ASSUME NEW u \in Nat \ {0}, NEW w \in Nat, NEW v \in 0 .. w * u - 1
  PROVE  /\ v \div u \in 0 .. w - 1
         /\ v % u \in 0 .. u - 1
         /\ (v \div u) * u + (v % u) = v
<1>1. v \in Nat /\ u > 0
  OBVIOUS
<1>2. v \div u \in Nat /\ v % u \in 0 .. u - 1
  BY <1>1
<1>3. v = (v \div u) * u + (v % u)
  BY <1>1, Division
<1>4. v \div u < w
  <2>1. PICK q \in Nat : q = v \div u
    BY <1>2
  <2>2. q * u <= v
    BY <1>2, <1>3, <2>1
  <2>3. q * u < w * u
    BY <2>2
  <2>4. q < w
    <3> SUFFICES ASSUME q >= w  PROVE FALSE
      BY <2>1
    <3>1. q * u >= w * u
      OBVIOUS
    <3> QED  BY <2>3, <3>1
  <2> QED  BY <2>1, <2>4
<1> QED  BY <1>2, <1>3, <1>4

\* The numbers of values are numbers.
LEMMA Widths == /\ ByteValues \in Nat \ {0} /\ U16 \in Nat \ {0}
                /\ U32 \in Nat \ {0} /\ U64 \in Nat \ {0}
<1>1. ByteValues \in Nat \ {0}
  <2>1. CharCode["A"] \in Bytes
    BY WireAssumption DEF Chars
  <2> QED  BY <2>1, WireAssumption DEF Bytes
<1>2. U16 \in Nat \ {0}
  BY <1>1 DEF U16
<1>3. U32 \in Nat \ {0}
  BY <1>2 DEF U32
<1>4. U64 \in Nat \ {0}
  BY <1>3 DEF U64
<1> QED  BY <1>1, <1>2, <1>3, <1>4

LEMMA Sizes == /\ sizeof_u8 \in Nat \ {0} /\ sizeof_u16 \in Nat \ {0}
               /\ sizeof_u32 \in Nat \ {0} /\ sizeof_u64 \in Nat \ {0}
  BY DEF sizeof_u8, sizeof_u16, sizeof_u32, sizeof_u64

\* The fields in the first so many bytes are the same.
SameFields(s, t, length) ==
  \A offset \in Nat, width \in Nat \ {0} :
    offset + width <= length => Field(s, offset, width) = Field(t, offset, width)

LEMMA SameFieldsTrans ==
  ASSUME NEW r, NEW s, NEW t, NEW m \in Nat, NEW n \in Nat, n <= m,
         SameFields(r, s, m), SameFields(s, t, n)
  PROVE  SameFields(r, t, n)
  BY DEF SameFields

\* A field put at the end of what is there: it is found where it was put, and
\* the fields before it are still found.
LEMMA FieldAppended ==
  ASSUME NEW s \in Seq(Bytes), NEW t \in Seq(Bytes), NEW m \in Nat, NEW n \in Nat \ {0},
         Len(s) = m, Len(t) = n
  PROVE  /\ s \o t \in Seq(Bytes) /\ Len(s \o t) = m + n
         /\ Field(s \o t, m, n) = t
         /\ SameFields(s \o t, s, m)
<1>1. s \o t \in Seq(Bytes) /\ Len(s \o t) = m + n
  BY ConcatProperties
<1>2. Field(s \o t, m, n) = t
  <2>1. Field(s \o t, m, n) = SubSeq(t, m + 1 - m, m + n - m)
    <3>1. m + 1 \in m + 1 .. m + n /\ m + n \in m + 1 .. m + n
      OBVIOUS
    <3> QED  BY <3>1, SubSeqOfConcat2 DEF Field
  <2>2. m + 1 - m = 1 /\ m + n - m = n
    OBVIOUS
  <2> QED  BY <2>1, <2>2, SubSeqFull
<1>3. ASSUME NEW offset \in Nat, NEW width \in Nat \ {0}, offset + width <= m
      PROVE  Field(s \o t, offset, width) = Field(s, offset, width)
  <2>1. offset + 1 \in 1 .. Len(s) /\ offset + width \in 1 .. Len(s)
    BY <1>3
  <2> QED  BY <2>1, SubSeqOfConcat1 DEF Field
<1> QED  BY <1>1, <1>2, <1>3 DEF SameFields

\* All of a sequence is a field of it.
LEMMA FieldOfAll ==
  ASSUME NEW s \in Seq(Bytes), NEW n \in Nat, Len(s) = n
  PROVE  Field(s, 0, n) = s
  BY SubSeqFull DEF Field

\* Two fields of one size, side by side.
LEMMA TwoFields ==
  ASSUME NEW s \in Seq(Bytes), NEW t \in Seq(Bytes), NEW n \in Nat \ {0},
         Len(s) = n, Len(t) = n
  PROVE  /\ s \o t \in Seq(Bytes) /\ Len(s \o t) = n + n
         /\ Field(s \o t, 0, n) = s
         /\ Field(s \o t, n, n) = t
<1>1. Field(s \o t, 0, n) = Field(s, 0, n)
  BY FieldAppended DEF SameFields
<1> QED  BY <1>1, FieldAppended, FieldOfAll

\* A uint16_t in network byte order is two bytes, and comes back.
LEMMA RoundTrip16 ==
  ASSUME NEW v \in 0 .. U16 - 1
  PROVE  htons(v) \in Seq(Bytes) /\ Len(htons(v)) = sizeof_u16 /\ ntohs(htons(v)) = v
<1>1. /\ v \div ByteValues \in Bytes /\ v % ByteValues \in Bytes
      /\ (v \div ByteValues) * ByteValues + (v % ByteValues) = v
  BY Widths, Halves DEF U16, Bytes
<1>2. htons(v) = <<v \div ByteValues, v % ByteValues>>
  BY DEF htons
<1>3. PICK b \in Bytes, c \in Bytes : htons(v) = <<b, c>> /\ b * ByteValues + c = v
  BY <1>1, <1>2
<1> QED  BY <1>3 DEF ntohs, sizeof_u16

\* The same of a uint32_t.
LEMMA RoundTrip32 ==
  ASSUME NEW v \in 0 .. U32 - 1
  PROVE  /\ htonl(v) \in Seq(Bytes) /\ Len(htonl(v)) = sizeof_u32
         /\ ntohl(htonl(v)) = v
<1>1. PICK b \in 0 .. U16 - 1, c \in 0 .. U16 - 1 :
        b = v \div U16 /\ c = v % U16 /\ b * U16 + c = v
  BY Widths, Halves DEF U32
<1>2. htonl(v) = htons(b) \o htons(c)
  BY <1>1 DEF htonl
<1>3. ntohs(htons(b)) = b /\ ntohs(htons(c)) = c
  BY RoundTrip16
<1>4. /\ htons(b) \in Seq(Bytes) /\ htons(c) \in Seq(Bytes)
      /\ Len(htons(b)) = sizeof_u16 /\ Len(htons(c)) = sizeof_u16
  BY RoundTrip16
<1>5. /\ htonl(v) \in Seq(Bytes) /\ Len(htonl(v)) = sizeof_u16 + sizeof_u16
      /\ Field(htonl(v), 0, sizeof_u16) = htons(b)
      /\ Field(htonl(v), sizeof_u16, sizeof_u16) = htons(c)
  BY <1>2, <1>4, TwoFields, Sizes
<1>6. ntohl(htonl(v)) = ntohs(htons(b)) * U16 + ntohs(htons(c))
  BY <1>5 DEF ntohl
<1>7. sizeof_u16 + sizeof_u16 = sizeof_u32
  BY DEF sizeof_u16, sizeof_u32
<1> QED  BY <1>1, <1>3, <1>5, <1>6, <1>7

\* The same of a uint64_t.
LEMMA RoundTrip64 ==
  ASSUME NEW v \in 0 .. U64 - 1
  PROVE  /\ host_to_network_u64(v) \in Seq(Bytes) /\ Len(host_to_network_u64(v)) = sizeof_u64
         /\ network_to_host_u64(host_to_network_u64(v)) = v
<1>1. PICK b \in 0 .. U32 - 1, c \in 0 .. U32 - 1 :
        b = v \div U32 /\ c = v % U32 /\ b * U32 + c = v
  BY Widths, Halves DEF U64
<1>2. host_to_network_u64(v) = htonl(b) \o htonl(c)
  BY <1>1 DEF host_to_network_u64
<1>3. ntohl(htonl(b)) = b /\ ntohl(htonl(c)) = c
  BY RoundTrip32
<1>4. /\ htonl(b) \in Seq(Bytes) /\ htonl(c) \in Seq(Bytes)
      /\ Len(htonl(b)) = sizeof_u32 /\ Len(htonl(c)) = sizeof_u32
  BY RoundTrip32
<1>5. /\ host_to_network_u64(v) \in Seq(Bytes) /\ Len(host_to_network_u64(v)) = sizeof_u32 + sizeof_u32
      /\ Field(host_to_network_u64(v), 0, sizeof_u32) = htonl(b)
      /\ Field(host_to_network_u64(v), sizeof_u32, sizeof_u32) = htonl(c)
  BY <1>2, <1>4, TwoFields, Sizes
<1>6. network_to_host_u64(host_to_network_u64(v)) = ntohl(htonl(b)) * U32 + ntohl(htonl(c))
  BY <1>5 DEF network_to_host_u64
<1>7. sizeof_u32 + sizeof_u32 = sizeof_u64
  BY DEF sizeof_u32, sizeof_u64
<1> QED  BY <1>1, <1>3, <1>5, <1>6, <1>7

-----------------------------------------------------------------------------
(* The structs: every field is where it is looked for.                     *)

LEMMA ThreeFields ==
  ASSUME NEW r \in Seq(Bytes), NEW s \in Seq(Bytes), NEW t \in Seq(Bytes),
         NEW l \in Nat \ {0}, NEW m \in Nat \ {0}, NEW n \in Nat \ {0},
         Len(r) = l, Len(s) = m, Len(t) = n
  PROVE  /\ r \o s \o t \in Seq(Bytes) /\ Len(r \o s \o t) = l + m + n
         /\ Field(r \o s \o t, 0, l) = r
         /\ Field(r \o s \o t, l, m) = s
         /\ Field(r \o s \o t, l + m, n) = t
<1>1. /\ r \o s \in Seq(Bytes) /\ Len(r \o s) = l + m
      /\ Field(r \o s, l, m) = s /\ SameFields(r \o s, r, l)
  BY FieldAppended
<1>2. PICK k \in Nat : k = l + m
  OBVIOUS
<1>3. ASSUME NEW p \in Seq(Bytes), Len(p) = k
      PROVE  /\ p \o t \in Seq(Bytes) /\ Len(p \o t) = k + n
             /\ Field(p \o t, k, n) = t /\ SameFields(p \o t, p, k)
  BY <1>3, FieldAppended
<1>4. /\ r \o s \o t \in Seq(Bytes) /\ Len(r \o s \o t) = k + n
      /\ Field(r \o s \o t, k, n) = t /\ SameFields(r \o s \o t, r \o s, k)
  BY <1>1, <1>2, <1>3, Zenon
<1>5. Field(r \o s \o t, l, m) = Field(r \o s, l, m)
  BY <1>2, <1>4 DEF SameFields
<1>6. Field(r \o s \o t, 0, l) = r
  <2>1. Field(r \o s \o t, 0, l) = Field(r \o s, 0, l)
    BY <1>2, <1>4 DEF SameFields
  <2>2. Field(r \o s, 0, l) = Field(r, 0, l)
    BY <1>1 DEF SameFields
  <2> QED  BY <2>1, <2>2, FieldOfAll
<1> QED  BY <1>1, <1>2, <1>4, <1>5, <1>6

\* A number of bytes.
IsBytes(s, n) == s \in Seq(Bytes) /\ Len(s) = n

\* The price, the quantity and the bytes reserved, after what identifies an order.
LEMMA AmountFields ==
  ASSUME NEW k \in Nat, NEW n \in Nat \ {0}, NEW m \in Nat \ {0}, NEW p, NEW r, NEW s, NEW t,
         IsBytes(p, k), IsBytes(r, n), IsBytes(s, n), IsBytes(t, m)
  PROVE  /\ IsBytes(p \o r \o s \o t, k + n + n + m)
         /\ Field(p \o r \o s \o t, k, n) = r
         /\ Field(p \o r \o s \o t, k + n, n) = s
         /\ SameFields(p \o r \o s \o t, p, k)
<1> USE DEF IsBytes
<1>1. PICK i \in Nat, j \in Nat : i = k + n /\ j = k + n + n
  OBVIOUS
<1>2. /\ p \o r \in Seq(Bytes) /\ Len(p \o r) = i /\ Field(p \o r, k, n) = r
      /\ SameFields(p \o r, p, k)
  BY <1>1, FieldAppended
<1>3. ASSUME NEW x \in Seq(Bytes), Len(x) = i
      PROVE  /\ x \o s \in Seq(Bytes) /\ Len(x \o s) = i + n /\ Field(x \o s, i, n) = s
             /\ SameFields(x \o s, x, i)
  BY <1>3, FieldAppended
<1>4. /\ p \o r \o s \in Seq(Bytes) /\ Len(p \o r \o s) = i + n
      /\ Field(p \o r \o s, i, n) = s /\ SameFields(p \o r \o s, p \o r, i)
  BY <1>2, <1>3, Zenon
<1>5. ASSUME NEW x \in Seq(Bytes), Len(x) = j
      PROVE  /\ x \o t \in Seq(Bytes) /\ Len(x \o t) = j + m
             /\ SameFields(x \o t, x, j)
  BY <1>5, FieldAppended
<1>6. i + n = j
  BY <1>1
<1>7. /\ p \o r \o s \o t \in Seq(Bytes) /\ Len(p \o r \o s \o t) = j + m
      /\ SameFields(p \o r \o s \o t, p \o r \o s, j)
  BY <1>4, <1>5, <1>6, Zenon
<1>8. SameFields(p \o r \o s \o t, p \o r, i)
  BY <1>1, <1>4, <1>7, SameFieldsTrans
<1>9. SameFields(p \o r \o s \o t, p, k)
  BY <1>1, <1>2, <1>8, SameFieldsTrans
<1>10. Field(p \o r \o s \o t, i, n) = s
  BY <1>1, <1>4, <1>7 DEF SameFields
<1>11. Field(p \o r \o s \o t, k, n) = r
  BY <1>1, <1>2, <1>8 DEF SameFields
<1> QED  BY <1>1, <1>7, <1>9, <1>10, <1>11

\* A struct ends in bytes that are zero.
LEMMA ZeroBytes ==
  ASSUME NEW n \in Nat
  PROVE  Zeros(n) \in Seq(Bytes) /\ Len(Zeros(n)) = n
<1>1. 0 \in Bytes
  BY Widths DEF Bytes
<1> QED  BY <1>1 DEF Zeros

\* A field of one byte.
LEMMA OneByte ==
  ASSUME NEW b \in Bytes
  PROVE  <<b>> \in Seq(Bytes) /\ Len(<<b>>) = sizeof_u8
  BY DEF sizeof_u8

LEMMA ByteOfField ==
  ASSUME NEW s \in Seq(Bytes), NEW offset \in Nat, NEW b \in Bytes,
         offset < Len(s), Field(s, offset, sizeof_u8) = <<b>>
  PROVE  s[offset + 1] = b
<1>1. SubSeq(s, offset + 1, offset + 1)[1] = s[offset + 1]
  <2>1. \A i \in offset + 1 .. offset + 1 : s[i] \in Bytes
    BY ElementOfSeq
  <2> QED  BY <2>1
<1>2. Field(s, offset, sizeof_u8) = SubSeq(s, offset + 1, offset + 1)
  BY DEF Field, sizeof_u8
<1> QED  BY <1>1, <1>2

LEMMA FirstByte ==
  ASSUME NEW s \in Seq(Bytes), NEW b \in Bytes, 0 < Len(s), Field(s, 0, sizeof_u8) = <<b>>
  PROVE  s[1] = b
<1>1. PICK offset \in Nat : offset = 0
  OBVIOUS
<1>2. s[offset + 1] = b
  BY <1>1, ByteOfField
<1> QED  BY <1>1, <1>2

\* The header, and what is decoded from bytes that begin with it.
LEMMA HeaderBytes ==
  ASSUME NEW seq_num \in 0 .. U32 - 1, NEW n \in 0 .. U16 - 1, NEW publish_tsc \in 0 .. U64 - 1
  PROVE  /\ make_packet_header(seq_num, n, publish_tsc) \in Seq(Bytes)
         /\ Len(make_packet_header(seq_num, n, publish_tsc)) = PacketHeaderSize
         /\ \A bytes : SameFields(bytes, make_packet_header(seq_num, n, publish_tsc), PacketHeaderSize) =>
              /\ decode_seq_num(bytes) = seq_num
              /\ decode_msg_count(bytes) = n
              /\ decode_publish_tsc(bytes) = publish_tsc
<1> DEFINE h == make_packet_header(seq_num, n, publish_tsc)
<1>1. /\ htonl(seq_num) \in Seq(Bytes) /\ Len(htonl(seq_num)) = sizeof_u32
      /\ htons(n) \in Seq(Bytes) /\ Len(htons(n)) = sizeof_u16
      /\ host_to_network_u64(publish_tsc) \in Seq(Bytes)
      /\ Len(host_to_network_u64(publish_tsc)) = sizeof_u64
  BY RoundTrip16, RoundTrip32, RoundTrip64
<1>2. h = htonl(seq_num) \o htons(n) \o host_to_network_u64(publish_tsc)
  BY DEF make_packet_header
<1> HIDE DEF h
<1>3. /\ h \in Seq(Bytes) /\ Len(h) = sizeof_u32 + sizeof_u16 + sizeof_u64
      /\ Field(h, 0, sizeof_u32) = htonl(seq_num)
      /\ Field(h, sizeof_u32, sizeof_u16) = htons(n)
      /\ Field(h, sizeof_u32 + sizeof_u16, sizeof_u64) = host_to_network_u64(publish_tsc)
  BY <1>1, <1>2, ThreeFields, Sizes
<1>4. ASSUME NEW bytes, SameFields(bytes, h, PacketHeaderSize)
      PROVE  /\ decode_seq_num(bytes) = seq_num
             /\ decode_msg_count(bytes) = n
             /\ decode_publish_tsc(bytes) = publish_tsc
  <2>1. /\ Field(bytes, 0, sizeof_u32) = Field(h, 0, sizeof_u32)
        /\ Field(bytes, sizeof_u32, sizeof_u16) = Field(h, sizeof_u32, sizeof_u16)
        /\ Field(bytes, sizeof_u32 + sizeof_u16, sizeof_u64)
             = Field(h, sizeof_u32 + sizeof_u16, sizeof_u64)
    BY <1>4, Sizes DEF SameFields, PacketHeaderSize
  <2>2. /\ decode_seq_num(bytes) = ntohl(htonl(seq_num))
        /\ decode_msg_count(bytes) = ntohs(htons(n))
        /\ decode_publish_tsc(bytes) = network_to_host_u64(host_to_network_u64(publish_tsc))
    BY <1>3, <2>1 DEF decode_seq_num, decode_msg_count, decode_publish_tsc
  <2> QED  BY <2>2, RoundTrip16, RoundTrip32, RoundTrip64
<1>5. Len(h) = PacketHeaderSize
  BY <1>3 DEF PacketHeaderSize
<1> QED  BY <1>3, <1>4, <1>5 DEF h

\* The byte of a character stands for that character only.
LEMMA CharOfCode ==
  ASSUME NEW c \in Chars
  PROVE  CharCode[c] \in Bytes /\ CharOf(CharCode[c]) = c
<1>1. CharCode[c] \in Bytes
  BY WireAssumption
<1>2. \A d \in Chars : CharCode[d] = CharCode[c] => d = c
  BY WireAssumption
<1> QED  BY <1>1, <1>2 DEF CharOf

LEMMA ReservedSizes == /\ Reserved.A \in Nat \ {0} /\ Reserved.M \in Nat \ {0}
                       /\ Reserved.D \in Nat \ {0} /\ Reserved.T \in Nat \ {0}
  BY DEF Reserved

\* An Add.
LEMMA AddBytes ==
  ASSUME NEW id \in 0 .. U64 - 1, NEW side \in {"B", "S"},
         NEW price \in 0 .. U32 - 1, NEW quantity \in 0 .. U32 - 1
  PROVE  LET b == make_add_order_msg(id, side, price, quantity)
         IN /\ b \in Seq(Bytes) /\ Len(b) = kFixedMessageSize
            /\ b[1] = CharCode["A"] /\ SideByte(b) = CharCode[side]
            /\ decode_order_id(b) = id
            /\ decode_price("A", b) = price /\ decode_quantity("A", b) = quantity
<1> DEFINE p == <<CharCode["A"]>> \o host_to_network_u64(id) \o <<CharCode[side]>>
           b == make_add_order_msg(id, side, price, quantity)
           k == sizeof_u8 + sizeof_u64 + sizeof_u8
<1>1. CharCode["A"] \in Bytes /\ CharCode[side] \in Bytes
  BY CharOfCode DEF Chars
<1>2. /\ <<CharCode["A"]>> \in Seq(Bytes) /\ Len(<<CharCode["A"]>>) = sizeof_u8
      /\ <<CharCode[side]>> \in Seq(Bytes) /\ Len(<<CharCode[side]>>) = sizeof_u8
  BY <1>1, OneByte
<1>3. /\ host_to_network_u64(id) \in Seq(Bytes) /\ Len(host_to_network_u64(id)) = sizeof_u64
      /\ htonl(price) \in Seq(Bytes) /\ Len(htonl(price)) = sizeof_u32
      /\ htonl(quantity) \in Seq(Bytes) /\ Len(htonl(quantity)) = sizeof_u32
  BY RoundTrip32, RoundTrip64
<1>4. /\ p \in Seq(Bytes) /\ Len(p) = k
      /\ Field(p, 0, sizeof_u8) = <<CharCode["A"]>>
      /\ Field(p, sizeof_u8, sizeof_u64) = host_to_network_u64(id)
      /\ Field(p, sizeof_u8 + sizeof_u64, sizeof_u8) = <<CharCode[side]>>
  <2> DEFINE r == <<CharCode["A"]>>
             t == <<CharCode[side]>>
  <2>1. r \in Seq(Bytes) /\ Len(r) = sizeof_u8 /\ t \in Seq(Bytes) /\ Len(t) = sizeof_u8
    BY <1>2
  <2>2. p = r \o host_to_network_u64(id) \o t
    OBVIOUS
  <2> HIDE DEF r, t, p
  <2>3. /\ p \in Seq(Bytes) /\ Len(p) = k
        /\ Field(p, 0, sizeof_u8) = r
        /\ Field(p, sizeof_u8, sizeof_u64) = host_to_network_u64(id)
        /\ Field(p, sizeof_u8 + sizeof_u64, sizeof_u8) = t
    BY <1>3, <2>1, <2>2, ThreeFields, Sizes
  <2> QED  BY <2>3 DEF r, t
<1>5. b = p \o htonl(price) \o htonl(quantity) \o Zeros(Reserved.A)
  BY DEF make_add_order_msg
<1>6. k \in Nat
  BY Sizes
<1> HIDE DEF p, k, b
<1>7. /\ b \in Seq(Bytes) /\ Len(b) = k + sizeof_u32 + sizeof_u32 + Reserved.A
      /\ Field(b, k, sizeof_u32) = htonl(price)
      /\ Field(b, k + sizeof_u32, sizeof_u32) = htonl(quantity)
      /\ SameFields(b, p, k)
  <2> DEFINE m == Reserved.A
             z == Zeros(m)
             x == htonl(price)
             y == htonl(quantity)
  <2>1. z \in Seq(Bytes) /\ Len(z) = m /\ m \in Nat \ {0}
    BY ReservedSizes, ZeroBytes
  <2>2. p \in Seq(Bytes) /\ Len(p) = k
    BY <1>4
  <2>3. b = p \o x \o y \o z
    BY <1>5
  <2>4. x \in Seq(Bytes) /\ Len(x) = sizeof_u32 /\ y \in Seq(Bytes) /\ Len(y) = sizeof_u32
    BY <1>3
  <2> HIDE DEF m, x, y, z
  <2>5. /\ b \in Seq(Bytes) /\ Len(b) = k + sizeof_u32 + sizeof_u32 + m
        /\ Field(b, k, sizeof_u32) = x /\ Field(b, k + sizeof_u32, sizeof_u32) = y
        /\ SameFields(b, p, k)
    <3>1. /\ IsBytes(p \o x \o y \o z, k + sizeof_u32 + sizeof_u32 + m)
          /\ Field(p \o x \o y \o z, k, sizeof_u32) = x
          /\ Field(p \o x \o y \o z, k + sizeof_u32, sizeof_u32) = y
          /\ SameFields(p \o x \o y \o z, p, k)
      <4>1. IsBytes(p, k) /\ IsBytes(x, sizeof_u32) /\ IsBytes(y, sizeof_u32) /\ IsBytes(z, m)
        BY <2>1, <2>2, <2>4 DEF IsBytes
      <4>2. m \in Nat \ {0}
        BY <2>1
      <4> QED  BY <1>6, <4>1, <4>2, AmountFields, Sizes, Zenon
    <3> QED  BY <2>3, <3>1, Zenon DEF IsBytes
  <2> QED  BY <2>5 DEF m, x, y
<1>8. Len(b) = kFixedMessageSize
  BY <1>7 DEF k, kFixedMessageSize, Reserved, sizeof_u8, sizeof_u32, sizeof_u64
<1>9. /\ Field(b, 0, sizeof_u8) = <<CharCode["A"]>>
      /\ Field(b, sizeof_u8, sizeof_u64) = host_to_network_u64(id)
      /\ Field(b, sizeof_u8 + sizeof_u64, sizeof_u8) = <<CharCode[side]>>
  BY <1>4, <1>7, Sizes DEF SameFields, k
<1>10. b[1] = CharCode["A"] /\ b[sizeof_u8 + sizeof_u64 + 1] = CharCode[side]
  <2>1. 0 < Len(b) /\ sizeof_u8 + sizeof_u64 < Len(b) /\ sizeof_u8 + sizeof_u64 \in Nat
    BY <1>7, Sizes, ReservedSizes DEF k
  <2> QED  BY <1>1, <1>7, <1>9, <2>1, ByteOfField, FirstByte, Zenon
<1>11. decode_order_id(b) = id
  BY <1>9, RoundTrip64 DEF decode_order_id
<1>12. PriceOffset("A") = k
  BY DEF PriceOffset, k
<1>13. decode_price("A", b) = price /\ decode_quantity("A", b) = quantity
  BY <1>7, <1>12, RoundTrip32 DEF decode_price, decode_quantity
<1>14. b[1] = CharCode["A"] /\ SideByte(b) = CharCode[side]
  BY <1>10 DEF SideByte
<1> QED  BY <1>7, <1>8, <1>11, <1>13, <1>14 DEF b

\* A Modify or a Trade.
AmountMessage(type, id, price, quantity, m) ==
  <<CharCode[type]>> \o host_to_network_u64(id) \o htonl(price) \o htonl(quantity) \o Zeros(m)

LEMMA AmountBytes ==
  ASSUME NEW type \in Chars, type # "A", NEW id \in 0 .. U64 - 1,
         NEW price \in 0 .. U32 - 1, NEW quantity \in 0 .. U32 - 1, NEW m \in Nat \ {0}
  PROVE  LET b == AmountMessage(type, id, price, quantity, m)
         IN /\ b \in Seq(Bytes)
            /\ Len(b) = sizeof_u8 + sizeof_u64 + sizeof_u32 + sizeof_u32 + m
            /\ b[1] = CharCode[type]
            /\ decode_order_id(b) = id
            /\ decode_price(type, b) = price /\ decode_quantity(type, b) = quantity
<1> DEFINE c == <<CharCode[type]>>
           i == host_to_network_u64(id)
           x == htonl(price)
           y == htonl(quantity)
           z == Zeros(m)
           p == c \o i
           b == p \o x \o y \o z
           k == sizeof_u8 + sizeof_u64
<1>1. CharCode[type] \in Bytes
  BY CharOfCode
<1>2. c \in Seq(Bytes) /\ Len(c) = sizeof_u8
  BY <1>1, OneByte
<1>3. i \in Seq(Bytes) /\ Len(i) = sizeof_u64
  BY RoundTrip64
<1>4. /\ x \in Seq(Bytes) /\ Len(x) = sizeof_u32
      /\ y \in Seq(Bytes) /\ Len(y) = sizeof_u32
      /\ z \in Seq(Bytes) /\ Len(z) = m
  BY RoundTrip32, ZeroBytes
<1>5. network_to_host_u64(i) = id /\ ntohl(x) = price /\ ntohl(y) = quantity
  BY RoundTrip32, RoundTrip64
<1>6. k \in Nat
  BY Sizes
<1>7. c = <<CharCode[type]>>
  OBVIOUS
<1> HIDE DEF c, i, x, y, z, k
<1>8. p \in Seq(Bytes) /\ Len(p) = k /\ Field(p, sizeof_u8, sizeof_u64) = i /\ SameFields(p, c, sizeof_u8)
  BY <1>2, <1>3, FieldAppended, Sizes DEF k
<1>9. Field(p, 0, sizeof_u8) = c
  <2>1. Field(p, 0, sizeof_u8) = Field(c, 0, sizeof_u8)
    BY <1>8, Sizes DEF SameFields
  <2> QED  BY <1>2, <2>1, FieldOfAll, Sizes
<1> HIDE DEF p
<1>10. /\ b \in Seq(Bytes) /\ Len(b) = k + sizeof_u32 + sizeof_u32 + m
      /\ Field(b, k, sizeof_u32) = x /\ Field(b, k + sizeof_u32, sizeof_u32) = y
      /\ SameFields(b, p, k)
  <2>1. IsBytes(p, k) /\ IsBytes(x, sizeof_u32) /\ IsBytes(y, sizeof_u32) /\ IsBytes(z, m)
    BY <1>4, <1>8 DEF IsBytes
  <2>2. /\ IsBytes(p \o x \o y \o z, k + sizeof_u32 + sizeof_u32 + m)
        /\ Field(p \o x \o y \o z, k, sizeof_u32) = x
        /\ Field(p \o x \o y \o z, k + sizeof_u32, sizeof_u32) = y
        /\ SameFields(p \o x \o y \o z, p, k)
    BY <1>6, <2>1, AmountFields, Sizes, Zenon
  <2> QED  BY <2>2, Zenon DEF IsBytes
<1> HIDE DEF b
<1>11. Field(b, 0, sizeof_u8) = c /\ Field(b, sizeof_u8, sizeof_u64) = i
  BY <1>8, <1>9, <1>10, Sizes DEF SameFields, k
<1>12. b[1] = CharCode[type]
  <2>1. 0 < Len(b)
    BY <1>10, Sizes DEF k
  <2> QED  BY <1>1, <1>7, <1>10, <1>11, <2>1, FirstByte, Zenon
<1>13. decode_order_id(b) = id
  BY <1>5, <1>11 DEF decode_order_id
<1>14. PriceOffset(type) = k
  BY Sizes DEF PriceOffset, k
<1>15. decode_price(type, b) = price /\ decode_quantity(type, b) = quantity
  BY <1>5, <1>10, <1>14 DEF decode_price, decode_quantity
<1>16. Len(b) = sizeof_u8 + sizeof_u64 + sizeof_u32 + sizeof_u32 + m
  BY <1>10 DEF k
<1>17. AmountMessage(type, id, price, quantity, m) = b
  BY Zenon DEF AmountMessage, b, p, c, i, x, y, z
<1> QED  BY <1>10, <1>12, <1>13, <1>15, <1>16, <1>17, Zenon

\* A Delete.
LEMMA DeleteBytes ==
  ASSUME NEW id \in 0 .. U64 - 1
  PROVE  LET b == make_delete_order_msg(id)
         IN /\ b \in Seq(Bytes) /\ Len(b) = kFixedMessageSize
            /\ b[1] = CharCode["D"] /\ decode_order_id(b) = id
<1> DEFINE m == Reserved.D
           c == <<CharCode["D"]>>
           i == host_to_network_u64(id)
           z == Zeros(m)
           b == c \o i \o z
<1>1. CharCode["D"] \in Bytes
  BY CharOfCode DEF Chars
<1>2. c \in Seq(Bytes) /\ Len(c) = sizeof_u8
  BY <1>1, OneByte
<1>3. /\ i \in Seq(Bytes) /\ Len(i) = sizeof_u64 /\ network_to_host_u64(i) = id
      /\ z \in Seq(Bytes) /\ Len(z) = m /\ m \in Nat \ {0}
  BY RoundTrip64, ZeroBytes, ReservedSizes
<1>4. c = <<CharCode["D"]>>
  OBVIOUS
<1>5. make_delete_order_msg(id) = b
  BY DEF make_delete_order_msg
<1> HIDE DEF c, i, z, m
<1>6. /\ b \in Seq(Bytes) /\ Len(b) = sizeof_u8 + sizeof_u64 + m
      /\ Field(b, 0, sizeof_u8) = c /\ Field(b, sizeof_u8, sizeof_u64) = i
  BY <1>2, <1>3, ThreeFields, Sizes
<1> HIDE DEF b
<1>7. b[1] = CharCode["D"]
  <2>1. 0 < Len(b)
    BY <1>3, <1>6, Sizes
  <2> QED  BY <1>1, <1>4, <1>6, <2>1, FirstByte, Zenon
<1>8. Len(b) = kFixedMessageSize
  BY <1>6 DEF m, kFixedMessageSize, Reserved, sizeof_u8, sizeof_u64
<1>9. decode_order_id(b) = id
  BY <1>3, <1>6 DEF decode_order_id
<1> QED  BY <1>5, <1>6, <1>7, <1>8, <1>9, Zenon

\* A message of any type.
LEMMA MessageBytes ==
  ASSUME NEW m \in WireMessage
  PROVE  /\ make_msg(m) \in Seq(Bytes) /\ Len(make_msg(m)) = kFixedMessageSize
         /\ m.type \in {"A", "M", "D", "T"} /\ StructSize[m.type] = kFixedMessageSize
         /\ make_msg(m)[1] = CharCode[m.type]
         /\ m.type = "A" => m.side \in {"B", "S"} /\ SideByte(make_msg(m)) = CharCode[m.side]
         /\ Decoded(m.type, make_msg(m)) = m
         /\ m # NoMessage
<1> DEFINE b == make_msg(m)
<1>1. m.type \in {"A", "M", "D", "T"} /\ m # NoMessage
  BY DEF WireMessage, NoMessage
<1>2. \A type \in {"A", "M", "D", "T"} : StructSize[type] = kFixedMessageSize
  BY DEF StructSize, kFixedMessageSize, Reserved, sizeof_u8, sizeof_u32, sizeof_u64
<1>3. CASE m.type = "A"
  <2>1. /\ m = [type |-> "A", order_id |-> m.order_id, side |-> m.side,
                price |-> m.price, quantity |-> m.quantity]
        /\ m.order_id \in 0 .. U64 - 1 /\ m.side \in {"B", "S"}
        /\ m.price \in 0 .. U32 - 1 /\ m.quantity \in 0 .. U32 - 1
    BY <1>3 DEF WireMessage
  <2>2. b = make_add_order_msg(m.order_id, m.side, m.price, m.quantity)
    BY <1>3 DEF make_msg
  <2>3. /\ b \in Seq(Bytes) /\ Len(b) = kFixedMessageSize
        /\ b[1] = CharCode["A"] /\ SideByte(b) = CharCode[m.side]
        /\ decode_order_id(b) = m.order_id
        /\ decode_price("A", b) = m.price /\ decode_quantity("A", b) = m.quantity
    <3>1. /\ m.order_id \in 0 .. U64 - 1 /\ m.side \in {"B", "S"}
          /\ m.price \in 0 .. U32 - 1 /\ m.quantity \in 0 .. U32 - 1
      BY <2>1
    <3> HIDE DEF b
    <3> QED  BY <2>2, <3>1, AddBytes, SMT
  <2>4. CharOf(SideByte(b)) = m.side
    BY <2>1, <2>3, CharOfCode DEF Chars
  <2>5. Decoded("A", b) = [type |-> "A", order_id |-> m.order_id, side |-> m.side,
                           price |-> m.price, quantity |-> m.quantity]
    BY <2>3, <2>4 DEF Decoded
  <2> QED  BY <1>1, <1>2, <1>3, <2>1, <2>3, <2>5
<1>4. CASE m.type \in {"M", "T"}
  <2>1. /\ m = [type |-> m.type, order_id |-> m.order_id,
                price |-> m.price, quantity |-> m.quantity]
        /\ m.order_id \in 0 .. U64 - 1
        /\ m.price \in 0 .. U32 - 1 /\ m.quantity \in 0 .. U32 - 1
    BY <1>4 DEF WireMessage
  <2>2. PICK n \in Nat \ {0} : n = 7
    OBVIOUS
  <2>3. b = AmountMessage(m.type, m.order_id, m.price, m.quantity, n)
    BY <1>4, <2>2 DEF make_msg, make_modify_order_msg, make_trade_msg, Reserved, AmountMessage
  <2>4. /\ b \in Seq(Bytes)
        /\ Len(b) = sizeof_u8 + sizeof_u64 + sizeof_u32 + sizeof_u32 + n
        /\ b[1] = CharCode[m.type]
        /\ decode_order_id(b) = m.order_id
        /\ decode_price(m.type, b) = m.price /\ decode_quantity(m.type, b) = m.quantity
    <3>1. /\ m.type \in Chars /\ m.type # "A" /\ m.order_id \in 0 .. U64 - 1
          /\ m.price \in 0 .. U32 - 1 /\ m.quantity \in 0 .. U32 - 1
      BY <1>4, <2>1 DEF Chars
    <3> HIDE DEF b
    <3> QED  BY <2>3, <3>1, AmountBytes
  <2>5. Len(b) = kFixedMessageSize
    BY <2>2, <2>4 DEF kFixedMessageSize, sizeof_u8, sizeof_u32, sizeof_u64
  <2>6. Decoded(m.type, b) = [type |-> m.type, order_id |-> m.order_id,
                              price |-> m.price, quantity |-> m.quantity]
    BY <1>4, <2>4 DEF Decoded
  <2> QED  BY <1>1, <1>2, <1>4, <2>1, <2>4, <2>5, <2>6
<1>5. CASE m.type = "D"
  <2>1. /\ m = [type |-> "D", order_id |-> m.order_id]
        /\ m.order_id \in 0 .. U64 - 1
    BY <1>5 DEF WireMessage
  <2>2. b = make_delete_order_msg(m.order_id)
    BY <1>5 DEF make_msg
  <2>3. /\ b \in Seq(Bytes) /\ Len(b) = kFixedMessageSize
        /\ b[1] = CharCode["D"] /\ decode_order_id(b) = m.order_id
    BY <2>1, <2>2, DeleteBytes, Zenon
  <2>4. Decoded("D", b) = [type |-> "D", order_id |-> m.order_id]
    BY <2>3 DEF Decoded
  <2> QED  BY <1>1, <1>2, <1>5, <2>1, <2>3, <2>4
<1> QED  BY <1>1, <1>3, <1>4, <1>5

\* What is made of the bytes of a message is the message.
LEMMA MessageRead ==
  ASSUME NEW bytes, NEW index, NEW m \in WireMessage, Chunk(bytes, index) = make_msg(m)
  PROVE  message_at(bytes, index) = m
<1>1. PICK b : b = Chunk(bytes, index)
  OBVIOUS
<1>2. /\ b \in Seq(Bytes) /\ b[1] = CharCode[m.type]
      /\ m.type \in {"A", "M", "D", "T"}
      /\ m.type = "A" => m.side \in {"B", "S"} /\ SideByte(b) = CharCode[m.side]
      /\ Decoded(m.type, b) = m
  BY <1>1, MessageBytes
<1>3. Head(b) = CharCode[m.type]
  BY <1>2
<1>4. CharOf(Head(b)) = m.type
  BY <1>2, <1>3, CharOfCode DEF Chars
<1>5. /\ IsOneOf(Head(b), {"A", "M", "D", "T"})
      /\ m.type = "A" => IsOneOf(SideByte(b), {"B", "S"})
  BY <1>2, <1>3 DEF IsOneOf
<1> QED  BY <1>1, <1>2, <1>4, <1>5, Zenon DEF message_at

-----------------------------------------------------------------------------
(* The loop over the messages.                                             *)

\* A set that holds 0 and the successor of each of its numbers holds them all.
LEMMA Induction ==
  ASSUME NEW S, 0 \in S, \A n \in Nat : n \in S => n + 1 \in S
  PROVE  \A n \in Nat : n \in S
<1> DEFINE R == OpToRel(<, Nat)
           T == Nat \ S
<1>1. SUFFICES ASSUME T # {}  PROVE FALSE
  OBVIOUS
<1>2. PICK n \in T : \A m \in T : <<m, n>> \notin R
  <2>1. IsWellFoundedOn(R, Nat)
    BY NatLessThanWellFounded
  <2> HIDE DEF R
  <2> QED  BY <1>1, <2>1, WFMin
<1>3. n \in Nat /\ n # 0
  OBVIOUS
<1>4. n - 1 \notin T
  <2>1. n - 1 \in Nat /\ n - 1 < n
    BY <1>3
  <2>2. <<n - 1, n>> \in R
    BY <1>3, <2>1 DEF OpToRel
  <2> QED  BY <1>2, <2>2
<1> QED  BY <1>3, <1>4

\* The buffer and the cursor after a number of messages, from those after one less.
Turn(f, n, buffer, messages, advance) ==
  IF n = 0 THEN [bytes |-> buffer, cursor |-> PacketHeaderSize]
  ELSE LET before == f[n - 1]
       IN [bytes |-> Copy(before.bytes, before.cursor, make_msg(messages[n])),
           cursor |-> before.cursor + advance[messages[n].type]]

IsLoop(f, last, buffer, messages, advance) ==
  f = [n \in 0 .. last |-> Turn(f, n, buffer, messages, advance)]

\* The loop goes on from wherever it is.
LEMMA LoopExists ==
  ASSUME NEW buffer, NEW messages, NEW advance, NEW last \in Nat
  PROVE  \E f : IsLoop(f, last, buffer, messages, advance)
<1> DEFINE Reached == {n \in Nat : \E f : IsLoop(f, n, buffer, messages, advance)}
<1>1. 0 \in Reached
  <2> DEFINE f == [n \in 0 .. 0 |-> [bytes |-> buffer, cursor |-> PacketHeaderSize]]
  <2>1. \A n \in 0 .. 0 : Turn(f, n, buffer, messages, advance)
                            = [bytes |-> buffer, cursor |-> PacketHeaderSize]
    BY DEF Turn
  <2>2. IsLoop(f, 0, buffer, messages, advance)
    BY <2>1 DEF IsLoop
  <2> QED  BY <2>2
<1>2. ASSUME NEW n \in Nat, n \in Reached
      PROVE  n + 1 \in Reached
  <2>1. PICK f : IsLoop(f, n, buffer, messages, advance)
    BY <1>2
  <2> DEFINE g == [i \in 0 .. n + 1 |-> IF i \in 0 .. n THEN f[i]
                                        ELSE Turn(f, i, buffer, messages, advance)]
  <2>2. ASSUME NEW i \in 0 .. n + 1
        PROVE  g[i] = Turn(g, i, buffer, messages, advance)
    <3>1. CASE i = 0
      <4>1. g[i] = f[i] /\ f[i] = Turn(f, i, buffer, messages, advance)
        BY <2>1, <3>1 DEF IsLoop
      <4>2. Turn(f, i, buffer, messages, advance) = Turn(g, i, buffer, messages, advance)
        BY <3>1 DEF Turn
      <4> QED  BY <4>1, <4>2
    <3>2. CASE i # 0
      <4>1. i - 1 \in 0 .. n + 1 /\ i - 1 \in 0 .. n
        BY <3>2
      <4>2. g[i - 1] = f[i - 1]
        BY <4>1
      <4> HIDE DEF g
      <4>3. Turn(f, i, buffer, messages, advance) = Turn(g, i, buffer, messages, advance)
        BY <3>2, <4>2, Zenon DEF Turn
      <4>4. g[i] = Turn(f, i, buffer, messages, advance)
        BY <2>1 DEF IsLoop, g
      <4> QED  BY <4>3, <4>4
    <3> QED  BY <3>1, <3>2
  <2>3. DOMAIN g = 0 .. n + 1 /\ g = [i \in 0 .. n + 1 |-> g[i]]
    OBVIOUS
  <2> HIDE DEF g
  <2>4. g = [i \in 0 .. n + 1 |-> Turn(g, i, buffer, messages, advance)]
    BY <2>2, <2>3
  <2> QED  BY <2>4 DEF IsLoop
<1> HIDE DEF Reached
<1>3. last \in Reached
  BY <1>1, <1>2, Induction
<1> QED  BY <1>3 DEF Reached

\* What has been written is what is in the buffer after the last turn.
LEMMA WrittenIsLoop ==
  ASSUME NEW buffer, NEW messages, NEW advance, Len(messages) \in Nat
  PROVE  \E f : /\ IsLoop(f, Len(messages), buffer, messages, advance)
                /\ Written(buffer, messages, advance) = f[Len(messages)].bytes
<1> DEFINE f == CHOOSE f : IsLoop(f, Len(messages), buffer, messages, advance)
<1>1. IsLoop(f, Len(messages), buffer, messages, advance)
  BY LoopExists
<1>2. Written(buffer, messages, advance) = f[Len(messages)].bytes
  BY Zenon DEF Written, IsLoop, Turn
<1> QED  BY <1>1, <1>2

\* The byte of the messages that belongs at a place of a packet.
MessageByte(messages, j) ==
  make_msg(messages[((j - PacketHeaderSize - 1) \div kFixedMessageSize) + 1]
          )[((j - PacketHeaderSize - 1) % kFixedMessageSize) + 1]

\* A buffer with a number of the messages in it.
Filled(buffer, messages, n) ==
  [j \in DOMAIN buffer |->
     IF j \in PacketHeaderSize + 1 .. packet_size_bytes(n) THEN MessageByte(messages, j)
     ELSE buffer[j]]

\* A place in a packet belongs to one message.
LEMMA PlaceOfByte ==
  ASSUME NEW n \in Nat, NEW k \in 1 .. kFixedMessageSize
  PROVE  /\ (((packet_size_bytes(n) + k) - PacketHeaderSize - 1) \div kFixedMessageSize) = n
         /\ (((packet_size_bytes(n) + k) - PacketHeaderSize - 1) % kFixedMessageSize) = k - 1
<1>1. (packet_size_bytes(n) + k) - PacketHeaderSize - 1 = n * 24 + (k - 1)
  BY DEF packet_size_bytes, kFixedMessageSize, PacketHeaderSize, sizeof_u16, sizeof_u32, sizeof_u64
<1>2. k - 1 \in 0 .. 23
  BY DEF kFixedMessageSize
<1>3. (n * 24 + (k - 1)) \div 24 = n /\ (n * 24 + (k - 1)) % 24 = k - 1
  BY <1>2
<1> QED  BY <1>1, <1>3 DEF kFixedMessageSize

LEMMA PacketSizes ==
  /\ PacketHeaderSize \in Nat /\ kFixedMessageSize \in Nat \ {0}
  /\ packet_size_bytes(0) = PacketHeaderSize
  /\ \A n \in Nat : /\ packet_size_bytes(n) \in Nat
                    /\ packet_size_bytes(n + 1) = packet_size_bytes(n) + kFixedMessageSize
                    /\ PacketHeaderSize <= packet_size_bytes(n)
  /\ \A m, n \in Nat : m <= n => packet_size_bytes(m) <= packet_size_bytes(n)
  BY DEF packet_size_bytes, kFixedMessageSize, PacketHeaderSize, sizeof_u16, sizeof_u32, sizeof_u64

\* A turn of the loop adds a message.
LEMMA TurnFills ==
  ASSUME NEW buffer \in Seq(Bytes), NEW messages \in Seq(WireMessage),
         NEW n \in Nat, n < Len(messages),
         packet_size_bytes(n + 1) <= Len(buffer)
  PROVE  Copy(Filled(buffer, messages, n), packet_size_bytes(n), make_msg(messages[n + 1]))
           = Filled(buffer, messages, n + 1)
<1> DEFINE message == make_msg(messages[n + 1])
           c == packet_size_bytes(n)
           filled == Filled(buffer, messages, n)
           copied == Copy(filled, c, message)
<1>1. DOMAIN buffer = 1 .. Len(buffer) /\ c \in Nat /\ PacketHeaderSize <= c /\ PacketHeaderSize \in Nat
  BY PacketSizes, LenProperties
<1>2. packet_size_bytes(n + 1) = c + kFixedMessageSize /\ kFixedMessageSize \in Nat \ {0}
  BY PacketSizes
<1>3. DOMAIN message = 1 .. kFixedMessageSize
  <2>1. messages[n + 1] \in WireMessage
    BY ElementOfSeq
  <2>2. message \in Seq(Bytes) /\ Len(message) = kFixedMessageSize
    BY <2>1, MessageBytes
  <2> HIDE DEF message
  <2> QED  BY <2>2, LenProperties
<1>4. DOMAIN copied = DOMAIN buffer /\ DOMAIN filled = DOMAIN buffer
  BY DEF Copy, Filled
<1>5. ASSUME NEW j \in DOMAIN buffer
      PROVE  copied[j] = Filled(buffer, messages, n + 1)[j]
  <2>1. j \in Nat \ {0}
    BY <1>1
  <2>2. copied[j] = IF j - c \in DOMAIN message THEN message[j - c] ELSE filled[j]
    BY <1>4 DEF Copy
  <2>3. filled[j] = IF j \in PacketHeaderSize + 1 .. c THEN MessageByte(messages, j) ELSE buffer[j]
    BY DEF Filled
  <2>4. Filled(buffer, messages, n + 1)[j]
          = IF j \in PacketHeaderSize + 1 .. c + kFixedMessageSize THEN MessageByte(messages, j)
            ELSE buffer[j]
    BY <1>2 DEF Filled
  <2>5. CASE j - c \in 1 .. kFixedMessageSize
    <3>1. PICK k \in 1 .. kFixedMessageSize : k = j - c /\ j = c + k
      BY <1>1, <2>1, <2>5
    <3>2. MessageByte(messages, j) = make_msg(messages[n + 1])[(k - 1) + 1]
      BY <3>1, PlaceOfByte DEF MessageByte
    <3>3. (k - 1) + 1 = j - c
      BY <3>1, <1>2
    <3>4. j \in PacketHeaderSize + 1 .. c + kFixedMessageSize
      BY <1>1, <1>2, <2>1, <2>5
    <3> HIDE DEF message, copied, filled, c
    <3> QED  BY <1>3, <2>2, <2>4, <2>5, <3>2, <3>3, <3>4 DEF message
  <2>6. CASE j - c \notin 1 .. kFixedMessageSize
    <3>1. j \in PacketHeaderSize + 1 .. c + kFixedMessageSize <=> j \in PacketHeaderSize + 1 .. c
      BY <1>1, <1>2, <2>1, <2>6
    <3> HIDE DEF message, copied, filled, c
    <3> QED  BY <1>3, <2>2, <2>3, <2>4, <2>6, <3>1
  <2> QED  BY <2>5, <2>6
<1>6. copied = [j \in DOMAIN buffer |-> copied[j]]
  BY <1>4 DEF Copy
<1>7. Filled(buffer, messages, n + 1) = [j \in DOMAIN buffer |-> Filled(buffer, messages, n + 1)[j]]
  BY DEF Filled
<1> HIDE DEF copied
<1>8. copied = Filled(buffer, messages, n + 1)
  BY <1>5, <1>6, <1>7, Zenon
<1> QED  BY <1>8 DEF copied

\* However it moves on, a serialiser that moves on by the size of a message
\* has the messages one after the other in its buffer.
LEMMA WrittenIsFilled ==
  ASSUME NEW buffer \in Seq(Bytes), NEW messages \in Seq(WireMessage), NEW advance,
         \A m \in WireMessage : advance[m.type] = kFixedMessageSize,
         packet_size_bytes(Len(messages)) <= Len(buffer)
  PROVE  Written(buffer, messages, advance) = Filled(buffer, messages, Len(messages))
<1> DEFINE last == Len(messages)
<1>1. last \in Nat
  BY LenProperties
<1>2. PICK f : /\ IsLoop(f, last, buffer, messages, advance)
               /\ Written(buffer, messages, advance) = f[last].bytes
  BY <1>1, WrittenIsLoop
<1> DEFINE Right(n) == f[n].bytes = Filled(buffer, messages, n) /\ f[n].cursor = packet_size_bytes(n)
           Done == {n \in Nat : n <= last => Right(n)}
<1>3. 0 \in Done
  <2>1. f[0] = [bytes |-> buffer, cursor |-> PacketHeaderSize]
    BY <1>1, <1>2 DEF IsLoop, Turn
  <2>2. Filled(buffer, messages, 0) = buffer
    <3>1. packet_size_bytes(0) = PacketHeaderSize /\ PacketHeaderSize \in Nat
      BY PacketSizes
    <3>2. Filled(buffer, messages, 0) = [j \in DOMAIN buffer |-> buffer[j]]
      BY <3>1 DEF Filled
    <3> QED  BY <3>2, LenProperties
  <2>3. Right(0)
    BY <2>1, <2>2, PacketSizes
  <2> QED  BY <2>3
<1>4. ASSUME NEW n \in Nat, n \in Done
      PROVE  n + 1 \in Done
  <2> SUFFICES ASSUME n + 1 <= last  PROVE Right(n + 1)
    OBVIOUS
  <2>1. n <= last /\ n < last /\ n + 1 \in 0 .. last /\ n + 1 # 0 /\ (n + 1) - 1 = n
    <3> HIDE DEF last, Done
    <3> QED  BY <1>1
  <2>2. Right(n)
    BY <1>4, <2>1
  <2>3. f[n + 1] = Turn(f, n + 1, buffer, messages, advance)
    BY <1>2, <2>1 DEF IsLoop
  <2>4. f[n + 1] = [bytes |-> Copy(f[n].bytes, f[n].cursor, make_msg(messages[n + 1])),
                    cursor |-> f[n].cursor + advance[messages[n + 1].type]]
    BY <2>1, <2>3, Zenon DEF Turn
  <2>5. packet_size_bytes(n + 1) <= Len(buffer)
    <3>1. packet_size_bytes(n + 1) <= packet_size_bytes(last) /\ packet_size_bytes(n + 1) \in Nat
          /\ packet_size_bytes(last) \in Nat
      BY <1>1, <2>1, PacketSizes
    <3> QED  BY <3>1, LenProperties
  <2>6. f[n + 1].bytes = Filled(buffer, messages, n + 1)
    BY <2>1, <2>2, <2>4, <2>5, TurnFills
  <2>7. f[n + 1].cursor = packet_size_bytes(n + 1)
    <3>1. messages[n + 1] \in WireMessage
      BY <1>1, <2>1, ElementOfSeq
    <3>2. advance[messages[n + 1].type] = kFixedMessageSize
      BY <3>1
    <3> QED  BY <2>2, <2>4, <3>2, PacketSizes
  <2> QED  BY <2>6, <2>7
<1> HIDE DEF Done
<1>5. last \in Done
  BY <1>1, <1>3, <1>4, Induction
<1> QED  BY <1>1, <1>2, <1>5 DEF Done

-----------------------------------------------------------------------------
(* The bytes of a packet.                                                  *)

PacketBytes(header, messages) ==
  [j \in 1 .. packet_size_bytes(Len(messages)) |->
     IF j <= PacketHeaderSize THEN header[j] ELSE MessageByte(messages, j)]

\* Every place after the header belongs to a message.
LEMMA MessageByteIs ==
  ASSUME NEW messages \in Seq(WireMessage),
         NEW j \in PacketHeaderSize + 1 .. packet_size_bytes(Len(messages))
  PROVE  MessageByte(messages, j) \in Bytes
<1> DEFINE o == j - PacketHeaderSize - 1
           last == Len(messages)
<1>1. last \in Nat /\ o \in Nat /\ o < last * 24
  <2>1. Len(messages) \in Nat /\ PacketHeaderSize \in Nat
    BY LenProperties, PacketSizes
  <2> QED  BY <2>1 DEF packet_size_bytes, kFixedMessageSize
<1>10. MessageByte(messages, j) = make_msg(messages[(o \div 24) + 1])[(o % 24) + 1]
  BY DEF MessageByte, kFixedMessageSize
<1> HIDE DEF o, last
<1>2. PICK i \in Nat, k \in 0 .. 23 : i = o \div 24 /\ k = o % 24 /\ o = 24 * i + k
  <2>1. o \div 24 \in Nat /\ o % 24 \in 0 .. 23 /\ o = 24 * (o \div 24) + (o % 24)
    BY <1>1
  <2> QED  BY <2>1
<1>3. i + 1 \in 1 .. last
  <2>1. 24 * i < last * 24
    BY <1>1, <1>2
  <2> QED  BY <1>1, <2>1
<1>4. MessageByte(messages, j) = make_msg(messages[i + 1])[k + 1]
  BY <1>2, <1>10
<1>5. messages[i + 1] \in WireMessage
  BY <1>3, ElementOfSeq DEF last
<1>6. make_msg(messages[i + 1]) \in Seq(Bytes) /\ Len(make_msg(messages[i + 1])) = kFixedMessageSize
  BY <1>5, MessageBytes
<1>7. k + 1 \in 1 .. kFixedMessageSize
  BY <1>2 DEF kFixedMessageSize
<1>8. make_msg(messages[i + 1])[k + 1] \in Bytes
  BY <1>6, <1>7, ElementOfSeq
<1> QED  BY <1>4, <1>8

LEMMA PacketBytesType ==
  ASSUME NEW header \in Seq(Bytes), Len(header) = PacketHeaderSize,
         NEW messages \in Seq(WireMessage)
  PROVE  /\ PacketBytes(header, messages) \in Seq(Bytes)
         /\ Len(PacketBytes(header, messages)) = packet_size_bytes(Len(messages))
<1> DEFINE size == packet_size_bytes(Len(messages))
<1>1. Len(messages) \in Nat /\ size \in Nat /\ PacketHeaderSize \in Nat
  BY LenProperties, PacketSizes
<1>2. ASSUME NEW j \in 1 .. size
      PROVE  PacketBytes(header, messages)[j] \in Bytes
  <2>1. PacketBytes(header, messages)[j]
          = IF j <= PacketHeaderSize THEN header[j] ELSE MessageByte(messages, j)
    BY DEF PacketBytes
  <2>2. CASE j <= PacketHeaderSize
    <3>1. j \in 1 .. Len(header)
      BY <1>1, <2>2
    <3> QED  BY <2>1, <2>2, <3>1, ElementOfSeq
  <2>3. CASE ~(j <= PacketHeaderSize)
    <3>1. j \in PacketHeaderSize + 1 .. packet_size_bytes(Len(messages))
      BY <1>1, <2>3
    <3> QED  BY <2>1, <2>3, <3>1, MessageByteIs
  <2> QED  BY <2>2, <2>3
<1>3. PacketBytes(header, messages) \in [1 .. size -> Bytes]
  BY <1>2 DEF PacketBytes
<1> HIDE DEF size
<1> QED  BY <1>1, <1>3 DEF size

\* The header at the start of a buffer, and the messages after it.
LEMMA FilledBuffer ==
  ASSUME NEW header \in Seq(Bytes), Len(header) = PacketHeaderSize,
         NEW messages \in Seq(WireMessage), NEW size \in Nat,
         packet_size_bytes(Len(messages)) <= size,
         NEW advance, \A m \in WireMessage : advance[m.type] = kFixedMessageSize
  PROVE  LET buffer == Copy(Zeros(size), 0, header)
         IN /\ SubSeq(Written(buffer, messages, advance), 1, packet_size_bytes(Len(messages)))
                 = PacketBytes(header, messages)
            /\ packet_size_bytes(Len(messages)) = size =>
                 Written(buffer, messages, advance) = PacketBytes(header, messages)
<1> DEFINE buffer == Copy(Zeros(size), 0, header)
           used == packet_size_bytes(Len(messages))
           filled == Filled(buffer, messages, Len(messages))
<1>1. Len(messages) \in Nat /\ used \in Nat /\ PacketHeaderSize \in Nat /\ PacketHeaderSize <= used
  BY LenProperties, PacketSizes
<1>2. DOMAIN header = 1 .. PacketHeaderSize
  BY LenProperties
<1>3. /\ DOMAIN buffer = 1 .. size
      /\ \A j \in 1 .. size : buffer[j] = IF j \in 1 .. PacketHeaderSize THEN header[j] ELSE 0
  <2>1. DOMAIN Zeros(size) = 1 .. size /\ \A j \in 1 .. size : Zeros(size)[j] = 0
    BY DEF Zeros
  <2>2. \A j \in 1 .. size : j - 0 = j
    OBVIOUS
  <2> QED  BY <1>2, <2>1, <2>2 DEF Copy
<1>4. buffer \in Seq(Bytes) /\ Len(buffer) = size
  <2>1. \A j \in 1 .. size : buffer[j] \in Bytes
    <3>1. 0 \in Bytes
      BY Widths DEF Bytes
    <3>2. \A j \in 1 .. PacketHeaderSize : header[j] \in Bytes
      BY ElementOfSeq
    <3> QED  BY <1>3, <3>1, <3>2
  <2>2. buffer = [j \in 1 .. size |-> buffer[j]]
    BY <1>3 DEF Copy
  <2> HIDE DEF buffer
  <2>3. buffer \in [1 .. size -> Bytes]
    BY <2>1, <2>2
  <2> QED  BY <2>3
<1> HIDE DEF buffer
<1>5. Written(buffer, messages, advance) = filled
  BY <1>4, WrittenIsFilled
<1>6. ASSUME NEW j \in 1 .. used
      PROVE  filled[j] = PacketBytes(header, messages)[j]
  <2>1. j \in 1 .. size
    BY <1>1
  <2>2. filled[j] = IF j \in PacketHeaderSize + 1 .. used THEN MessageByte(messages, j) ELSE buffer[j]
    BY <1>3, <2>1 DEF Filled
  <2>3. PacketBytes(header, messages)[j]
          = IF j <= PacketHeaderSize THEN header[j] ELSE MessageByte(messages, j)
    BY DEF PacketBytes
  <2>4. buffer[j] = IF j \in 1 .. PacketHeaderSize THEN header[j] ELSE 0
    BY <1>3, <2>1
  <2>5. /\ j \in PacketHeaderSize + 1 .. used <=> ~(j <= PacketHeaderSize)
        /\ j \in 1 .. PacketHeaderSize <=> j <= PacketHeaderSize
    BY <1>1
  <2> HIDE DEF filled, used
  <2> QED  BY <2>2, <2>3, <2>4, <2>5
<1>7. SubSeq(filled, 1, used) = PacketBytes(header, messages)
  <2> DEFINE p == PacketBytes(header, messages)
  <2>1. p \in Seq(Bytes) /\ Len(p) = used
    BY PacketBytesType
  <2> HIDE DEF filled, used, p
  <2>2. \A i \in 1 .. used : filled[i] \in Bytes
    BY <1>6, <2>1, ElementOfSeq DEF p
  <2>3. /\ SubSeq(filled, 1, used) \in Seq(Bytes) /\ Len(SubSeq(filled, 1, used)) = used
        /\ \A i \in 1 .. used : SubSeq(filled, 1, used)[i] = filled[i]
    BY <1>1, <2>2, SubSeqProperties
  <2>4. \A i \in 1 .. used : SubSeq(filled, 1, used)[i] = p[i]
    BY <1>6, <2>3 DEF p
  <2>5. SubSeq(filled, 1, used) = p
    BY <2>1, <2>3, <2>4, SeqEqual
  <2> QED  BY <2>5 DEF p
<1>8. used = size => filled = PacketBytes(header, messages)
  <2>1. filled = [j \in 1 .. size |-> filled[j]]
    BY <1>3 DEF Filled
  <2>2. PacketBytes(header, messages) = [j \in 1 .. used |-> PacketBytes(header, messages)[j]]
    BY DEF PacketBytes
  <2> HIDE DEF filled, used
  <2> QED  BY <1>6, <2>1, <2>2
<1> QED  BY <1>5, <1>7, <1>8 DEF buffer

\* What agrees byte for byte agrees field for field.
LEMMA SamePrefix ==
  ASSUME NEW s \in Seq(Bytes), NEW t \in Seq(Bytes), NEW n \in Nat,
         n <= Len(s), n <= Len(t), \A j \in 1 .. n : s[j] = t[j]
  PROVE  SameFields(s, t, n)
<1> SUFFICES ASSUME NEW offset \in Nat, NEW width \in Nat \ {0}, offset + width <= n
             PROVE  Field(s, offset, width) = Field(t, offset, width)
  BY DEF SameFields
<1> DEFINE first == offset + 1
           last == offset + width
<1>1. /\ Len(s) \in Nat /\ Len(t) \in Nat /\ first \in Int /\ last \in Int /\ first <= last
      /\ last - first + 1 = width
      /\ \A i \in first .. last : i \in 1 .. n /\ i \in 1 .. Len(s) /\ i \in 1 .. Len(t)
      /\ \A i \in 1 .. width : first + i - 1 \in 1 .. n
  BY LenProperties
<1> HIDE DEF first, last
<1>2. \A i \in first .. last : s[i] \in Bytes /\ t[i] \in Bytes
  BY <1>1, ElementOfSeq
<1>3. /\ SubSeq(s, first, last) \in Seq(Bytes) /\ Len(SubSeq(s, first, last)) = width
      /\ \A i \in 1 .. width : SubSeq(s, first, last)[i] = s[first + i - 1]
  BY <1>1, <1>2, SubSeqProperties
<1>4. /\ SubSeq(t, first, last) \in Seq(Bytes) /\ Len(SubSeq(t, first, last)) = width
      /\ \A i \in 1 .. width : SubSeq(t, first, last)[i] = t[first + i - 1]
  BY <1>1, <1>2, SubSeqProperties
<1>5. \A i \in 1 .. width : s[first + i - 1] = t[first + i - 1]
  BY <1>1
<1>6. SubSeq(s, first, last) = SubSeq(t, first, last)
  BY <1>3, <1>4, <1>5, SeqEqual
<1> QED  BY <1>6 DEF Field, first, last

\* The header of a packet is decoded from it.
LEMMA PacketHeaderRead ==
  ASSUME NEW header \in Seq(Bytes), Len(header) = PacketHeaderSize, NEW messages \in Seq(WireMessage)
  PROVE  SameFields(PacketBytes(header, messages), header, PacketHeaderSize)
<1>1. Len(messages) \in Nat /\ PacketHeaderSize \in Nat
      /\ packet_size_bytes(Len(messages)) \in Nat
      /\ PacketHeaderSize <= packet_size_bytes(Len(messages))
  BY LenProperties, PacketSizes
<1>2. \A j \in 1 .. PacketHeaderSize : PacketBytes(header, messages)[j] = header[j]
  <2> TAKE j \in 1 .. PacketHeaderSize
  <2>1. j \in 1 .. packet_size_bytes(Len(messages)) /\ j <= PacketHeaderSize
    BY <1>1
  <2> QED  BY <2>1 DEF PacketBytes
<1>3. /\ PacketBytes(header, messages) \in Seq(Bytes)
      /\ Len(PacketBytes(header, messages)) = packet_size_bytes(Len(messages))
  BY PacketBytesType
<1> DEFINE p == PacketBytes(header, messages)
<1> HIDE DEF p
<1>4. p \in Seq(Bytes) /\ PacketHeaderSize <= Len(p) /\ \A j \in 1 .. PacketHeaderSize : p[j] = header[j]
  BY <1>1, <1>2, <1>3 DEF p
<1>5. SameFields(p, header, PacketHeaderSize)
  BY <1>1, <1>4, SamePrefix
<1> QED  BY <1>5 DEF p

\* So is each of its messages.
LEMMA PacketMessageRead ==
  ASSUME NEW header \in Seq(Bytes), Len(header) = PacketHeaderSize,
         NEW messages \in Seq(WireMessage), NEW i \in Nat, i < Len(messages)
  PROVE  Chunk(PacketBytes(header, messages), i) = make_msg(messages[i + 1])
<1> DEFINE p == PacketBytes(header, messages)
           c == packet_size_bytes(i)
           message == make_msg(messages[i + 1])
<1>1. messages[i + 1] \in WireMessage
  BY LenProperties, ElementOfSeq
<1>2. message \in Seq(Bytes) /\ Len(message) = kFixedMessageSize
  BY <1>1, MessageBytes
<1>3. /\ c \in Nat /\ kFixedMessageSize \in Nat \ {0} /\ PacketHeaderSize \in Nat
      /\ PacketHeaderSize <= c /\ c + kFixedMessageSize <= packet_size_bytes(Len(messages))
      /\ packet_size_bytes(Len(messages)) \in Nat
  <2>1. Len(messages) \in Nat /\ i + 1 <= Len(messages)
    BY LenProperties
  <2> QED  BY <2>1, PacketSizes
<1>4. p \in Seq(Bytes) /\ Len(p) = packet_size_bytes(Len(messages))
  BY PacketBytesType
<1>5. ASSUME NEW k \in 1 .. kFixedMessageSize
      PROVE  p[c + k] = message[k]
  <2>1. c + k \in 1 .. packet_size_bytes(Len(messages)) /\ ~(c + k <= PacketHeaderSize)
    BY <1>3
  <2>2. p[c + k] = MessageByte(messages, c + k)
    BY <2>1 DEF PacketBytes
  <2>3. MessageByte(messages, c + k) = make_msg(messages[i + 1])[(k - 1) + 1]
    BY PlaceOfByte DEF MessageByte
  <2>4. (k - 1) + 1 = k
    BY <1>3
  <2> QED  BY <2>2, <2>3, <2>4
<1> HIDE DEF p, c, message
<1>6. SubSeq(p, c + 1, c + kFixedMessageSize) = message
  <2> DEFINE first == c + 1
             last == c + kFixedMessageSize
  <2>1. /\ first \in Int /\ last \in Int /\ first <= last /\ last - first + 1 = kFixedMessageSize
        /\ \A k \in 1 .. kFixedMessageSize : first + k - 1 = c + k
        /\ \A j \in first .. last : j \in 1 .. Len(p)
    BY <1>3, <1>4
  <2> HIDE DEF first, last
  <2>2. \A j \in first .. last : p[j] \in Bytes
    BY <1>4, <2>1, ElementOfSeq
  <2>3. /\ SubSeq(p, first, last) \in Seq(Bytes) /\ Len(SubSeq(p, first, last)) = kFixedMessageSize
        /\ \A k \in 1 .. kFixedMessageSize : SubSeq(p, first, last)[k] = p[first + k - 1]
    BY <2>1, <2>2, SubSeqProperties
  <2>4. \A k \in 1 .. kFixedMessageSize : SubSeq(p, first, last)[k] = message[k]
    BY <1>5, <2>1, <2>3
  <2>5. SubSeq(p, first, last) = message
    BY <1>2, <2>3, <2>4, SeqEqual
  <2> QED  BY <2>5 DEF first, last
<1> QED  BY <1>6 DEF Chunk, Field, p, c, message

\* What either serialiser makes of a packet, and what the handler makes of that.
IsPacket(bytes, seq_num, publish_tsc, messages) ==
  /\ bytes \in Seq(Bytes)
  /\ Len(bytes) = packet_size_bytes(Len(messages))
  /\ decode_seq_num(bytes) = seq_num
  /\ decode_msg_count(bytes) = Len(messages)
  /\ decode_publish_tsc(bytes) = publish_tsc
  /\ \A i \in Nat : i < Len(messages) => message_at(bytes, i) = messages[i + 1]

LEMMA Serialised ==
  ASSUME NEW seq_num \in 0 .. U32 - 1, NEW publish_tsc \in 0 .. U64 - 1,
         NEW messages \in Seq(WireMessage), Len(messages) <= kMaxMessagesPerPacket
  PROVE  /\ serialize_packet_to_buffer(seq_num, publish_tsc, messages)
              = serialize_packet(seq_num, messages, publish_tsc)
         /\ IsPacket(serialize_packet_to_buffer(seq_num, publish_tsc, messages),
                     seq_num, publish_tsc, messages)
<1> DEFINE n == Len(messages)
           header == make_packet_header(seq_num, n, publish_tsc)
           used == packet_size_bytes(n)
<1>1. /\ n \in 0 .. U16 - 1 /\ used \in Nat /\ used <= kPacketBufferSize /\ kPacketBufferSize \in Nat
  <2>1. n \in Nat /\ U16 \in Nat
    BY LenProperties, Widths
  <2>2. kMaxMessagesPerPacket = 42
    BY DEF kMaxMessagesPerPacket, kPacketBufferSize, kFixedMessageSize, PacketHeaderSize,
           sizeof_u16, sizeof_u32, sizeof_u64
  <2>3. kMaxMessagesPerPacket < U16
    BY WireAssumption
  <2> HIDE DEF n
  <2>4. n <= 42 /\ n \in 0 .. U16 - 1
    BY <2>1, <2>2, <2>3 DEF n
  <2>5. used \in Nat /\ used <= 1024
    BY <2>1, <2>4 DEF packet_size_bytes, kFixedMessageSize, PacketHeaderSize,
                      sizeof_u16, sizeof_u32, sizeof_u64
  <2> QED  BY <2>4, <2>5 DEF kPacketBufferSize
<1>2. /\ header \in Seq(Bytes) /\ Len(header) = PacketHeaderSize
      /\ \A bytes : SameFields(bytes, header, PacketHeaderSize) =>
              /\ decode_seq_num(bytes) = seq_num
              /\ decode_msg_count(bytes) = n
              /\ decode_publish_tsc(bytes) = publish_tsc
  BY <1>1, HeaderBytes
<1> DEFINE packet == PacketBytes(header, messages)
<1>3. packet \in Seq(Bytes) /\ Len(packet) = used
  BY <1>2, PacketBytesType
<1>4. \A m \in WireMessage :
        /\ StructSize[m.type] = kFixedMessageSize
        /\ [type \in DOMAIN StructSize |-> kFixedMessageSize][m.type] = kFixedMessageSize
  <2> TAKE m \in WireMessage
  <2>1. m.type \in {"A", "M", "D", "T"} /\ StructSize[m.type] = kFixedMessageSize
    BY MessageBytes
  <2>2. DOMAIN StructSize = {"A", "M", "D", "T"}
    BY DEF StructSize
  <2> QED  BY <2>1, <2>2
<1>5. serialize_packet_to_buffer(seq_num, publish_tsc, messages) = packet
  <2>1. SubSeq(Written(Copy(Zeros(kPacketBufferSize), 0, header), messages, StructSize), 1, used)
          = packet
    <3> HIDE DEF header
    <3> QED  BY <1>1, <1>2, <1>4, FilledBuffer
  <2> QED  BY <2>1, Zenon DEF serialize_packet_to_buffer
<1>6. serialize_packet(seq_num, messages, publish_tsc) = packet
  <2> DEFINE advance == [type \in DOMAIN StructSize |-> kFixedMessageSize]
  <2>1. Written(Copy(Zeros(used), 0, header), messages, advance) = packet
    <3>1. used <= used /\ \A m \in WireMessage : advance[m.type] = kFixedMessageSize
      BY <1>1, <1>4
    <3> HIDE DEF header, advance
    <3> QED  BY <1>1, <1>2, <3>1, FilledBuffer
  <2> QED  BY <2>1, Zenon DEF serialize_packet
<1>7. /\ decode_seq_num(packet) = seq_num
      /\ decode_msg_count(packet) = n
      /\ decode_publish_tsc(packet) = publish_tsc
  BY <1>2, PacketHeaderRead
<1>8. ASSUME NEW i \in Nat, i < n
      PROVE  message_at(packet, i) = messages[i + 1]
  <2>1. messages[i + 1] \in WireMessage
    BY <1>1, <1>8, ElementOfSeq
  <2>2. Chunk(packet, i) = make_msg(messages[i + 1])
    <3> HIDE DEF header
    <3> QED  BY <1>2, <1>8, PacketMessageRead
  <2> QED  BY <2>1, <2>2, MessageRead
<1> HIDE DEF packet
<1>9. IsPacket(packet, seq_num, publish_tsc, messages)
  BY <1>3, <1>7, <1>8 DEF IsPacket
<1> QED  BY <1>5, <1>6, <1>9

-----------------------------------------------------------------------------
(* Bytes of somebody else.                                                 *)

LEMMA Combined ==
  ASSUME NEW u \in Nat \ {0}, NEW w \in Nat \ {0}, NEW b \in 0 .. w - 1, NEW c \in 0 .. u - 1
  PROVE  b * u + c \in 0 .. w * u - 1
<1>1. b * u \in Nat /\ w * u \in Nat /\ b * u + c \in Nat
  OBVIOUS
<1>2. (b + 1) * u <= w * u
  <2>1. PICK d \in Nat : w = (b + 1) + d
    <3>1. w - (b + 1) \in Nat /\ w = (b + 1) + (w - (b + 1))
      OBVIOUS
    <3> QED  BY <3>1
  <2>2. w * u = (b + 1) * u + d * u /\ d * u \in Nat
    BY <2>1
  <2> QED  BY <2>2
<1>3. (b + 1) * u = b * u + u
  OBVIOUS
<1> QED  BY <1>1, <1>2, <1>3

\* A field that lies within some bytes.
LEMMA FieldType ==
  ASSUME NEW s \in Seq(Bytes), NEW offset \in Nat, NEW width \in Nat \ {0},
         offset + width <= Len(s)
  PROVE  IsBytes(Field(s, offset, width), width)
<1> DEFINE first == offset + 1
           last == offset + width
<1>1. /\ first \in Int /\ last \in Int /\ first <= last /\ last - first + 1 = width
      /\ \A i \in first .. last : i \in 1 .. Len(s)
  BY LenProperties
<1> HIDE DEF first, last
<1>2. \A i \in first .. last : s[i] \in Bytes
  BY <1>1, ElementOfSeq
<1>3. SubSeq(s, first, last) \in Seq(Bytes) /\ Len(SubSeq(s, first, last)) = width
  BY <1>1, <1>2, SubSeqProperties
<1> QED  BY <1>3 DEF Field, first, last, IsBytes

\* Any bytes stand for some number of their width.
LEMMA AnyNumber16 ==
  ASSUME NEW s, IsBytes(s, sizeof_u16)
  PROVE  ntohs(s) \in 0 .. U16 - 1
<1>1. s[1] \in Bytes /\ s[2] \in Bytes
  <2>1. s \in Seq(Bytes) /\ 1 \in 1 .. Len(s) /\ 2 \in 1 .. Len(s)
    BY DEF IsBytes, sizeof_u16
  <2> QED  BY <2>1, ElementOfSeq
<1>2. s[1] * ByteValues + s[2] \in 0 .. ByteValues * ByteValues - 1
  BY <1>1, Widths, Combined DEF Bytes
<1> QED  BY <1>2 DEF ntohs, U16

LEMMA AnyNumber32 ==
  ASSUME NEW s, IsBytes(s, sizeof_u32)
  PROVE  ntohl(s) \in 0 .. U32 - 1
<1> DEFINE b == Field(s, 0, sizeof_u16)
           c == Field(s, sizeof_u16, sizeof_u16)
<1>1. IsBytes(b, sizeof_u16) /\ IsBytes(c, sizeof_u16)
  <2>1. s \in Seq(Bytes) /\ Len(s) = sizeof_u16 + sizeof_u16 /\ 0 + sizeof_u16 <= Len(s)
    BY Sizes DEF IsBytes, sizeof_u16, sizeof_u32
  <2> QED  BY <2>1, FieldType, Sizes
<1> HIDE DEF b, c
<1>2. ntohs(b) \in 0 .. U16 - 1 /\ ntohs(c) \in 0 .. U16 - 1
  BY <1>1, AnyNumber16
<1>3. ntohs(b) * U16 + ntohs(c) \in 0 .. U16 * U16 - 1
  BY <1>2, Widths, Combined
<1> QED  BY <1>3 DEF ntohl, b, c, U32

LEMMA AnyNumber64 ==
  ASSUME NEW s, IsBytes(s, sizeof_u64)
  PROVE  network_to_host_u64(s) \in 0 .. U64 - 1
<1> DEFINE b == Field(s, 0, sizeof_u32)
           c == Field(s, sizeof_u32, sizeof_u32)
<1>1. IsBytes(b, sizeof_u32) /\ IsBytes(c, sizeof_u32)
  <2>1. s \in Seq(Bytes) /\ Len(s) = sizeof_u32 + sizeof_u32 /\ 0 + sizeof_u32 <= Len(s)
    BY Sizes DEF IsBytes, sizeof_u32, sizeof_u64
  <2> QED  BY <2>1, FieldType, Sizes
<1> HIDE DEF b, c
<1>2. ntohl(b) \in 0 .. U32 - 1 /\ ntohl(c) \in 0 .. U32 - 1
  BY <1>1, AnyNumber32
<1>3. ntohl(b) * U32 + ntohl(c) \in 0 .. U32 * U32 - 1
  BY <1>2, Widths, Combined
<1> QED  BY <1>3 DEF network_to_host_u64, b, c, U64

\* A message that comes out of any bytes is one there is, and the type and the
\* side are the ones the bytes stand for.
LEMMA AnyMessage ==
  ASSUME NEW bytes \in Seq(Bytes), NEW index \in Nat,
         packet_size_bytes(index) + kFixedMessageSize <= Len(bytes),
         message_at(bytes, index) # NoMessage
  PROVE  /\ message_at(bytes, index) \in WireMessage
         /\ CharCode[message_at(bytes, index).type] = Chunk(bytes, index)[1]
<1> DEFINE chunk == Chunk(bytes, index)
           type == CharOf(Head(chunk))
<1>1. IsBytes(chunk, kFixedMessageSize)
  BY PacketSizes, FieldType DEF Chunk
<1> HIDE DEF chunk
<1>2. chunk \in Seq(Bytes) /\ Len(chunk) = sizeof_u8 + sizeof_u64 + sizeof_u32 + sizeof_u32 + 7
  BY <1>1 DEF IsBytes, kFixedMessageSize, sizeof_u8, sizeof_u32, sizeof_u64
<1>3. /\ IsOneOf(Head(chunk), {"A", "M", "D", "T"})
      /\ type = "A" => IsOneOf(SideByte(chunk), {"B", "S"})
      /\ message_at(bytes, index) = Decoded(type, chunk)
  BY Zenon DEF message_at, chunk
<1>4. type \in {"A", "M", "D", "T"} /\ CharCode[type] = Head(chunk)
  <2>1. PICK c \in {"A", "M", "D", "T"} : CharCode[c] = Head(chunk)
    BY <1>3 DEF IsOneOf
  <2>2. c = type
    BY <2>1, CharOfCode DEF Chars
  <2> QED  BY <2>1, <2>2
<1>5. type = "A" => CharOf(SideByte(chunk)) \in {"B", "S"}
  <2> SUFFICES ASSUME type = "A"  PROVE CharOf(SideByte(chunk)) \in {"B", "S"}
    OBVIOUS
  <2>1. PICK c \in {"B", "S"} : CharCode[c] = SideByte(chunk)
    BY <1>3 DEF IsOneOf
  <2>2. CharOf(SideByte(chunk)) = c
    BY <2>1, CharOfCode DEF Chars
  <2> QED  BY <2>2
<1> HIDE DEF type
<1>6. decode_order_id(chunk) \in 0 .. U64 - 1
  <2>1. sizeof_u8 + sizeof_u64 <= Len(chunk)
    BY <1>2, Sizes
  <2>2. IsBytes(Field(chunk, sizeof_u8, sizeof_u64), sizeof_u64)
    BY <1>2, <2>1, FieldType, Sizes
  <2> QED  BY <2>2, AnyNumber64 DEF decode_order_id
<1>7. /\ decode_price(type, chunk) \in 0 .. U32 - 1
      /\ decode_quantity(type, chunk) \in 0 .. U32 - 1
  <2>1. PICK o \in Nat : o = PriceOffset(type) /\ o + sizeof_u32 + sizeof_u32 <= Len(chunk)
    BY <1>2, Sizes DEF PriceOffset, sizeof_u8
  <2>2. IsBytes(Field(chunk, o, sizeof_u32), sizeof_u32)
    <3>1. o + sizeof_u32 <= Len(chunk)
      BY <1>2, <2>1, Sizes, LenProperties
    <3> QED  BY <1>2, <3>1, FieldType, Sizes
  <2>3. IsBytes(Field(chunk, o + sizeof_u32, sizeof_u32), sizeof_u32)
    <3>1. o + sizeof_u32 \in Nat
      BY Sizes
    <3> QED  BY <1>2, <2>1, <3>1, FieldType, Sizes
  <2> QED  BY <2>1, <2>2, <2>3, AnyNumber32 DEF decode_price, decode_quantity
<1>8. Decoded(type, chunk) \in WireMessage /\ Decoded(type, chunk).type = type
  BY <1>4, <1>5, <1>6, <1>7 DEF Decoded, WireMessage
<1>9. Head(chunk) = chunk[1]
  BY <1>2
<1> QED  BY <1>3, <1>4, <1>8, <1>9 DEF chunk

-----------------------------------------------------------------------------
(* A packet on its way.                                                    *)

\* What the exchange sent is a packet that it can send, its bytes are what
\* arrives, and what has been decoded is how it begins.
SentInv ==
  sent # Nothing =>
    /\ sent.seq_num \in 0 .. U32 - 1 /\ sent.publish_tsc \in 0 .. U64 - 1
    /\ sent.messages \in Seq(WireMessage) /\ Len(sent.messages) <= kMaxMessagesPerPacket
    /\ datagram = serialize_packet_to_buffer(sent.seq_num, sent.publish_tsc, sent.messages)
    /\ wire_pc \in {"arrived", "reading"}
    /\ Len(decoded) <= Len(sent.messages)
    /\ decoded = SubSeq(sent.messages, 1, Len(decoded))

WireInv ==
  /\ datagram \in Seq(Bytes) /\ decoded \in Seq(WireMessage)
  /\ wire_pc = "send" => sent = Nothing
  /\ wire_pc \notin {"reading", "thrown"} => decoded = <<>>
  /\ wire_pc \in {"reading", "thrown"} =>
       parse_packet(datagram) /\ Len(decoded) <= decode_msg_count(datagram)
  /\ SentInv

LEMMA EmptySubSeq ==
  ASSUME NEW S, NEW s \in Seq(S)
  PROVE  <<>> = SubSeq(s, 1, 0)
  BY SubSeqEmpty

\* What has been sent is a packet and passes for one.
LEMMA SentIsPacket ==
  ASSUME WireInv, sent # Nothing
  PROVE  /\ IsPacket(datagram, sent.seq_num, sent.publish_tsc, sent.messages)
         /\ parse_packet(datagram)
         /\ datagram = serialize_packet(sent.seq_num, sent.messages, sent.publish_tsc)
<1>1. /\ sent.seq_num \in 0 .. U32 - 1 /\ sent.publish_tsc \in 0 .. U64 - 1
      /\ sent.messages \in Seq(WireMessage) /\ Len(sent.messages) <= kMaxMessagesPerPacket
      /\ datagram = serialize_packet_to_buffer(sent.seq_num, sent.publish_tsc, sent.messages)
  BY DEF WireInv, SentInv
<1>2. /\ serialize_packet_to_buffer(sent.seq_num, sent.publish_tsc, sent.messages)
           = serialize_packet(sent.seq_num, sent.messages, sent.publish_tsc)
      /\ IsPacket(serialize_packet_to_buffer(sent.seq_num, sent.publish_tsc, sent.messages),
                  sent.seq_num, sent.publish_tsc, sent.messages)
  BY <1>1, Serialised
<1>3. IsPacket(datagram, sent.seq_num, sent.publish_tsc, sent.messages)
  BY <1>1, <1>2
<1>4. parse_packet(datagram)
  <2>1. Len(sent.messages) \in Nat
    BY <1>1, LenProperties
  <2>2. PacketHeaderSize <= packet_size_bytes(Len(sent.messages))
    BY <2>1, PacketSizes
  <2>3. Len(datagram) = packet_size_bytes(Len(sent.messages))
        /\ decode_msg_count(datagram) = Len(sent.messages)
    BY <1>3 DEF IsPacket
  <2>4. packet_size_bytes(Len(sent.messages)) >= PacketHeaderSize
    BY <2>1, <2>2, PacketSizes
  <2> QED  BY <2>3, <2>4, Zenon DEF parse_packet
<1> QED  BY <1>1, <1>2, <1>3, <1>4

\* The msg_count of what is long enough for a header is a number.
LEMMA MsgCountType ==
  ASSUME NEW bytes \in Seq(Bytes), Len(bytes) >= PacketHeaderSize
  PROVE  decode_msg_count(bytes) \in 0 .. U16 - 1
<1>1. sizeof_u32 + sizeof_u16 <= Len(bytes)
  BY LenProperties, Sizes DEF PacketHeaderSize
<1>2. IsBytes(Field(bytes, sizeof_u32, sizeof_u16), sizeof_u16)
  BY <1>1, FieldType, Sizes
<1> QED  BY <1>2, AnyNumber16 DEF decode_msg_count

LEMMA SendKeepsInv ==
  ASSUME WireInv, Send
  PROVE  WireInv'
<1>1. PICK seq_num \in SeqNumValues, publish_tsc \in TscValues, messages \in Batches :
        /\ Len(messages) <= kMaxMessagesPerPacket
        /\ sent' = [seq_num |-> seq_num, publish_tsc |-> publish_tsc, messages |-> messages]
        /\ datagram' = serialize_packet_to_buffer(seq_num, publish_tsc, messages)
  BY DEF Send
<1>2. seq_num \in 0 .. U32 - 1 /\ publish_tsc \in 0 .. U64 - 1 /\ messages \in Seq(WireMessage)
  BY PacketsAssumption
<1>3. wire_pc = "send" /\ wire_pc' = "arrived" /\ decoded' = decoded
  BY DEF Send
<1>4. decoded' = <<>> /\ decoded' \in Seq(WireMessage) /\ Len(decoded') = 0
  BY <1>3, EmptySeq DEF WireInv
<1>5. datagram' \in Seq(Bytes)
  <2>1. IsPacket(serialize_packet_to_buffer(seq_num, publish_tsc, messages),
                 seq_num, publish_tsc, messages)
    BY <1>1, <1>2, Serialised
  <2> QED  BY <1>1, <2>1 DEF IsPacket
<1>6. /\ sent'.seq_num = seq_num /\ sent'.publish_tsc = publish_tsc /\ sent'.messages = messages
  BY <1>1
<1>7. SentInv'
  <2>1. Len(decoded') <= Len(messages)
    BY <1>2, <1>4, LenProperties
  <2>2. decoded' = SubSeq(messages, 1, Len(decoded'))
    BY <1>2, <1>4, EmptySubSeq
  <2> QED  BY <1>1, <1>2, <1>3, <1>6, <2>1, <2>2, Zenon DEF SentInv
<1> QED  BY <1>3, <1>4, <1>5, <1>7 DEF WireInv

LEMMA StrayKeepsInv ==
  ASSUME WireInv, Stray
  PROVE  WireInv'
<1>1. /\ wire_pc = "send" /\ wire_pc' = "arrived" /\ datagram' \in Strays
      /\ sent' = sent /\ decoded' = decoded
  BY DEF Stray
<1>2. datagram' \in Seq(Bytes)
  BY <1>1, PacketsAssumption
<1>3. sent' = Nothing /\ decoded' = <<>> /\ decoded' \in Seq(WireMessage)
  BY <1>1 DEF WireInv
<1> QED  BY <1>1, <1>2, <1>3 DEF WireInv, SentInv, Nothing

LEMMA ParseKeepsInv ==
  ASSUME WireInv, Parse
  PROVE  WireInv'
<1>1. /\ wire_pc = "arrived" /\ sent' = sent /\ datagram' = datagram /\ decoded' = decoded
      /\ wire_pc' = IF parse_packet(datagram) THEN "reading" ELSE "discarded"
  BY DEF Parse
<1>2. decoded = <<>> /\ decoded \in Seq(WireMessage) /\ Len(decoded) = 0
  BY <1>1, EmptySeq DEF WireInv
<1>3. parse_packet(datagram) => Len(decoded) <= decode_msg_count(datagram)
  <2> SUFFICES ASSUME parse_packet(datagram)  PROVE Len(decoded) <= decode_msg_count(datagram)
    OBVIOUS
  <2>1. decode_msg_count(datagram) \in Nat
    BY MsgCountType, Widths DEF WireInv, parse_packet
  <2> QED  BY <1>2, <2>1
<1>4. sent # Nothing => wire_pc' = "reading"
  BY <1>1, SentIsPacket
<1>5. (wire_pc' = "reading" /\ parse_packet(datagram)) \/ (wire_pc' = "discarded" /\ sent = Nothing)
  BY <1>1, <1>4
<1>6. SentInv'
  BY <1>1, <1>4, Zenon DEF WireInv, SentInv
<1>7. parse_packet(datagram') <=> parse_packet(datagram)
  BY <1>1
<1>8. decode_msg_count(datagram') = decode_msg_count(datagram)
  BY <1>1
<1>9. (wire_pc \in {"reading", "thrown"} =>
         parse_packet(datagram) /\ Len(decoded) <= decode_msg_count(datagram))'
  BY <1>1, <1>3, <1>5, <1>7, <1>8
<1> QED  BY <1>1, <1>2, <1>5, <1>6, <1>9 DEF WireInv

\* The next message lies within a datagram that passed for a packet.
LEMMA NextMessage ==
  ASSUME WireInv, wire_pc = "reading", Len(decoded) < decode_msg_count(datagram)
  PROVE  /\ Len(decoded) \in Nat
         /\ packet_size_bytes(Len(decoded)) + kFixedMessageSize <= Len(datagram)
         /\ message_at(datagram, Len(decoded)) # NoMessage =>
              message_at(datagram, Len(decoded)) \in WireMessage
<1>1. Len(decoded) \in Nat /\ datagram \in Seq(Bytes) /\ parse_packet(datagram)
  BY LenProperties DEF WireInv
<1>2. decode_msg_count(datagram) \in Nat
  BY <1>1, MsgCountType, Widths DEF parse_packet
<1>3. Len(datagram) = packet_size_bytes(decode_msg_count(datagram))
  BY <1>1 DEF parse_packet
<1>4. packet_size_bytes(Len(decoded) + 1) <= packet_size_bytes(decode_msg_count(datagram))
  BY <1>1, <1>2, PacketSizes
<1>5. packet_size_bytes(Len(decoded)) + kFixedMessageSize <= Len(datagram)
  BY <1>1, <1>3, <1>4, PacketSizes
<1> QED  BY <1>1, <1>5, AnyMessage

LEMMA ReadMessageKeepsInv ==
  ASSUME WireInv, ReadMessage
  PROVE  WireInv'
<1> DEFINE message == message_at(datagram, Len(decoded))
<1>1. /\ wire_pc = "reading" /\ Len(decoded) < decode_msg_count(datagram)
      /\ sent' = sent /\ datagram' = datagram
      /\ \/ message = NoMessage /\ wire_pc' = "thrown" /\ decoded' = decoded
         \/ message # NoMessage /\ decoded' = Append(decoded, message) /\ wire_pc' = wire_pc
  BY DEF ReadMessage
<1>2. /\ decoded \in Seq(WireMessage) /\ datagram \in Seq(Bytes) /\ parse_packet(datagram)
      /\ Len(decoded) \in Nat /\ decode_msg_count(datagram) \in Nat
  BY <1>1, LenProperties, MsgCountType, Widths DEF WireInv, parse_packet
<1>3. parse_packet(datagram') /\ decode_msg_count(datagram') = decode_msg_count(datagram)
  BY <1>1, <1>2
<1>4. sent # Nothing =>
        /\ Len(decoded) < Len(sent.messages)
        /\ sent.messages \in Seq(WireMessage)
        /\ message = sent.messages[Len(decoded) + 1]
        /\ message \in WireMessage /\ message # NoMessage
  <2> SUFFICES ASSUME sent # Nothing
               PROVE  /\ Len(decoded) < Len(sent.messages)
                      /\ sent.messages \in Seq(WireMessage)
                      /\ message = sent.messages[Len(decoded) + 1]
                      /\ message \in WireMessage /\ message # NoMessage
    OBVIOUS
  <2>1. IsPacket(datagram, sent.seq_num, sent.publish_tsc, sent.messages)
    BY SentIsPacket
  <2>2. sent.messages \in Seq(WireMessage)
    BY DEF WireInv, SentInv
  <2>3. Len(decoded) < Len(sent.messages)
    BY <1>1, <2>1 DEF IsPacket
  <2>4. message = sent.messages[Len(decoded) + 1]
    BY <1>2, <2>1, <2>3 DEF IsPacket
  <2>5. Len(decoded) + 1 \in 1 .. Len(sent.messages)
    BY <1>2, <2>2, <2>3, LenProperties
  <2>6. sent.messages[Len(decoded) + 1] \in WireMessage
    BY <2>2, <2>5, ElementOfSeq
  <2>7. message # NoMessage
    BY <2>4, <2>6, MessageBytes
  <2> HIDE DEF message
  <2> QED  BY <2>2, <2>3, <2>4, <2>6, <2>7
<1>5. CASE message = NoMessage
  <2>1. sent = Nothing /\ wire_pc' = "thrown" /\ decoded' = decoded
    BY <1>1, <1>4, <1>5
  <2>2. SentInv'
    BY <1>1, <2>1 DEF SentInv, Nothing
  <2>3. Len(decoded') <= decode_msg_count(datagram')
    BY <1>1, <1>2, <1>3, <2>1
  <2> QED  BY <1>1, <1>2, <1>3, <2>1, <2>2, <2>3 DEF WireInv
<1>6. CASE message # NoMessage
  <2>1. wire_pc' = "reading" /\ decoded' = Append(decoded, message)
    BY <1>1, <1>6
  <2>2. message \in WireMessage
    BY <1>1, <1>6, NextMessage
  <2> HIDE DEF message
  <2>3. decoded' \in Seq(WireMessage) /\ Len(decoded') = Len(decoded) + 1
    BY <1>2, <2>1, <2>2, AppendProperties
  <2>4. Len(decoded') <= decode_msg_count(datagram')
    BY <1>1, <1>2, <1>3, <2>3
  <2>5. sent # Nothing =>
          Len(decoded') <= Len(sent.messages) /\ decoded' = SubSeq(sent.messages, 1, Len(decoded'))
    <3> SUFFICES ASSUME sent # Nothing
                 PROVE  /\ Len(decoded') <= Len(sent.messages)
                        /\ decoded' = SubSeq(sent.messages, 1, Len(decoded'))
      OBVIOUS
    <3> DEFINE k == Len(decoded)
    <3>1. /\ k \in Nat /\ k + 1 \in 1 .. Len(sent.messages) /\ (k + 1) - 1 = k
          /\ sent.messages \in Seq(WireMessage) /\ message = sent.messages[k + 1]
      BY <1>2, <1>4, LenProperties
    <3>2. decoded = SubSeq(sent.messages, 1, k)
      BY DEF WireInv, SentInv
    <3> HIDE DEF k
    <3>3. SubSeq(sent.messages, 1, k + 1) = SubSeq(sent.messages, 1, k) \o <<sent.messages[k + 1]>>
      <4>1. 1 \in 1 .. Len(sent.messages) /\ k + 1 \in 1 .. Len(sent.messages)
        BY <3>1
      <4>2. SubSeq(sent.messages, 1, k + 1)
              = SubSeq(sent.messages, 1, (k + 1) - 1) \o <<sent.messages[k + 1]>>
        BY <3>1, <4>1, SubSeqRecursiveSecond
      <4> QED  BY <3>1, <4>2
    <3>4. Append(decoded, message) = decoded \o <<message>>
      BY <1>2, <2>2, AppendIsConcat
    <3>5. decoded' = SubSeq(sent.messages, 1, k + 1)
      BY <2>1, <3>1, <3>2, <3>3, <3>4, Zenon
    <3>6. Len(decoded') = k + 1
      BY <2>3 DEF k
    <3>7. Len(decoded') <= Len(sent.messages)
      BY <3>1, <3>6
    <3> QED  BY <3>5, <3>6, <3>7
  <2>6. SentInv'
    BY <1>1, <2>1, <2>5, Zenon DEF WireInv, SentInv
  <2> QED  BY <1>1, <1>2, <1>3, <2>1, <2>3, <2>4, <2>6 DEF WireInv
<1> QED  BY <1>5, <1>6

LEMMA PacketOverKeepsInv ==
  ASSUME WireInv, PacketOver
  PROVE  WireInv'
<1>1. wire_pc' = "send" /\ sent' = Nothing /\ datagram' = <<>> /\ decoded' = <<>>
  BY DEF PacketOver
<1>2. datagram' \in Seq(Bytes) /\ decoded' \in Seq(WireMessage)
  BY <1>1, EmptySeq
<1> QED  BY <1>1, <1>2 DEF WireInv, SentInv, Nothing

LEMMA InvHolds == WireSpec => []WireInv
<1>1. WireInit => WireInv
  <2> SUFFICES ASSUME WireInit  PROVE WireInv
    OBVIOUS
  <2>1. datagram \in Seq(Bytes) /\ decoded \in Seq(WireMessage)
    BY EmptySeq DEF WireInit
  <2> QED  BY <2>1 DEF WireInit, WireInv, SentInv
<1>2. WireInv /\ [WireNext]_wireVars => WireInv'
  <2> SUFFICES ASSUME WireInv, [WireNext]_wireVars  PROVE WireInv'
    OBVIOUS
  <2>1. CASE Send
    BY <2>1, SendKeepsInv
  <2>2. CASE Stray
    BY <2>2, StrayKeepsInv
  <2>3. CASE Parse
    BY <2>3, ParseKeepsInv
  <2>4. CASE ReadMessage
    BY <2>4, ReadMessageKeepsInv
  <2>5. CASE PacketOver
    BY <2>5, PacketOverKeepsInv
  <2>6. CASE UNCHANGED wireVars
    BY <2>6 DEF wireVars, WireInv, SentInv
  <2> QED  BY <2>1, <2>2, <2>3, <2>4, <2>5, <2>6 DEF WireNext
<1> QED  BY <1>1, <1>2, PTL DEF WireSpec

-----------------------------------------------------------------------------
(* What the runs check.                                                    *)

\* A packet of the exchange is accepted by parse_packet, and what the decode
\* functions and message_at take out of it is, field by field and message by
\* message, what make_packet_header and make_*_msg were given: for messages of
\* every value their fields can hold and packets of every length that fits.
THEOREM PacketsAreRead == WireSpec => []ReadsWhatWasSent
<1>1. WireInv => ReadsWhatWasSent
  <2> SUFFICES ASSUME WireInv, sent # Nothing
               PROVE  /\ wire_pc \notin {"discarded", "thrown"}
                      /\ decode_seq_num(datagram) = sent.seq_num
                      /\ decode_msg_count(datagram) = Len(sent.messages)
                      /\ decode_publish_tsc(datagram) = sent.publish_tsc
                      /\ decoded = SubSeq(sent.messages, 1, Len(decoded))
    BY DEF ReadsWhatWasSent
  <2>1. wire_pc \in {"arrived", "reading"} /\ decoded = SubSeq(sent.messages, 1, Len(decoded))
    BY DEF WireInv, SentInv
  <2>2. IsPacket(datagram, sent.seq_num, sent.publish_tsc, sent.messages)
    BY SentIsPacket
  <2> QED  BY <2>1, <2>2 DEF IsPacket
<1> QED  BY <1>1, InvHolds, PTL

\* serialize_packet of protocol.cpp, which moves on by kFixedMessageSize, and
\* the exchange's serialize_packet_to_buffer, which moves on by sizeof each
\* struct in a buffer of another size, write the same bytes.
THEOREM SerializersWriteTheSame == WireSpec => []SerializersAgree
<1>1. WireInv => SerializersAgree
  BY SentIsPacket DEF SerializersAgree
<1> QED  BY <1>1, InvHolds, PTL

\* Whatever arrives, after the length check of parse_packet the casts of
\* message_at stay within the datagram, and what is decoded is a message that
\* the structs can hold.
THEOREM MessagesAreWellFormed == WireSpec => []OnlyWellFormedMessages
<1>1. WireInv => OnlyWellFormedMessages
  <2> SUFFICES ASSUME WireInv, decoded # <<>>
               PROVE  packet_size_bytes(Len(decoded)) <= Len(datagram)
    BY DEF WireInv, OnlyWellFormedMessages
  <2>1. wire_pc \in {"reading", "thrown"}
    BY DEF WireInv
  <2>2. /\ datagram \in Seq(Bytes) /\ parse_packet(datagram)
        /\ Len(decoded) \in Nat /\ Len(decoded) <= decode_msg_count(datagram)
    BY <2>1, LenProperties DEF WireInv
  <2>3. /\ decode_msg_count(datagram) \in Nat
        /\ Len(datagram) = packet_size_bytes(decode_msg_count(datagram))
    BY <2>2, MsgCountType, Widths DEF parse_packet
  <2> QED  BY <2>2, <2>3, PacketSizes
<1> QED  BY <1>1, InvHolds, PTL

\* The sequencing model decides on the length and the msg_count alone.
LEMMA AbstractParse ==
  ASSUME NEW bytes \in Seq(Bytes)
  PROVE  parse_packet(bytes)
           <=> Abstract!parse_packet([size |-> Len(bytes),
                                      msg_count |-> IF Len(bytes) < PacketHeaderSize THEN 0
                                                    ELSE decode_msg_count(bytes)])
<1> DEFINE length == Len(bytes)
           count == decode_msg_count(bytes)
<1>1. length \in Nat
  BY LenProperties
<1>2. PacketHeaderSize = 14 /\ kFixedMessageSize = 24
  BY DEF PacketHeaderSize, kFixedMessageSize, sizeof_u16, sizeof_u32, sizeof_u64
<1>3. parse_packet(bytes) <=> length >= 14 /\ length = 14 + count * 24
  BY <1>2 DEF parse_packet, packet_size_bytes
<1> DEFINE view == [size |-> length, msg_count |-> IF length < 14 THEN 0 ELSE count]
<1>4. Abstract!parse_packet(view) <=> view.size >= 14 /\ view.size = 14 + view.msg_count * 24
  BY DEF Abstract!parse_packet, Abstract!packet_size_bytes, Abstract!PacketHeaderSize,
         Abstract!kFixedMessageSize
<1>5. view.size = length /\ (length >= 14 => view.msg_count = count)
  BY <1>1
<1>6. parse_packet(bytes) <=> Abstract!parse_packet(view)
  <2> HIDE DEF view, length, count
  <2> QED  BY <1>1, <1>3, <1>4, <1>5
<1> QED  BY <1>2, <1>6

\* What has the header of a packet and another length is not one.
LEMMA OtherLength ==
  ASSUME NEW bytes \in Seq(Bytes), NEW s \in Seq(Bytes), parse_packet(bytes),
         Len(s) # Len(bytes),
         Len(s) >= PacketHeaderSize => SameFields(s, bytes, PacketHeaderSize)
  PROVE  ~parse_packet(s)
<1> SUFFICES ASSUME parse_packet(s)  PROVE FALSE
  OBVIOUS
<1>1. SameFields(s, bytes, PacketHeaderSize)
  BY DEF parse_packet
<1>2. sizeof_u32 + sizeof_u16 <= PacketHeaderSize
  BY DEF PacketHeaderSize, sizeof_u16, sizeof_u32, sizeof_u64
<1>3. decode_msg_count(s) = decode_msg_count(bytes)
  BY <1>1, <1>2, Sizes DEF SameFields, decode_msg_count
<1> QED  BY <1>3 DEF parse_packet

LEMMA BytesAfter ==
  ASSUME NEW s \in Seq(Bytes), NEW t \in Seq(Bytes), Len(t) \in Nat \ {0}
  PROVE  /\ s \o t \in Seq(Bytes) /\ Len(s \o t) = Len(s) + Len(t)
         /\ SameFields(s \o t, s, Len(s))
<1>1. Len(s) \in Nat
  BY LenProperties
<1>2. PICK m \in Nat, n \in Nat \ {0} : Len(s) = m /\ Len(t) = n
  BY <1>1
<1>3. /\ s \o t \in Seq(Bytes) /\ Len(s \o t) = m + n
      /\ SameFields(s \o t, s, m)
  BY <1>2, FieldAppended
<1> QED  BY <1>2, <1>3

\* What is left of a packet when bytes are cut off, and a packet with bytes
\* after it.
LEMMA CutOrTailed ==
  ASSUME NEW bytes \in Seq(Bytes)
  PROVE  /\ \A n \in 0 .. Len(bytes) - 1 :
              /\ SubSeq(bytes, 1, n) \in Seq(Bytes)
              /\ parse_packet(bytes) => ~parse_packet(SubSeq(bytes, 1, n))
         /\ \A n \in 1 .. kFixedMessageSize :
              /\ bytes \o Zeros(n) \in Seq(Bytes)
              /\ parse_packet(bytes) => ~parse_packet(bytes \o Zeros(n))
<1>1. Len(bytes) \in Nat /\ PacketHeaderSize \in Nat
  BY LenProperties, PacketSizes
<1>2. ASSUME NEW n \in 0 .. Len(bytes) - 1
      PROVE  /\ SubSeq(bytes, 1, n) \in Seq(Bytes)
             /\ parse_packet(bytes) => ~parse_packet(SubSeq(bytes, 1, n))
  <2> DEFINE s == SubSeq(bytes, 1, n)
  <2>1. \A i \in 1 .. n : bytes[i] \in Bytes
    BY <1>1, ElementOfSeq
  <2>2. s \in Seq(Bytes) /\ Len(s) = n /\ \A i \in 1 .. n : s[i] = bytes[i]
    <3>1. n \in Nat /\ n <= Len(bytes)
      BY <1>1
    <3>2. CASE n = 0
      BY <3>2, SubSeqEmpty, EmptySeq
    <3>3. CASE n # 0
      <4>1. 1 \in Int /\ n \in Int /\ 1 <= n /\ n - 1 + 1 = n /\ \A i \in 1 .. n : 1 + i - 1 = i
        BY <3>1, <3>3
      <4> QED  BY <2>1, <4>1, SubSeqProperties
    <3> QED  BY <3>2, <3>3
  <2> HIDE DEF s
  <2>3. Len(s) >= PacketHeaderSize => SameFields(s, bytes, PacketHeaderSize)
    <3> SUFFICES ASSUME n >= PacketHeaderSize  PROVE SameFields(s, bytes, PacketHeaderSize)
      BY <2>2
    <3>1. /\ PacketHeaderSize <= Len(s) /\ PacketHeaderSize <= Len(bytes)
          /\ \A i \in 1 .. PacketHeaderSize : s[i] = bytes[i]
      BY <1>1, <2>2
    <3> QED  BY <1>1, <2>2, <3>1, SamePrefix
  <2>4. Len(s) # Len(bytes)
    BY <1>1, <2>2
  <2>5. parse_packet(bytes) => ~parse_packet(s)
    BY <2>2, <2>3, <2>4, OtherLength
  <2> QED  BY <2>2, <2>5 DEF s
<1>3. ASSUME NEW n \in 1 .. kFixedMessageSize
      PROVE  /\ bytes \o Zeros(n) \in Seq(Bytes)
             /\ parse_packet(bytes) => ~parse_packet(bytes \o Zeros(n))
  <2>1. n \in Nat \ {0}
    BY PacketSizes
  <2>2. PICK zeros \in Seq(Bytes) : zeros = Zeros(n) /\ Len(zeros) = n
    BY <2>1, ZeroBytes
  <2>3. PICK length \in Nat : length = Len(bytes)
    BY <1>1
  <2>4. /\ bytes \o zeros \in Seq(Bytes) /\ Len(bytes \o zeros) = length + n
        /\ SameFields(bytes \o zeros, bytes, length)
    BY <2>1, <2>2, <2>3, BytesAfter, Zenon
  <2>5. Len(bytes \o zeros) # Len(bytes)
    BY <2>1, <2>3, <2>4
  <2>6. parse_packet(bytes) => SameFields(bytes \o zeros, bytes, PacketHeaderSize)
    <3> SUFFICES ASSUME parse_packet(bytes)
                 PROVE  SameFields(bytes \o zeros, bytes, PacketHeaderSize)
      OBVIOUS
    <3>1. PacketHeaderSize <= length
      BY <2>3 DEF parse_packet
    <3> QED  BY <1>1, <2>4, <3>1 DEF SameFields
  <2>7. parse_packet(bytes) => ~parse_packet(bytes \o zeros)
    BY <2>4, <2>5, <2>6, OtherLength
  <2> QED  BY <2>2, <2>4, <2>7
<1> QED  BY <1>2, <1>3

\* A packet that lost bytes, or gained some, is malformed, and parse_packet
\* decides on whatever arrives as the sequencing model (Protocol) says it does.
THEOREM WholePacketsOnly == WireSpec => []OnlyWholePackets
<1>1. WireInv => OnlyWholePackets
  <2> SUFFICES ASSUME WireInv, wire_pc = "arrived"  PROVE OnlyWholePackets
    BY DEF OnlyWholePackets
  <2> DEFINE View(bytes) == [size |-> Len(bytes),
                             msg_count |-> IF Len(bytes) < PacketHeaderSize THEN 0
                                           ELSE decode_msg_count(bytes)]
             Parts == {SubSeq(datagram, 1, n) : n \in 0 .. Len(datagram) - 1}
             Tailed == {datagram \o Zeros(n) : n \in 1 .. kFixedMessageSize}
  <2>1. datagram \in Seq(Bytes) /\ (sent # Nothing => parse_packet(datagram))
    BY SentIsPacket DEF WireInv
  <2>2. \A bytes \in Parts \cup Tailed :
          bytes \in Seq(Bytes) /\ (parse_packet(datagram) => ~parse_packet(bytes))
    BY <2>1, CutOrTailed
  <2> HIDE DEF Parts, Tailed
  <2>3. sent # Nothing => \A bytes \in Parts \cup Tailed : ~parse_packet(bytes)
    BY <2>1, <2>2
  <2>4. \A bytes \in Parts \cup Tailed \cup {datagram} :
          parse_packet(bytes) <=> Abstract!parse_packet(View(bytes))
    BY <2>1, <2>2, AbstractParse
  <2> QED  BY <2>3, <2>4, Zenon DEF OnlyWholePackets, Parts, Tailed
<1> QED  BY <1>1, InvHolds, PTL

\* A byte of a message, in the datagram.
LEMMA ChunkByte ==
  ASSUME NEW bytes \in Seq(Bytes), NEW index \in Nat, NEW k \in 1 .. kFixedMessageSize,
         packet_size_bytes(index) + kFixedMessageSize <= Len(bytes)
  PROVE  /\ Chunk(bytes, index)[k] = bytes[packet_size_bytes(index) + k]
         /\ packet_size_bytes(index) + k \in DOMAIN bytes
<1> DEFINE c == packet_size_bytes(index)
           first == c + 1
           last == c + kFixedMessageSize
<1>1. /\ c \in Nat /\ kFixedMessageSize \in Nat \ {0} /\ Len(bytes) \in Nat
      /\ k \in Nat \ {0} /\ k <= kFixedMessageSize /\ c + kFixedMessageSize <= Len(bytes)
  BY LenProperties, PacketSizes
<1> HIDE DEF c
<1>2. /\ first \in Int /\ last \in Int /\ first <= last /\ last - first + 1 = kFixedMessageSize
      /\ first + k - 1 = c + k /\ k \in Int
      /\ \A j \in first .. last : j \in 1 .. Len(bytes)
      /\ c + k \in 1 .. Len(bytes)
  BY <1>1
<1> HIDE DEF first, last
<1>3. \A j \in first .. last : bytes[j] \in Bytes
  BY <1>2, ElementOfSeq
<1>4. SubSeq(bytes, first, last)[k] = bytes[first + k - 1]
  BY <1>2, <1>3, SubSeqProperties
<1>5. /\ Chunk(bytes, index)[k] = bytes[c + k]
      /\ c + k \in DOMAIN bytes
  BY <1>2, <1>4, LenProperties DEF Chunk, Field, first, last, c
<1> QED  BY <1>5 DEF c

\* An Add comes out just when its side is a side.
LEMMA AddsNeedSides ==
  ASSUME NEW bytes \in Seq(Bytes), NEW index \in Nat,
         packet_size_bytes(index) + kFixedMessageSize <= Len(bytes),
         Chunk(bytes, index)[1] = CharCode["A"]
  PROVE  message_at(bytes, index) # NoMessage
           <=> SideByte(Chunk(bytes, index)) \in {CharCode["B"], CharCode["S"]}
<1> DEFINE chunk == Chunk(bytes, index)
<1>1. IsBytes(chunk, kFixedMessageSize)
  BY PacketSizes, FieldType DEF Chunk
<1>2. Head(chunk) = CharCode["A"] /\ CharOf(Head(chunk)) = "A"
  <2> HIDE DEF chunk
  <2>1. chunk \in Seq(Bytes) /\ Head(chunk) = chunk[1]
    BY <1>1, PacketSizes DEF IsBytes
  <2> QED  BY <2>1, CharOfCode DEF Chars, chunk
<1>3. IsOneOf(Head(chunk), {"A", "M", "D", "T"})
  BY <1>2 DEF IsOneOf
<1>4. IsOneOf(SideByte(chunk), {"B", "S"}) <=> SideByte(chunk) \in {CharCode["B"], CharCode["S"]}
  BY DEF IsOneOf
<1>5. Decoded("A", chunk) # NoMessage
  <2>1. Decoded("A", chunk).type = "A"
    BY DEF Decoded
  <2> QED  BY <2>1 DEF NoMessage
<1>6. message_at(bytes, index)
        = IF IsOneOf(SideByte(chunk), {"B", "S"}) THEN Decoded("A", chunk) ELSE NoMessage
  <2> HIDE DEF chunk
  <2> QED  BY <1>2, <1>3, Zenon DEF message_at, chunk
<1> HIDE DEF chunk
<1>7. message_at(bytes, index) # NoMessage <=> IsOneOf(SideByte(chunk), {"B", "S"})
  BY <1>5, <1>6
<1> QED  BY <1>4, <1>7 DEF chunk

\* A type that is none of the enum's characters, and a side of an Add that is
\* neither, make message_at return nothing; the byte that is of the enum is the
\* type of what it returns.
THEOREM UnknownAreRejected == WireSpec => []UnknownBytesRejected
<1>1. ASSUME WireInv, sent # Nothing, NEW i \in DOMAIN sent.messages, NEW byte \in Bytes
      PROVE  LET At(offset) ==
                   message_at([datagram EXCEPT ![packet_size_bytes(i - 1) + offset] = byte], i - 1)
             IN /\ At(1) # NoMessage =>
                     At(1).type \in {"A", "M", "D", "T"} /\ CharCode[At(1).type] = byte
                /\ sent.messages[i].type = "A" =>
                     (At(10) # NoMessage <=> byte \in {CharCode["B"], CharCode["S"]})
  <2>1. PICK index \in Nat : /\ index = i - 1 /\ i = index + 1 /\ index < Len(sent.messages)
                             /\ sent.messages[i] \in WireMessage
    <3>1. sent.messages \in Seq(WireMessage) /\ i \in 1 .. Len(sent.messages)
      BY <1>1, LenProperties DEF WireInv, SentInv
    <3>2. i - 1 \in Nat /\ i = (i - 1) + 1 /\ i - 1 < Len(sent.messages)
      BY <3>1, LenProperties
    <3> QED  BY <3>1, <3>2, ElementOfSeq
  <2> DEFINE c == packet_size_bytes(index)
             With(offset) == [datagram EXCEPT ![c + offset] = byte]
  <2>2. /\ datagram \in Seq(Bytes) /\ c + kFixedMessageSize <= Len(datagram)
        /\ message_at(datagram, index) = sent.messages[i]
    <3>1. IsPacket(datagram, sent.seq_num, sent.publish_tsc, sent.messages)
      BY <1>1, SentIsPacket
    <3>2. sent.messages \in Seq(WireMessage)
      BY <1>1 DEF WireInv, SentInv
    <3>3. /\ index + 1 \in Nat /\ Len(sent.messages) \in Nat
          /\ index + 1 <= Len(sent.messages)
      BY <2>1, <3>2, LenProperties
    <3>4. packet_size_bytes(index + 1) <= packet_size_bytes(Len(sent.messages))
      BY <3>3, PacketSizes
    <3> QED  BY <2>1, <3>1, <3>4, PacketSizes DEF IsPacket
  <2>3. ASSUME NEW k \in 1 .. kFixedMessageSize
        PROVE  /\ With(k) \in Seq(Bytes) /\ Len(With(k)) = Len(datagram)
               /\ Chunk(With(k), index)[k] = byte
               /\ \A j \in 1 .. kFixedMessageSize :
                    j # k => Chunk(With(k), index)[j] = Chunk(datagram, index)[j]
    <3>1. /\ c + k \in DOMAIN datagram /\ DOMAIN datagram = 1 .. Len(datagram)
          /\ c \in Nat /\ k \in Nat
      <4>1. c + k \in DOMAIN datagram
        BY <2>2, ChunkByte
      <4> QED  BY <2>2, <4>1, LenProperties, PacketSizes
    <3>2. With(k) \in Seq(Bytes) /\ Len(With(k)) = Len(datagram)
      BY <2>2, <3>1, ExceptSeq
    <3>3. With(k)[c + k] = byte /\ \A j \in 1 .. kFixedMessageSize : j # k => With(k)[c + j] = datagram[c + j]
      <4> HIDE DEF c
      <4>1. \A j \in 1 .. kFixedMessageSize : j # k => c + j # c + k
        BY <3>1, PacketSizes
      <4>2. \A j \in 1 .. kFixedMessageSize : c + j \in DOMAIN datagram
        BY <2>1, <2>2, ChunkByte DEF c
      <4> QED  BY <3>1, <4>1, <4>2
    <3>4. \A j \in 1 .. kFixedMessageSize : /\ Chunk(With(k), index)[j] = With(k)[c + j]
                                            /\ Chunk(datagram, index)[j] = datagram[c + j]
      <4> HIDE DEF With
      <4> QED  BY <2>1, <2>2, <3>2, ChunkByte
    <3> HIDE DEF With
    <3> QED  BY <3>2, <3>3, <3>4
  <2>4. 1 \in 1 .. kFixedMessageSize /\ 10 \in 1 .. kFixedMessageSize
    BY DEF kFixedMessageSize
  <2>5. message_at(With(1), index) # NoMessage =>
          /\ message_at(With(1), index).type \in {"A", "M", "D", "T"}
          /\ CharCode[message_at(With(1), index).type] = byte
    <3>1. /\ With(1) \in Seq(Bytes) /\ c + kFixedMessageSize <= Len(With(1))
          /\ Chunk(With(1), index)[1] = byte
      BY <2>2, <2>3, <2>4
    <3> HIDE DEF With
    <3>2. \A m \in WireMessage : m.type \in {"A", "M", "D", "T"}
      BY MessageBytes
    <3> QED  BY <2>1, <3>1, <3>2, AnyMessage
  <2>6. sent.messages[i].type = "A" =>
          (message_at(With(10), index) # NoMessage <=> byte \in {CharCode["B"], CharCode["S"]})
    <3> SUFFICES ASSUME sent.messages[i].type = "A"
                 PROVE  message_at(With(10), index) # NoMessage
                          <=> byte \in {CharCode["B"], CharCode["S"]}
      OBVIOUS
    <3>1. Chunk(datagram, index)[1] = CharCode["A"]
      <4>1. message_at(datagram, index) # NoMessage
        BY <2>1, <2>2, MessageBytes
      <4> QED  BY <2>1, <2>2, <4>1, AnyMessage
    <3>2. /\ With(10) \in Seq(Bytes) /\ c + kFixedMessageSize <= Len(With(10))
          /\ Chunk(With(10), index)[10] = byte
          /\ Chunk(With(10), index)[1] = CharCode["A"]
      <4>1. PICK k \in 1 .. kFixedMessageSize : k = 10 /\ 1 # k
        BY <2>4
      <4>2. /\ With(k) \in Seq(Bytes) /\ Len(With(k)) = Len(datagram)
            /\ Chunk(With(k), index)[k] = byte
            /\ Chunk(With(k), index)[1] = Chunk(datagram, index)[1]
        BY <2>3, <2>4, <4>1
      <4> HIDE DEF With, c
      <4> QED  BY <2>2, <3>1, <4>1, <4>2
    <3> HIDE DEF With
    <3>3. SideByte(Chunk(With(10), index)) = byte
      BY <3>2 DEF SideByte, sizeof_u8, sizeof_u64
    <3> QED  BY <2>1, <3>2, <3>3, AddsNeedSides
  <2> QED  BY <2>1, <2>5, <2>6
<1>2. WireInv => UnknownBytesRejected
  <2> SUFFICES ASSUME WireInv  PROVE UnknownBytesRejected
    OBVIOUS
  <2>1. CASE sent = Nothing
    <3>1. DOMAIN sent.messages = {}
      BY <2>1 DEF Nothing
    <3> QED  BY <3>1, Zenon DEF UnknownBytesRejected
  <2>2. CASE sent # Nothing
    BY <1>1, <2>2, Zenon DEF UnknownBytesRejected, Bytes
  <2> QED  BY <2>1, <2>2
<1> QED  BY <1>2, InvHolds, PTL
=============================================================================
