------------------------- MODULE HeaderCodecProofs -------------------------
(* What encode_header puts on the wire decode_header reads back, for every *)
(* header there is, and what others put there who tell lengths otherwise;  *)
(* and unmasking undoes masking.                                           *)
EXTENDS HeaderCodec, SequenceTheorems, TLAPS

-----------------------------------------------------------------------------
(* Lengths.                                                                *)

LEMMA PackTwo ==
  ASSUME NEW n \in Nat, n < 65536
  PROVE  /\ n \div 256 \in Octet /\ n % 256 \in Octet
         /\ ((n \div 256) * 256) + (n % 256) = n
  BY SMT DEF Octet

LEMMA LowWord ==
  ASSUME NEW n \in Nat
  PROVE  /\ n \div 65536 \in Nat /\ n % 256 \in Octet /\ (n \div 256) % 256 \in Octet
         /\ n = ((n \div 65536) * 65536) + ((((n \div 256) % 256) * 256) + (n % 256))
  BY SMT DEF Octet

\* The lengths that fit into eight octets.
Length == {n \in Nat : ((n \div 65536) \div 65536) \div 65536 < 65536}

LEMMA PackEight ==
  ASSUME NEW n \in Length
  PROVE  /\ Pack8(n) \in Seq(Octet) /\ Len(Pack8(n)) = 8
         /\ Unpack8(Pack8(n), 1) = n
<1> DEFINE w1 == n \div 65536  w2 == w1 \div 65536  w3 == w2 \div 65536
<1>1. n \in Nat /\ w3 < 65536
  BY DEF Length
<1>2. /\ w1 \in Nat /\ n % 256 \in Octet /\ (n \div 256) % 256 \in Octet
      /\ n = (w1 * 65536) + ((((n \div 256) % 256) * 256) + (n % 256))
  BY <1>1, LowWord
<1>3. /\ w2 \in Nat /\ w1 % 256 \in Octet /\ (w1 \div 256) % 256 \in Octet
      /\ w1 = (w2 * 65536) + ((((w1 \div 256) % 256) * 256) + (w1 % 256))
  BY <1>2, LowWord
<1>4. /\ w3 \in Nat /\ w2 % 256 \in Octet /\ (w2 \div 256) % 256 \in Octet
      /\ w2 = (w3 * 65536) + ((((w2 \div 256) % 256) * 256) + (w2 % 256))
  BY <1>3, LowWord
<1>5. /\ w3 \div 256 \in Octet /\ w3 % 256 \in Octet
      /\ ((w3 \div 256) * 256) + (w3 % 256) = w3
  BY <1>1, <1>4, PackTwo
<1>6. Pack8(n) = <<w3 \div 256, w3 % 256, (w2 \div 256) % 256, w2 % 256,
                   (w1 \div 256) % 256, w1 % 256, (n \div 256) % 256, n % 256>>
  BY DEF Pack8
<1> HIDE DEF w1, w2, w3
<1>7. Pack8(n) \in Seq(Octet) /\ Len(Pack8(n)) = 8
  BY <1>2, <1>3, <1>4, <1>5, <1>6
<1> QED
  BY <1>1, <1>2, <1>3, <1>4, <1>5, <1>6, <1>7, SMT DEF Unpack8, Unpack2, Octet

-----------------------------------------------------------------------------
(* Headers.                                                                *)

\* The headers there are, what encode_header makes of them, and what others may.
Header == [fin : BOOLEAN, opcode : 0..15, flags : Flags, length : Length, mask : Mask]
Encoded(h) == EncodeHeader(h.fin, h.opcode, h.mask, h.length, h.flags)
EncodedAs(h, short) == Octets(h.fin, h.opcode, h.mask, h.length, h.flags, short)

LEMMA FirstOctet ==
  ASSUME NEW opcode \in 0..15, NEW flags \in Flags, NEW top \in {0, 128}
  PROVE  LET b == opcode + flags + top
         IN  /\ b \div 128 = 1 <=> top = 128
             /\ b % 16 = opcode
             /\ 16 * ((b \div 16) % 8) = flags
<1>1. PICK k \in 0..7 : flags = 16 * k
  BY DEF Flags
<1> QED
  BY <1>1, SMT

LEMMA SecondOctet ==
  ASSUME NEW short \in 0..127, NEW top \in {0, 128}
  PROVE  /\ (short + top) \div 128 = 1 <=> top = 128
         /\ (short + top) % 128 = short
         /\ short + top \in Octet
  BY SMT DEF Octet

\* encode_header chooses seven bits that can tell the length.
LEMMA ShortTells ==
  ASSUME NEW n \in Length
  PROVE  Tells(ShortLength(n), n)
<1>0. n \in Nat
  BY DEF Length
<1>1. CASE n < 126
  BY <1>0, <1>1, SMT DEF ShortLength, Tells
<1>2. CASE n >= 126 /\ n <= 65535
  BY <1>0, <1>2, SMT DEF ShortLength, Tells
<1>3. CASE n > 65535
  BY <1>0, <1>3, SMT DEF ShortLength, Tells
<1> QED
  BY <1>0, <1>1, <1>2, <1>3

LEMMA ExtraLength ==
  ASSUME NEW n \in Length, NEW short, Tells(short, n)
  PROVE  /\ short \in 0..127
         /\ Extra(short, n) \in Seq(Octet) /\ Len(Extra(short, n)) = ExtraOctets(short)
         /\ Len(Extra(short, n)) = 0 => short = n
         /\ Len(Extra(short, n)) = 2 => Unpack2(Extra(short, n), 1) = n
         /\ Len(Extra(short, n)) = 8 => Unpack8(Extra(short, n), 1) = n
         /\ Len(Extra(short, n)) \in {0, 2, 8}
<1>0. n \in Nat /\ short \in 0..127
  BY DEF Length, Tells
<1>1. CASE short < 126
  <2>1. Extra(short, n) = <<>> /\ short = n /\ ExtraOctets(short) = 0
    BY <1>0, <1>1 DEF Extra, ExtraOctets, Tells
  <2> QED
    BY <1>0, <2>1
<1>2. CASE short = 126
  <2>1. n < 65536 /\ ExtraOctets(126) = 2
    BY <1>0, <1>2, SMT DEF Tells, ExtraOctets
  <2>2. Extra(short, n) = <<n \div 256, n % 256>>
    BY <1>0, <1>2, SMT DEF Extra, Pack2
  <2>3. Extra(short, n) \in Seq(Octet) /\ Len(Extra(short, n)) = 2 /\ Unpack2(Extra(short, n), 1) = n
    BY <1>0, <2>1, <2>2, PackTwo DEF Unpack2
  <2> DEFINE octets == Extra(short, n)
  <2>4. octets \in Seq(Octet) /\ Len(octets) = 2 /\ Unpack2(octets, 1) = n
    BY <2>3
  <2> HIDE DEF octets
  <2>5. /\ Len(octets) = ExtraOctets(short) /\ Len(octets) # 0 /\ Len(octets) # 8
        /\ Len(octets) \in {0, 2, 8}
    BY <1>2, <2>1, <2>4
  <2> QED
    BY <1>0, <2>4, <2>5 DEF octets
<1>3. CASE short = 127
  <2>1. Extra(short, n) = Pack8(n) /\ ExtraOctets(127) = 8
    BY <1>0, <1>3, SMT DEF Extra, ExtraOctets
  <2>2. Extra(short, n) \in Seq(Octet) /\ Len(Extra(short, n)) = 8 /\ Unpack8(Extra(short, n), 1) = n
    BY <2>1, PackEight
  <2>3. Len(Extra(short, n)) \in {0, 2, 8} /\ Len(Extra(short, n)) # 0 /\ Len(Extra(short, n)) # 2
    BY <2>2
  <2> QED
    BY <1>0, <1>3, <2>1, <2>2, <2>3
<1> QED
  BY <1>0, <1>1, <1>2, <1>3

LEMMA MaskOctets ==
  ASSUME NEW mask \in Mask, mask # <<>>
  PROVE  mask \in Seq(Octet) /\ Len(mask) = 4 /\ mask = [i \in 1..4 |-> mask[i]]
<1>1. mask \in Seq(Octet) /\ Len(mask) \in {0, 4}
  BY DEF Mask
<1>2. Len(mask) = 4
  BY <1>1, EmptySeq
<1>3. mask = [i \in 1..4 |-> mask[i]]
  BY <1>1, <1>2, LenProperties
<1> QED
  BY <1>1, <1>2, <1>3

\* What a header's octets are, one by one.
LEMMA Parts ==
  ASSUME NEW b1 \in Octet, NEW b2 \in Octet, NEW extra \in Seq(Octet), NEW mask \in Seq(Octet),
         NEW s, s = <<b1, b2>> \o extra \o mask
  PROVE  /\ s[1] = b1 /\ s[2] = b2
         /\ \A i \in 1..Len(extra) : s[2 + i] = extra[i]
         /\ \A i \in 1..Len(mask) : s[2 + Len(extra) + i] = mask[i]
<1> DEFINE first == <<b1, b2>> \o extra
<1> HIDE DEF Octet
<1>1. /\ first \in Seq(Octet) /\ Len(first) = 2 + Len(extra)
      /\ first[1] = b1 /\ first[2] = b2 /\ \A i \in 1..Len(extra) : first[2 + i] = extra[i]
  BY ConcatProperties, LenProperties
<1> HIDE DEF first
<1>2. /\ \A i \in 1..Len(first) : (first \o mask)[i] = first[i]
      /\ \A i \in 1..Len(mask) : (first \o mask)[Len(first) + i] = mask[i]
  BY <1>1, ConcatProperties, LenProperties
<1> QED
  BY <1>1, <1>2, LenProperties DEF first

(* decode_header reads from the octets of a header the header they were    *)
(* made from, with and without a mask, in whichever of the three ways its  *)
(* length is told.                                                         *)
THEOREM DecodeReadsHeader ==
  ASSUME NEW h \in Header, NEW short, Tells(short, h.length)
  PROVE  DecodeHeader(EncodedAs(h, short)) = h
<1> DEFINE n == h.length  extra == Extra(short, n)  k == Len(extra)  mask == h.mask
           b1 == h.opcode + h.flags + (IF h.fin THEN 128 ELSE 0)
           b2 == short + (IF mask = <<>> THEN 0 ELSE 128)
           s == <<b1, b2>> \o extra \o mask
<1>1. /\ h.fin \in BOOLEAN /\ h.opcode \in 0..15 /\ h.flags \in Flags /\ n \in Length
      /\ mask \in Mask
      /\ h = [fin |-> h.fin, opcode |-> h.opcode, flags |-> h.flags, length |-> n, mask |-> mask]
  BY DEF Header
<1>2. EncodedAs(h, short) = s
  BY DEF EncodedAs, Octets
<1>3. /\ short \in 0..127 /\ extra \in Seq(Octet) /\ k = ExtraOctets(short)
      /\ k \in {0, 2, 8} /\ (k = 0 => short = n)
      /\ k = 2 => Unpack2(extra, 1) = n
      /\ k = 8 => Unpack8(extra, 1) = n
  BY <1>1, ExtraLength
<1>4. /\ mask \in Seq(Octet)
      /\ mask # <<>> => Len(mask) = 4 /\ mask = [i \in 1..4 |-> mask[i]]
  <2>1. mask \in Seq(Octet)
    BY <1>1 DEF Mask
  <2> HIDE DEF mask
  <2> QED
    BY <1>1, <2>1, MaskOctets
<1>5. /\ b1 \div 128 = 1 <=> h.fin
      /\ b1 % 16 = h.opcode
      /\ 16 * ((b1 \div 16) % 8) = h.flags
  BY <1>1, FirstOctet
<1>6. /\ b2 \div 128 = 1 <=> mask # <<>>
      /\ b2 % 128 = short
      /\ b2 \in Octet
  <2>1. short \in 0..127
    BY <1>3
  <2>2. \A top \in {0, 128} : /\ (short + top) \div 128 = 1 <=> top = 128
                              /\ (short + top) % 128 = short
                              /\ short + top \in Octet
    BY <2>1, SecondOctet
  <2> QED
    BY <2>2
<1>7. b1 \in Octet
  <2>1. PICK j \in 0..7 : h.flags = 16 * j
    BY <1>1 DEF Flags
  <2> QED
    BY <1>1, <2>1, SMT DEF Octet
<1> HIDE DEF b1, b2, n, mask, extra
<1>8. /\ s[1] = b1 /\ s[2] = b2
      /\ \A i \in 1..k : s[2 + i] = extra[i]
      /\ \A i \in 1..Len(mask) : s[2 + k + i] = mask[i]
  <2>1. s = <<b1, b2>> \o extra \o mask /\ k = Len(extra) /\ extra \in Seq(Octet)
    BY <1>3
  <2> HIDE DEF s, k
  <2>2. b1 \in Octet /\ b2 \in Octet /\ mask \in Seq(Octet)
    BY <1>4, <1>6, <1>7
  <2> QED
    BY <2>1, <2>2, Parts
<1> HIDE DEF s
<1>9. n = IF k = 0 THEN short ELSE IF k = 2 THEN Unpack2(s, 3) ELSE Unpack8(s, 3)
  <2>1. CASE k = 0
    BY <1>3, <2>1
  <2>2. CASE k = 2
    <3>1. s[3] = extra[1] /\ s[4] = extra[2]
      BY <1>8, <2>2
    <3> QED
      BY <1>3, <2>2, <3>1 DEF Unpack2
  <2>3. CASE k = 8
    <3>1. \A i \in 1..8 : s[2 + i] = extra[i]
      BY <1>8, <2>3
    <3>2. Unpack8(s, 3) = Unpack8(extra, 1)
      BY <3>1 DEF Unpack8, Unpack2
    <3> QED
      BY <1>3, <2>3, <3>2
  <2> QED
    BY <1>3, <2>1, <2>2, <2>3
<1>10. mask = IF s[2] \div 128 = 1 THEN [i \in 1..4 |-> s[2 + k + i]] ELSE <<>>
  BY <1>4, <1>6, <1>8
<1> HIDE DEF k
<1>11. DecodeHeader(s) = [fin |-> h.fin, opcode |-> h.opcode, flags |-> h.flags,
                          length |-> n, mask |-> mask]
  BY <1>1, <1>3, <1>5, <1>6, <1>8, <1>9, <1>10, ZenonT(60) DEF DecodeHeader
<1> QED
  BY <1>1, <1>2, <1>11

(* In particular it reads what encode_header writes: at 125/126 and        *)
(* 65535/65536, with and without a mask.                                   *)
THEOREM DecodeUndoesEncode == \A h \in Header : DecodeHeader(Encoded(h)) = h
<1> SUFFICES ASSUME NEW h \in Header PROVE DecodeHeader(Encoded(h)) = h
  OBVIOUS
<1>1. h.length \in Length
  BY DEF Header
<1>2. Encoded(h) = EncodedAs(h, ShortLength(h.length))
  BY Zenon DEF Encoded, EncodedAs, EncodeHeader
<1> QED
  BY <1>1, <1>2, ShortTells, DecodeReadsHeader

-----------------------------------------------------------------------------
(* Masks.                                                                  *)

LEMMA BitsOfOctet ==
  ASSUME NEW n \in Octet
  PROVE  n = Bit(n, 1) + 2 * Bit(n, 2) + 4 * Bit(n, 4) + 8 * Bit(n, 8)
             + 16 * Bit(n, 16) + 32 * Bit(n, 32) + 64 * Bit(n, 64) + 128 * Bit(n, 128)
  BY SMT DEF Octet, Bit

LEMMA BitsOfSum ==
  ASSUME NEW a \in {0, 1}, NEW b \in {0, 2}, NEW c \in {0, 4}, NEW d \in {0, 8},
         NEW e \in {0, 16}, NEW f \in {0, 32}, NEW g \in {0, 64}, NEW h \in {0, 128},
         NEW n, n = a + b + c + d + e + f + g + h
  PROVE  /\ n \in Octet
         /\ Bit(n, 1) = a /\ 2 * Bit(n, 2) = b /\ 4 * Bit(n, 4) = c /\ 8 * Bit(n, 8) = d
         /\ 16 * Bit(n, 16) = e /\ 32 * Bit(n, 32) = f
         /\ 64 * Bit(n, 64) = g /\ 128 * Bit(n, 128) = h
  BY SMT DEF Octet, Bit

LEMMA XorTwice ==
  ASSUME NEW a \in Octet, NEW b \in Octet
  PROVE  Xor(a, b) \in Octet /\ Xor(Xor(a, b), b) = a
<1> DEFINE x == Xor(a, b)
           W == {1, 2, 4, 8, 16, 32, 64, 128}
<1>1. \A w \in W : XorBit(a, b, w) \in {0, w}
  BY DEF XorBit
<1>2. x \in Octet /\ \A w \in W : w * Bit(x, w) = XorBit(a, b, w)
  <2>1. x = XorBit(a, b, 1) + XorBit(a, b, 2) + XorBit(a, b, 4) + XorBit(a, b, 8)
            + XorBit(a, b, 16) + XorBit(a, b, 32) + XorBit(a, b, 64) + XorBit(a, b, 128)
    BY DEF Xor
  <2> HIDE DEF x
  <2>2. /\ x \in Octet
        /\ 1 * Bit(x, 1) = XorBit(a, b, 1) /\ 2 * Bit(x, 2) = XorBit(a, b, 2)
        /\ 4 * Bit(x, 4) = XorBit(a, b, 4) /\ 8 * Bit(x, 8) = XorBit(a, b, 8)
        /\ 16 * Bit(x, 16) = XorBit(a, b, 16) /\ 32 * Bit(x, 32) = XorBit(a, b, 32)
        /\ 64 * Bit(x, 64) = XorBit(a, b, 64) /\ 128 * Bit(x, 128) = XorBit(a, b, 128)
    BY <1>1, <2>1, BitsOfSum, SMT
  <2> QED
    BY <2>2
<1>3. \A w \in W : Bit(a, w) \in {0, 1} /\ Bit(b, w) \in {0, 1} /\ Bit(x, w) \in {0, 1}
  BY <1>2, SMT DEF Octet, Bit
<1>4. \A w \in W : XorBit(x, b, w) = w * Bit(a, w)
  <2> HIDE DEF x
  <2> QED
    BY <1>2, <1>3, SMT DEF XorBit
<1> HIDE DEF x
<1>5. Xor(x, b) = a
  BY <1>3, <1>4, BitsOfOctet, SMT DEF Xor
<1> QED
  BY <1>2, <1>5 DEF x

(* mask_payload is its own inverse, as the assignment of unmask_payload    *)
(* (websocket.py:332) takes it to be: read_frame returns the payload sent. *)
THEOREM UnmaskUndoesMask ==
  \A payload \in Seq(Octet), mask \in Mask : MaskPayload(MaskPayload(payload, mask), mask) = payload
<1> SUFFICES ASSUME NEW payload \in Seq(Octet), NEW mask \in Mask, mask # <<>>
             PROVE  MaskPayload(MaskPayload(payload, mask), mask) = payload
  BY DEF MaskPayload
<1> DEFINE key(i) == mask[((i - 1) % 4) + 1]
           masked == [i \in 1..Len(payload) |-> Xor(payload[i], key(i))]
<1>1. \A i \in 1..Len(payload) : payload[i] \in Octet /\ key(i) \in Octet
  <2> SUFFICES ASSUME NEW i \in 1..Len(payload) PROVE payload[i] \in Octet /\ key(i) \in Octet
    OBVIOUS
  <2>1. ((i - 1) % 4) + 1 \in 1..4
    BY SMT
  <2> QED
    BY <2>1, ElementOfSeq, MaskOctets
<1>2. MaskPayload(payload, mask) = masked /\ Len(masked) = Len(payload)
  BY DEF MaskPayload
<1>3. MaskPayload(masked, mask) = [i \in 1..Len(payload) |-> Xor(masked[i], key(i))]
  BY <1>2 DEF MaskPayload
<1>4. \A i \in 1..Len(payload) : Xor(masked[i], key(i)) = payload[i]
  <2> HIDE DEF key
  <2> QED
    BY <1>1, XorTwice
<1> HIDE DEF key, masked
<1>5. payload = [i \in 1..Len(payload) |-> payload[i]]
  OBVIOUS
<1> QED
  BY <1>2, <1>3, <1>4, <1>5
=============================================================================
