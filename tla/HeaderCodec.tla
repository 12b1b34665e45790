---------------------------- MODULE HeaderCodec ----------------------------
(***************************************************************************)
(* Class Header of websocket.py: a frame's header to and from octets, and  *)
(* the masking of payloads.  Octets are numbers; the bits the code takes   *)
(* with & and | are quotients and remainders here.  encode_header also     *)
(* refuses lengths from 2^64, which no Python object has.                  *)
(***************************************************************************)
EXTENDS Integers, Sequences

Octet == 0..255
Mask == {mask \in Seq(Octet) : Len(mask) \in {0, 4}}
Flags == {16 * n : n \in 0..7}        \* HEADER_FLAG_MASK selects three bits

\* Mutant of Pack2: the octets in the order of the machine.
Pack2Native(n) == <<n % 256, n \div 256>>

\* struct.pack and struct.unpack of '!H' and '!Q'.
Pack2(n) == <<n \div 256, n % 256>>
Pack8(n) ==
  LET w1 == n \div 65536  w2 == w1 \div 65536  w3 == w2 \div 65536
  IN  <<w3 \div 256, w3 % 256, (w2 \div 256) % 256, w2 % 256,
        (w1 \div 256) % 256, w1 % 256, (n \div 256) % 256, n % 256>>

Unpack2(s, i) == (s[i] * 256) + s[i + 1]
Unpack8(s, i) ==
  (((Unpack2(s, i) * 65536) + Unpack2(s, i + 2)) * 65536 + Unpack2(s, i + 4)) * 65536
    + Unpack2(s, i + 6)

\* The seven bits of the second octet, and the octets of the length that they announce.
ExtraOctets(short) == IF short < 126 THEN 0 ELSE IF short = 126 THEN 2 ELSE 8
Extra(short, length) ==
  IF short < 126 THEN <<>> ELSE IF short = 126 THEN Pack2(length) ELSE Pack8(length)

\* A length can be told by the seven bits alone, by two octets or by eight; those that can
\* tell it need not be the fewest.
Tells(short, length) ==
  /\ short \in 0..127
  /\ short < 126 => length = short
  /\ short = 126 => length <= 65535

\* The octets of a header, told in that way.
Octets(fin, opcode, mask, length, flags, short) ==
  <<opcode + flags + (IF fin THEN 128 ELSE 0),
    short + (IF mask = <<>> THEN 0 ELSE 128)>>
  \o Extra(short, length) \o mask

\* encode_header takes the fewest.
ShortLength(length) ==
  IF length < 126 THEN length ELSE IF length <= 65535 THEN 126 ELSE 127
EncodeHeader(fin, opcode, mask, length, flags) ==
  Octets(fin, opcode, mask, length, flags, ShortLength(length))

\* Mutant of DecodeHeader: the mask is looked for before the long length.
DecodeHeaderMaskFirst(s) ==
  LET short == s[2] % 128
      extra == ExtraOctets(short)
  IN  [fin    |-> s[1] \div 128 = 1,
       opcode |-> s[1] % 16,
       flags  |-> 16 * ((s[1] \div 16) % 8),
       length |-> IF extra = 0 THEN short
                  ELSE IF extra = 2 THEN Unpack2(s, 3) ELSE Unpack8(s, 3),
       mask   |-> IF s[2] \div 128 = 1 THEN [i \in 1..4 |-> s[2 + i]] ELSE <<>>]

DecodeHeader(s) ==
  LET short == s[2] % 128
      extra == ExtraOctets(short)
  IN  [fin    |-> s[1] \div 128 = 1,
       opcode |-> s[1] % 16,
       flags  |-> 16 * ((s[1] \div 16) % 8),
       length |-> IF extra = 0 THEN short
                  ELSE IF extra = 2 THEN Unpack2(s, 3) ELSE Unpack8(s, 3),
       mask   |-> IF s[2] \div 128 = 1 THEN [i \in 1..4 |-> s[2 + extra + i]] ELSE <<>>]

\* Mutants of IsRefused: control frames of any kind, or any reserved bits, get through.
IsRefusedReserved(short, header) == header.flags # 0
IsRefusedControl(short, header) == header.opcode > 7 /\ (~header.fin \/ short > 125)

\* What decode_header and read_frame refuse before they read the payload: control frames
\* that are fragmented or long by the seven bits, and reserved bits.
IsRefused(short, header) ==
  \/ header.opcode > 7 /\ (~header.fin \/ short > 125)
  \/ header.flags # 0

\* The exclusive or of two octets, bit by bit.
Bit(n, weight) == (n \div weight) % 2
XorBit(a, b, weight) == IF Bit(a, weight) = Bit(b, weight) THEN 0 ELSE weight
Xor(a, b) ==
  XorBit(a, b, 1) + XorBit(a, b, 2) + XorBit(a, b, 4) + XorBit(a, b, 8)
    + XorBit(a, b, 16) + XorBit(a, b, 32) + XorBit(a, b, 64) + XorBit(a, b, 128)

\* mask_payload, which is unmask_payload as well; without a mask read_frame skips it.
MaskPayload(payload, mask) ==
  IF mask = <<>> THEN payload
  ELSE [i \in 1..Len(payload) |-> Xor(payload[i], mask[((i - 1) % 4) + 1])]
=============================================================================
