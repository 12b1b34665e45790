----------------------- MODULE WebSocketFramesProofs -----------------------
(***************************************************************************)
(* The invariant of WebSocketFrames, for frames of any kind, payloads of   *)
(* any length and any number of them, and the properties that follow; and  *)
(* that WebSocketFrames implements MessageStream, up to fairness.          *)
(***************************************************************************)
EXTENDS WebSocketFrames, HeaderCodecProofs, Utf8ValidatorProofs

-----------------------------------------------------------------------------
(* Frames and what the client means by them.                               *)

Content == [kind : 1..2, octets : Seq(Octet)]
DraftType == [kind : 0..2, octets : Seq(Octet), completed : Seq(Content)]
SentType == [frame : Frame, draft : DraftType]

\* The header that decode_header reads for a frame.
HeaderOf(f) == [fin |-> f.fin, opcode |-> f.opcode, flags |-> f.flags, length |-> f.length, mask |-> f.mask]

LEMMA FrameFields ==
  ASSUME NEW f \in Frame
  PROVE  /\ f.fin \in BOOLEAN /\ f.opcode \in 0..15 /\ f.flags \in Flags /\ f.mask \in Mask
         /\ f.payload \in Seq(Octet) /\ f.length \in Length
         /\ f.length = Len(f.payload) \/ f.length > MaxRecv
         /\ HeaderOf(f) \in Header /\ Tells(f.short, f.length)
<1>1. /\ f.fin \in BOOLEAN /\ f.opcode \in 0..15 /\ f.flags \in Flags /\ f.mask \in Mask
      /\ f.payload \in Seq(Octet) /\ Tells(f.short, f.length)
      /\ f.length = Len(f.payload) \/ (f.length \in Nat /\ f.length > MaxRecv)
      /\ ((f.length \div 65536) \div 65536) \div 65536 < 65536
  BY FramesAssumption
<1>2. f.length \in Nat
  <2>1. Len(f.payload) \in Nat
    BY <1>1, LenProperties
  <2> QED
    BY <1>1, <2>1
<1>3. f.length \in Length
  BY <1>1, <1>2 DEF Length
<1> QED
  BY <1>1, <1>3 DEF HeaderOf, Header

LEMMA HeaderIsRead ==
  ASSUME NEW f \in Frame
  PROVE  DecodeHeader(Octets(f.fin, f.opcode, f.mask, f.length, f.flags, f.short)) = HeaderOf(f)
<1>1. DecodeHeader(EncodedAs(HeaderOf(f), f.short)) = HeaderOf(f)
  <2>1. HeaderOf(f).length = f.length
    BY DEF HeaderOf
  <2> QED
    BY <2>1, FrameFields, DecodeReadsHeader
<1>2. EncodedAs(HeaderOf(f), f.short) = Octets(f.fin, f.opcode, f.mask, f.length, f.flags, f.short)
  BY DEF EncodedAs, HeaderOf
<1> QED
  BY <1>1, <1>2

LEMMA PrefixIsElementwise ==
  ASSUME NEW S, NEW s \in Seq(S), NEW t \in Seq(S)
  PROVE  IsPrefixOf(s, t) <=> Len(s) <= Len(t) /\ \A i \in 1..Len(s) : s[i] = t[i]
<1>1. CASE Len(s) > Len(t)
  <2>1. Len(s) \in Nat /\ Len(t) \in Nat
    BY LenProperties
  <2> QED
    BY <1>1, <2>1 DEF IsPrefixOf
<1>2. CASE Len(s) <= Len(t)
  <2>1. Len(s) \in Nat /\ Len(t) \in Nat
    BY LenProperties
  <2>2. \A i \in 1..Len(s) : t[i] \in S
    BY <1>2, <2>1, ElementOfSeq
  <2>3. /\ SubSeq(t, 1, Len(s)) \in Seq(S)
        /\ Len(SubSeq(t, 1, Len(s))) = Len(s)
        /\ \A i \in 1..Len(s) : SubSeq(t, 1, Len(s))[i] = t[i]
    BY <2>1, <2>2, SubSeqProperties
  <2>4. (\A i \in 1..Len(s) : s[i] = t[i]) => s = SubSeq(t, 1, Len(s))
    BY <2>3, SeqEqual
  <2> QED
    BY <1>2, <2>3, <2>4 DEF IsPrefixOf
<1> QED
  BY <1>1, <1>2, LenProperties

LEMMA PrefixIsTransitive ==
  ASSUME NEW S, NEW s \in Seq(S), NEW t \in Seq(S), NEW u \in Seq(S),
         IsPrefixOf(s, t), IsPrefixOf(t, u)
  PROVE  IsPrefixOf(s, u)
<1>1. Len(s) \in Nat /\ Len(t) \in Nat /\ Len(u) \in Nat
  BY LenProperties
<1>2. Len(s) <= Len(t) /\ \A i \in 1..Len(s) : s[i] = t[i]
  BY PrefixIsElementwise
<1>3. Len(t) <= Len(u) /\ \A i \in 1..Len(t) : t[i] = u[i]
  BY PrefixIsElementwise
<1>4. Len(s) <= Len(u) /\ \A i \in 1..Len(s) : s[i] = u[i]
  BY <1>1, <1>2, <1>3
<1> QED
  BY <1>4, PrefixIsElementwise

LEMMA PrefixOfItself ==
  ASSUME NEW S, NEW s \in Seq(S)
  PROVE  IsPrefixOf(s, s)
  BY PrefixIsElementwise, LenProperties

LEMMA PrefixOfAppend ==
  ASSUME NEW S, NEW s \in Seq(S), NEW x \in S
  PROVE  /\ Append(s, x) \in Seq(S) /\ Len(Append(s, x)) = Len(s) + 1
         /\ Append(s, x)[Len(s) + 1] = x
         /\ \A i \in 1..Len(s) : Append(s, x)[i] = s[i]
         /\ IsPrefixOf(s, Append(s, x))
<1>1. /\ Append(s, x) \in Seq(S) /\ Len(Append(s, x)) = Len(s) + 1
      /\ Append(s, x)[Len(s) + 1] = x
      /\ \A i \in 1..Len(s) : Append(s, x)[i] = s[i]
  BY AppendProperties, LenProperties
<1>2. Len(s) \in Nat
  BY LenProperties
<1>3. Len(s) <= Len(Append(s, x)) /\ \A i \in 1..Len(s) : s[i] = Append(s, x)[i]
  BY <1>1, <1>2
<1>4. IsPrefixOf(s, Append(s, x))
  BY <1>1, <1>3, PrefixIsElementwise
<1> QED
  BY <1>1, <1>4

LEMMA ExtendedType ==
  ASSUME NEW draft \in DraftType, NEW f \in Frame, NEW next, next = Extended(draft, f)
  PROVE  /\ next \in DraftType
         /\ IsPrefixOf(draft.completed, next.completed)
         /\ Len(next.completed) \in {Len(draft.completed), Len(draft.completed) + 1}
         /\ Len(next.completed) = Len(draft.completed) => next.completed = draft.completed
<1>1. /\ draft.kind \in 0..2 /\ draft.octets \in Seq(Octet) /\ draft.completed \in Seq(Content)
      /\ f.payload \in Seq(Octet)
  BY FrameFields DEF DraftType
<1>2. IsPrefixOf(draft.completed, draft.completed) /\ Len(draft.completed) \in Nat
  BY <1>1, PrefixOfItself, LenProperties
<1>3. CASE ~Fits(draft, f)
  BY <1>2, <1>3 DEF Extended
<1>4. CASE Fits(draft, f)
  <2> DEFINE kind == IF draft.kind = 0 THEN f.opcode ELSE draft.kind
             octets == draft.octets \o f.payload
             content == [kind |-> kind, octets |-> octets]
  <2>1. kind \in 1..2
    BY <1>1, <1>4 DEF Fits, OPCODE_TEXT, OPCODE_BINARY, OPCODE_CONTINUATION
  <2>2. octets \in Seq(Octet)
    BY <1>1, ConcatProperties
  <2>3. content \in Content
    BY <2>1, <2>2 DEF Content
  <2>4. next = IF f.fin THEN [kind |-> 0, octets |-> <<>>, completed |-> Append(draft.completed, content)]
               ELSE [kind |-> kind, octets |-> octets, completed |-> draft.completed]
    BY <1>4 DEF Extended
  <2> HIDE DEF kind, octets, content
  <2>5. /\ Append(draft.completed, content) \in Seq(Content)
        /\ Len(Append(draft.completed, content)) = Len(draft.completed) + 1
        /\ IsPrefixOf(draft.completed, Append(draft.completed, content))
    BY <1>1, <2>3, PrefixOfAppend
  <2>6. CASE f.fin
    <3>1. next = [kind |-> 0, octets |-> <<>>, completed |-> Append(draft.completed, content)]
      BY <2>4, <2>6
    <3>2. <<>> \in Seq(Octet)
      BY EmptySeq
    <3> QED
      BY <1>2, <2>5, <3>1, <3>2 DEF DraftType
  <2>7. CASE ~f.fin
    <3>1. next = [kind |-> kind, octets |-> octets, completed |-> draft.completed]
      BY <2>4, <2>7
    <3> QED
      BY <1>1, <1>2, <2>1, <2>2, <3>1 DEF DraftType
  <2> QED
    BY <2>6, <2>7
<1> QED
  BY <1>3, <1>4

-----------------------------------------------------------------------------
(* The invariant.                                                          *)

TypeInv ==
  /\ sent \in Seq(SentType) /\ taken \in 0..Len(sent)
  /\ link \in {"up", "ended", "reset"}
  /\ at \in {"idle", "header", "payload", "frame", "done"}
  /\ header \in [fin : BOOLEAN, opcode : 0..15, flags : {0}, length : Nat, mask : Mask]
  /\ header.opcode > 7 => header.fin /\ header.length <= 125
  /\ payload \in Seq(Octet)
  /\ opcode \in 0..2 /\ message \in Seq(Octet)
  /\ received \in Seq(Content)

ClosedInv == closed = (at = "done")

\* The drafts follow from the frames, and what was completed stays completed.
SentInv ==
  /\ \A i \in 1..Len(sent) : sent[i].draft = Extended(DraftAt(i - 1), sent[i].frame)
  /\ \A i \in 0..Len(sent) : IsPrefixOf(DraftAt(i).completed, Draft.completed)

\* The frame in hand is the next one the client sent.
ReadInv ==
  /\ at \in {"payload", "frame"} =>
       /\ taken < Len(sent) /\ header = HeaderOf(sent[taken + 1].frame)
       /\ ~IsRefused(sent[taken + 1].frame.short, header)
  /\ at = "frame" => payload = sent[taken + 1].frame.payload /\ Len(payload) = header.length

\* What read_message holds and what receive has returned are what the client has said
\* with the frames taken.
StreamInv ==
  /\ at # "done" => /\ opcode = DraftAt(taken).kind
                    /\ message = DraftAt(taken).octets
                    /\ received = DraftAt(taken).completed
  /\ IsPrefixOf(received, Draft.completed)

WireType == [octets : Seq(Octet), opcode : {OPCODE_TEXT, OPCODE_CLOSE, OPCODE_PONG},
             length : Nat, payload : Seq(Octet)]

WireInv ==
  /\ wire \in Seq(WireType)
  /\ \A i \in 1..Len(wire) :
       /\ wire[i].length \in Length
       /\ wire[i].octets = EncodeHeader(TRUE, wire[i].opcode, <<>>, wire[i].length, 0)
       /\ wire[i].opcode # OPCODE_TEXT => wire[i].length <= 125
       /\ wire[i].opcode = OPCODE_CLOSE =>
            at = "done" /\ i = Len(wire) /\ Unpack2(wire[i].payload, 1) \notin ReservedCodes

\* Nothing unlawful was taken, and while a text is read, what there is of it is UTF-8.
LawInv ==
  /\ \A i \in 1..taken : IsUnlawful(i) => at = "done" /\ i = taken
  /\ at # "done" /\ opcode \in {0, OPCODE_TEXT} => IsWellFormed(message)

FramesInv == TypeInv /\ ClosedInv /\ SentInv /\ ReadInv /\ StreamInv /\ WireInv /\ LawInv

OPCODES == {OPCODE_CONTINUATION, OPCODE_TEXT, OPCODE_BINARY, OPCODE_CLOSE, OPCODE_PING, OPCODE_PONG}

-----------------------------------------------------------------------------
(* Facts about a state.                                                    *)

LEMMA DraftIsTyped ==
  ASSUME TypeInv
  PROVE  /\ Len(sent) \in Nat
         /\ \A i \in 1..Len(sent) : sent[i] \in SentType /\ sent[i].frame \in Frame
         /\ \A i \in 0..Len(sent) : DraftAt(i) \in DraftType
         /\ Draft = DraftAt(Len(sent))
<1>1. Len(sent) \in Nat /\ \A i \in 1..Len(sent) : sent[i] \in SentType
  BY LenProperties, ElementOfSeq DEF TypeInv
<1>2. Draft0 \in DraftType
  BY EmptySeq DEF Draft0, DraftType
<1>3. \A i \in 1..Len(sent) : sent[i].frame \in Frame /\ sent[i].draft \in DraftType
  BY <1>1 DEF SentType
<1>4. \A i \in 0..Len(sent) : DraftAt(i) \in DraftType
  BY <1>1, <1>2, <1>3 DEF DraftAt
<1> QED
  BY <1>1, <1>3, <1>4 DEF Draft

\* The frame that read_frame has returned.
LEMMA FrameInHand ==
  ASSUME TypeInv, SentInv, ReadInv, StreamInv, at = "frame",
         NEW f, f = sent[taken + 1].frame, NEW draft, draft = DraftAt(taken)
  PROVE  /\ taken + 1 \in 1..Len(sent) /\ f \in Frame /\ draft \in DraftType
         /\ header = HeaderOf(f) /\ payload = f.payload /\ ~IsRefused(f.short, header)
         /\ f.opcode = header.opcode /\ f.fin = header.fin /\ f.length = Len(f.payload)
         /\ sent[taken + 1].draft = Extended(draft, f)
         /\ DraftAt(taken + 1) = Extended(draft, f)
         /\ opcode = draft.kind /\ message = draft.octets /\ received = draft.completed
<1>1. taken \in Nat /\ Len(sent) \in Nat /\ taken < Len(sent)
  BY DraftIsTyped DEF TypeInv, ReadInv
<1>2. taken + 1 \in 1..Len(sent) /\ taken \in 0..Len(sent) /\ (taken + 1) - 1 = taken /\ taken + 1 # 0
  BY <1>1
<1>3. f \in Frame /\ draft \in DraftType
  BY <1>2, DraftIsTyped
<1>4. header = HeaderOf(f) /\ payload = f.payload /\ ~IsRefused(f.short, header) /\ Len(payload) = header.length
  BY DEF ReadInv
<1>5. f.opcode = header.opcode /\ f.fin = header.fin /\ f.length = header.length
  BY <1>4 DEF HeaderOf
<1>6. sent[taken + 1].draft = Extended(draft, f)
  BY <1>2 DEF SentInv
<1>7. DraftAt(taken + 1) = sent[taken + 1].draft
  BY <1>2 DEF DraftAt
<1>8. opcode = draft.kind /\ message = draft.octets /\ received = draft.completed
  BY <1>1 DEF StreamInv
<1> QED
  BY <1>1, <1>2, <1>3, <1>4, <1>5, <1>6, <1>7, <1>8

\* A fragment that is taken is what the client meant to come next.
LEMMA FragmentExtends ==
  ASSUME TypeInv, NEW f \in Frame, NEW draft \in DraftType, f.opcode = header.opcode, f.fin = header.fin,
         payload = f.payload, opcode = draft.kind, message = draft.octets,
         header.opcode \in {OPCODE_CONTINUATION, OPCODE_TEXT, OPCODE_BINARY},
         MessageOpcode # 0, ~BeginsInside
  PROVE  /\ Fits(draft, f) /\ MessageOpcode \in 1..2
         /\ MessageOpcode = OPCODE_TEXT
              <=> f.opcode = OPCODE_TEXT \/ (f.opcode = OPCODE_CONTINUATION /\ draft.kind = OPCODE_TEXT)
         /\ Extended(draft, f) =
              IF header.fin
              THEN [kind |-> 0, octets |-> <<>>,
                    completed |-> Append(draft.completed,
                                         [kind |-> MessageOpcode, octets |-> message \o payload])]
              ELSE [kind |-> MessageOpcode, octets |-> message \o payload,
                    completed |-> draft.completed]
<1> USE DEF OPCODE_CONTINUATION, OPCODE_TEXT, OPCODE_BINARY
<1>1. draft.kind \in 0..2 /\ opcode \in 0..2
  BY DEF DraftType, TypeInv
<1>2. CASE header.opcode = 0
  <2>1. draft.kind # 0 /\ MessageOpcode = draft.kind /\ Fits(draft, f)
    BY <1>2 DEF MessageOpcode, Fits
  <2> QED
    BY <1>1, <1>2, <2>1 DEF Extended
<1>3. CASE header.opcode \in {1, 2}
  <2>1. draft.kind = 0 /\ MessageOpcode = f.opcode /\ Fits(draft, f)
    BY <1>3 DEF MessageOpcode, BeginsInside, Fits
  <2> QED
    BY <1>1, <1>3, <2>1 DEF Extended
<1> QED
  BY <1>2, <1>3

\* Other frames say nothing.
LEMMA OthersSayNothing ==
  ASSUME NEW f \in Frame, NEW draft \in DraftType, f.opcode \notin {0, 1, 2}
  PROVE  Extended(draft, f) = draft /\ ~Fits(draft, f)
  BY DEF Extended, Fits, OPCODE_CONTINUATION, OPCODE_TEXT, OPCODE_BINARY

-----------------------------------------------------------------------------
(* Initially.                                                              *)

LEMMA NoHeaderType ==
  /\ NoHeader \in [fin : BOOLEAN, opcode : 0..15, flags : {0}, length : Nat, mask : Mask]
  /\ NoHeader.opcode = 0
<1>1. <<>> \in Seq(Octet) /\ Len(<<>>) = 0
  BY EmptySeq
<1>2. <<>> \in Mask
  BY <1>1 DEF Mask
<1>3. NoHeader = [fin |-> FALSE, opcode |-> 0, flags |-> 0, length |-> 0, mask |-> <<>>]
  <2> DEFINE h == [fin |-> FALSE, opcode |-> 0, flags |-> 0, length |-> 0, mask |-> <<>>]
  <2>1. 0 \in Flags /\ 0 \in Length /\ 0 \in 0..15
    BY SMT DEF Flags, Length
  <2>2. h \in Header
    BY <1>2, <2>1 DEF Header
  <2>3. Extra(0, 0) = <<>> /\ ShortLength(0) = 0
    BY DEF Extra, ShortLength
  <2>4. Encoded(h) = <<0 + 0 + 0, 0 + 0>> \o <<>> \o <<>>
    BY <2>3 DEF Encoded, EncodeHeader, Octets
  <2>5. <<0 + 0 + 0, 0 + 0>> = <<0, 0>> /\ <<0, 0>> \in Seq(Octet)
    BY DEF Octet
  <2>6. Encoded(h) = <<0, 0>>
    BY <2>4, <2>5, ConcatEmptySeq
  <2>7. DecodeHeader(<<0, 0>>) = h
    BY <2>2, <2>6, DecodeUndoesEncode
  <2> QED
    BY <2>7 DEF NoHeader
<1> QED
  BY <1>2, <1>3

LEMMA NothingIsWellFormed == IsWellFormed(<<>>)
<1>1. <<>> \in Seq(0..127)
  BY EmptySeq
<1> QED
  BY <1>1, AsciiIsItself

LEMMA InitFrames == Init => FramesInv
<1> SUFFICES ASSUME Init PROVE FramesInv
  OBVIOUS
<1> USE DEF Init
<1>1. /\ sent = <<>> /\ Len(sent) = 0 /\ wire = <<>> /\ Len(wire) = 0 /\ received = <<>> /\ Len(received) = 0
      /\ taken = 0
  OBVIOUS
<1>2. TypeInv
  <2>1. /\ <<>> \in Seq(SentType) /\ <<>> \in Seq(Octet) /\ <<>> \in Seq(Content)
        /\ 0 \in 0..2 /\ taken \in 0..Len(sent)
    BY <1>1, EmptySeq
  <2>2. /\ header \in [fin : BOOLEAN, opcode : 0..15, flags : {0}, length : Nat, mask : Mask]
        /\ ~(header.opcode > 7)
    BY NoHeaderType
  <2>3. /\ sent = <<>> /\ payload = <<>> /\ message = <<>> /\ received = <<>> /\ opcode = 0
        /\ link = "up" /\ at = "idle"
    OBVIOUS
  <2> HIDE DEF Init
  <2> QED
    BY <2>1, <2>2, <2>3 DEF TypeInv
<1>3. Draft = Draft0 /\ DraftAt(0) = Draft0 /\ Draft0.completed = <<>>
  BY <1>1 DEF Draft, DraftAt, Draft0
<1>4. IsPrefixOf(<<>>, <<>>)
  <2>1. <<>> \in Seq(Content)
    BY EmptySeq
  <2> QED
    BY <2>1, PrefixOfItself
<1>5. SentInv
  BY <1>1, <1>3, <1>4 DEF SentInv
<1>6. ReadInv
  BY DEF ReadInv
<1>7. StreamInv
  BY <1>1, <1>3, <1>4 DEF StreamInv, Draft0
<1>8. WireInv
  BY <1>1, EmptySeq DEF WireInv
<1>9. LawInv
  <2>1. \A i \in 1..taken : FALSE
    BY <1>1
  <2>2. message = <<>>
    OBVIOUS
  <2> QED
    BY <2>1, <2>2, NothingIsWellFormed, Zenon DEF LawInv
<1>10. ClosedInv
  BY Zenon DEF ClosedInv
<1> QED
  BY <1>2, <1>5, <1>6, <1>7, <1>8, <1>9, <1>10 DEF FramesInv

-----------------------------------------------------------------------------
(* The wire.                                                               *)

LEMMA EncodedType ==
  ASSUME NEW op \in OPCODES, NEW length \in Length
  PROVE  /\ EncodeHeader(TRUE, op, <<>>, length, 0) \in Seq(Octet)
         /\ DecodeHeader(EncodeHeader(TRUE, op, <<>>, length, 0))
              = [fin |-> TRUE, opcode |-> op, flags |-> 0, length |-> length, mask |-> <<>>]
         /\ EncodeHeader(TRUE, op, <<>>, length, 0)[2] % 128 = ShortLength(length)
<1> DEFINE h == [fin |-> TRUE, opcode |-> op, flags |-> 0, length |-> length, mask |-> <<>>]
<1>1. op \in 0..15
  BY DEF OPCODES, OPCODE_CONTINUATION, OPCODE_TEXT, OPCODE_BINARY, OPCODE_CLOSE, OPCODE_PING, OPCODE_PONG
<1>2. 0 \in Flags
  BY DEF Flags
<1>3. <<>> \in Mask
  BY EmptySeq DEF Mask
<1>4. h \in Header /\ Encoded(h) = EncodeHeader(TRUE, op, <<>>, length, 0)
  BY <1>1, <1>2, <1>3 DEF Header, Encoded
<1>5. op + 0 + 128 \in Octet
  BY <1>1 DEF Octet
<1>6. /\ ShortLength(length) \in 0..127 /\ Extra(ShortLength(length), length) \in Seq(Octet)
  BY ShortTells, ExtraLength
<1>7. ShortLength(length) + 0 \in Octet
  <2>1. \A n \in 0..127 : n + 0 \in Octet
    BY DEF Octet
  <2> QED
    BY <1>6, <2>1
<1>8. <<op + 0 + 128, ShortLength(length) + 0>> \in Seq(Octet)
  BY <1>5, <1>7
<1>9. EncodeHeader(TRUE, op, <<>>, length, 0)
        = <<op + 0 + 128, ShortLength(length) + 0>> \o Extra(ShortLength(length), length) \o <<>>
  BY DEF EncodeHeader, Octets
<1>10. <<op + 0 + 128, ShortLength(length) + 0>> \o Extra(ShortLength(length), length) \in Seq(Octet)
  BY <1>6, <1>8, ConcatProperties
<1>11. EncodeHeader(TRUE, op, <<>>, length, 0) \in Seq(Octet)
  BY <1>9, <1>10, ConcatEmptySeq, ZenonT(40)
<1>12. EncodeHeader(TRUE, op, <<>>, length, 0)[2] = ShortLength(length) + 0
  <2>1. <<>> \in Seq(Octet)
    BY EmptySeq
  <2> DEFINE b1 == op + 0 + 128
             b2 == ShortLength(length) + 0
             extra == Extra(ShortLength(length), length)
             mask == <<>>
             s == EncodeHeader(TRUE, op, <<>>, length, 0)
  <2>2. b1 \in Octet /\ b2 \in Octet /\ extra \in Seq(Octet)
    BY <1>5, <1>6, <1>7
  <2>3. s = <<b1, b2>> \o extra \o mask /\ mask \in Seq(Octet)
    BY <1>9, <2>1
  <2> HIDE DEF b1, b2, extra, mask, s
  <2>4. s[2] = b2
    BY <2>2, <2>3, Parts
  <2> QED
    BY <2>4 DEF b2, s
<1>13. (ShortLength(length) + 0) % 128 = ShortLength(length)
  BY <1>6, SecondOctet
<1> QED
  BY <1>4, <1>11, <1>12, <1>13, DecodeUndoesEncode

\* A frame more on the wire; a close frame closes.
LEMMA FrameIsSent ==
  ASSUME WireInv, at # "done", NEW op \in {OPCODE_TEXT, OPCODE_CLOSE, OPCODE_PONG},
         NEW length \in Length, NEW content \in Seq(Octet), SendFrame(op, length, content),
         op # OPCODE_TEXT => length <= 125,
         op = OPCODE_CLOSE => at' = "done" /\ Unpack2(content, 1) \notin ReservedCodes
  PROVE  WireInv'
<1> DEFINE w == [octets |-> EncodeHeader(TRUE, op, <<>>, length, 0), opcode |-> op,
                 length |-> length, payload |-> content]
<1>1. wire' = Append(wire, w)
  BY DEF SendFrame
<1>2. EncodeHeader(TRUE, op, <<>>, length, 0) \in Seq(Octet)
  BY EncodedType DEF OPCODES
<1>3. w \in WireType
  <2>1. length \in Nat
    BY DEF Length
  <2> QED
    BY <1>2, <2>1 DEF WireType
<1>4. w.octets = EncodeHeader(TRUE, w.opcode, <<>>, w.length, 0) /\ w.opcode = op /\ w.length = length
      /\ w.payload = content
  OBVIOUS
<1> HIDE DEF w
<1>5. wire \in Seq(WireType) /\ Len(wire) \in Nat
  BY LenProperties DEF WireInv
<1>6. /\ wire' \in Seq(WireType) /\ Len(wire') = Len(wire) + 1
      /\ wire'[Len(wire) + 1] = w
      /\ \A i \in 1..Len(wire) : wire'[i] = wire[i]
  BY <1>1, <1>3, <1>5, PrefixOfAppend
<1>7. SUFFICES ASSUME NEW i \in 1..Len(wire')
               PROVE  /\ wire'[i].length \in Length
                      /\ wire'[i].octets = EncodeHeader(TRUE, wire'[i].opcode, <<>>, wire'[i].length, 0)
                      /\ wire'[i].opcode # OPCODE_TEXT => wire'[i].length <= 125
                      /\ wire'[i].opcode = OPCODE_CLOSE =>
                           /\ at' = "done" /\ i = Len(wire')
                           /\ Unpack2(wire'[i].payload, 1) \notin ReservedCodes
  BY <1>6 DEF WireInv
<1>8. CASE i \in 1..Len(wire)
  <2>1. /\ wire[i].length \in Length
        /\ wire[i].octets = EncodeHeader(TRUE, wire[i].opcode, <<>>, wire[i].length, 0)
        /\ wire[i].opcode # OPCODE_TEXT => wire[i].length <= 125
        /\ wire[i].opcode # OPCODE_CLOSE
    BY <1>8 DEF WireInv
  <2> QED
    BY <1>6, <1>8, <2>1
<1>9. CASE i = Len(wire) + 1
  <2>1. wire'[i] = w /\ i = Len(wire')
    BY <1>6, <1>9
  <2>2. /\ wire'[i].length = length /\ wire'[i].opcode = op /\ wire'[i].payload = content
        /\ wire'[i].octets = EncodeHeader(TRUE, wire'[i].opcode, <<>>, wire'[i].length, 0)
    BY <1>4, <2>1
  <2> QED
    BY <2>1, <2>2
<1>10. i \in 1..Len(wire) \/ i = Len(wire) + 1
  BY <1>5, <1>6
<1> QED
  BY <1>8, <1>9, <1>10

\* The codes that may appear in a close frame.
Code == {code \in Nat : code \div 256 \in Octet /\ code \notin ReservedCodes}

\* close says goodbye with a code that may be said, or not at all.
LEMMA Joined ==
  ASSUME NEW S, NEW s1 \in Seq(S), NEW s2 \in Seq(S)
  PROVE  \A i \in 1..Len(s1) : (s1 \o s2)[i] = s1[i]
<1> SUFFICES ASSUME NEW i \in 1..Len(s1) PROVE (s1 \o s2)[i] = s1[i]
  OBVIOUS
<1>1. Len(s1) \in Nat /\ Len(s2) \in Nat
  BY LenProperties
<1>2. i \in 1..Len(s1) + Len(s2) /\ i <= Len(s1)
  BY <1>1
<1>3. \A k \in 1..Len(s1) + Len(s2) : (s1 \o s2)[k] = IF k <= Len(s1) THEN s1[k] ELSE s2[k - Len(s1)]
  BY ConcatProperties
<1> QED
  BY <1>2, <1>3

LEMMA TwoOctets ==
  ASSUME NEW code \in Code, NEW reason \in Seq(Octet), NEW content, content = Pack2(code) \o reason
  PROVE  content \in Seq(Octet) /\ Unpack2(content, 1) = code
<1>1. /\ code \div 256 \in Octet /\ code % 256 \in Octet
      /\ ((code \div 256) * 256) + (code % 256) = code
  BY SMT DEF Code, Octet
<1> DEFINE s == <<code \div 256, code % 256>>
<1>2. s \in Seq(Octet) /\ Len(s) = 2 /\ s[1] = code \div 256 /\ s[2] = code % 256
  BY <1>1
<1> HIDE DEF s
<1>3. content = s \o reason
  BY DEF Pack2, s
<1>4. s \in Seq(Octet) /\ Len(s) = 2
  BY <1>2
<1>5. s \o reason \in Seq(Octet) /\ \A i \in 1..Len(s) : (s \o reason)[i] = s[i]
  BY <1>4, ConcatProperties, Joined
<1>6. content[1] = s[1] /\ content[2] = s[2]
  <2>1. 1 \in 1..Len(s) /\ 2 \in 1..Len(s)
    BY <1>4
  <2>2. (s \o reason)[1] = s[1] /\ (s \o reason)[2] = s[2]
    BY <1>5, <2>1
  <2> QED
    BY <1>3, <2>2, Zenon
<1>7. Unpack2(content, 1) = (content[1] * 256) + content[1 + 1] /\ 1 + 1 = 2
  BY DEF Unpack2
<1> QED
  BY <1>1, <1>2, <1>3, <1>5, <1>6, <1>7, ZenonT(40)

LEMMA CloseIsSent ==
  ASSUME WireInv, at # "done", NEW code \in Code, NEW reason \in Seq(Octet),
         Len(reason) <= 123, at' = "done", NEW content, content = Pack2(code) \o reason,
         wire' = wire \/ SendFrame(OPCODE_CLOSE, 2 + Len(reason), content)
  PROVE  WireInv'
<1>1. CASE wire' = wire
  <2>2. \A i \in 1..Len(wire) : wire[i].opcode # OPCODE_CLOSE
    BY DEF WireInv
  <2> QED
    BY <1>1, <2>2 DEF WireInv
<1>2. CASE SendFrame(OPCODE_CLOSE, 2 + Len(reason), content)
  <2>2. content \in Seq(Octet) /\ Unpack2(content, 1) = code
    BY TwoOctets
  <2>3. Len(reason) \in Nat
    BY LenProperties
  <2>4. 2 + Len(reason) \in Length /\ 2 + Len(reason) <= 125
    BY <2>3, SMT DEF Length
  <2>5. Unpack2(content, 1) \notin ReservedCodes
    BY <2>2 DEF Code
  <2> QED
    BY <1>2, <2>2, <2>4, <2>5, FrameIsSent
<1> QED
  BY <1>1, <1>2

\* What close leaves behind.
Closes(code, reason) ==
  /\ at' = "done"
  /\ wire' = wire \/ SendFrame(OPCODE_CLOSE, 2 + Len(reason), Pack2(code) \o reason)

LEMMA ErrorsAreSent ==
  ASSUME WireInv, at # "done", UnicodeError \/ WebSocketError \/ OtherError
  PROVE  WireInv' /\ at' = "done"
<1>1. <<>> \in Seq(Octet) /\ Len(<<>>) <= 123
  BY EmptySeq
<1>2. 1001 \in Code /\ 1002 \in Code /\ 1007 \in Code
  BY SMT DEF Code, ReservedCodes, Octet
<1>3. ASSUME NEW code \in Code, Closes(code, <<>>)
      PROVE  WireInv' /\ at' = "done"
  <2> DEFINE content == Pack2(code) \o <<>>  reason == <<>>
  <2>1. reason \in Seq(Octet) /\ Len(reason) <= 123
    BY <1>1
  <2>2. /\ content = Pack2(code) \o reason /\ at' = "done"
        /\ wire' = wire \/ SendFrame(OPCODE_CLOSE, 2 + Len(reason), content)
    BY <1>3, Zenon DEF Closes
  <2> HIDE DEF content, reason
  <2> QED
    BY <2>1, <2>2, CloseIsSent
<1>4. CASE UnicodeError
  <2>1. Closes(1007, <<>>)
    BY <1>4, ZenonT(40) DEF UnicodeError, Close, Closes
  <2> QED
    BY <1>2, <1>3, <2>1
<1>5. CASE WebSocketError
  <2>1. Closes(1002, <<>>)
    BY <1>5, ZenonT(40) DEF WebSocketError, Close, Closes
  <2> QED
    BY <1>2, <1>3, <2>1
<1>6. CASE OtherError
  <2>1. Closes(1001, <<>>)
    BY <1>6, Zenon DEF OtherError, Close, Closes
  <2> QED
    BY <1>2, <1>3, <2>1
<1> QED
  BY <1>4, <1>5, <1>6
-----------------------------------------------------------------------------
(* Every step keeps the invariant.                                         *)

\* What is said of a fragment follows from the frame and from what comes before it.
LEMMA SameText ==
  ASSUME NEW i, sent'[i].frame = sent[i].frame, DraftAt(i - 1)' = DraftAt(i - 1)
  PROVE  /\ IsTextFragment(i)' <=> IsTextFragment(i)
         /\ IsIllFormedText(i)' <=> IsIllFormedText(i)
         /\ SplitsCharacter(i)' <=> SplitsCharacter(i)
<1>1. IsTextFragment(i)' <=> IsTextFragment(i)
  BY Zenon DEF IsTextFragment
<1>2. TextUpTo(i)' = TextUpTo(i)
  BY Zenon DEF TextUpTo
<1>3. IsIllFormedText(i)' <=> IsIllFormedText(i)
  BY <1>1, <1>2, Zenon DEF IsIllFormedText, StopsBroken
<1>4. SplitsCharacter(i)' <=> SplitsCharacter(i)
  BY <1>1, <1>2, Zenon DEF SplitsCharacter, StopsInside
<1> QED
  BY <1>1, <1>3, <1>4

LEMMA SameSent ==
  ASSUME sent' = sent
  PROVE  /\ Draft' = Draft /\ \A i : DraftAt(i)' = DraftAt(i)
         /\ \A i : IsUnlawful(i)' <=> IsUnlawful(i)
<1>1. \A i : DraftAt(i)' = DraftAt(i)
  BY Zenon DEF DraftAt
<1>2. Draft' = Draft
  BY Zenon DEF Draft, DraftAt
<1>3. \A i : IsIllFormedText(i)' <=> IsIllFormedText(i)
  BY <1>1, SameText, Zenon
<1>4. \A i : IsUnlawful(i)' <=> IsUnlawful(i)
  BY <1>1, <1>3, ZenonT(40) DEF IsUnlawful
<1> QED
  BY <1>1, <1>2, <1>4

\* The client sends: nothing said before changes.
LEMMA SentStep ==
  ASSUME TypeInv, NEW f \in Frame, ClientSends(f)
  PROVE  /\ sent' \in Seq(SentType) /\ Len(sent') = Len(sent) + 1
         /\ \A i \in 1..Len(sent) : sent'[i] = sent[i]
         /\ sent'[Len(sent) + 1].frame = f /\ sent'[Len(sent) + 1].draft = Extended(Draft, f)
         /\ \A i \in 0..Len(sent) : DraftAt(i)' = DraftAt(i)
         /\ Draft' = Extended(Draft, f)
         /\ \A i : i = Len(sent) + 1 => DraftAt(i)' = Extended(Draft, f)
         /\ \A i \in 1..Len(sent) : IsUnlawful(i)' <=> IsUnlawful(i)
<1> DEFINE s == [frame |-> f, draft |-> Extended(Draft, f)]
<1>1. sent \in Seq(SentType) /\ Len(sent) \in Nat /\ Draft \in DraftType
  <2>1. Len(sent) \in Nat /\ Draft = DraftAt(Len(sent)) /\ \A i \in 0..Len(sent) : DraftAt(i) \in DraftType
    BY DraftIsTyped
  <2> QED
    BY <2>1 DEF TypeInv
<1>2. s \in SentType
  <2>1. Extended(Draft, f) \in DraftType
    BY <1>1, ExtendedType
  <2> QED
    BY <2>1 DEF SentType
<1>3. s.frame = f /\ s.draft = Extended(Draft, f)
  OBVIOUS
<1>4. sent' = Append(sent, s)
  BY DEF ClientSends
<1> HIDE DEF s
<1>5. /\ sent' \in Seq(SentType) /\ Len(sent') = Len(sent) + 1
      /\ sent'[Len(sent) + 1] = s /\ \A i \in 1..Len(sent) : sent'[i] = sent[i]
  BY <1>1, <1>2, <1>4, PrefixOfAppend
<1>6. \A i \in 0..Len(sent) : DraftAt(i)' = DraftAt(i)
  BY <1>1, <1>5 DEF DraftAt
<1>7. \A i : i = Len(sent) + 1 => DraftAt(i)' = Extended(Draft, f)
  <2>1. Len(sent) + 1 # 0
    BY <1>1
  <2>2. sent'[Len(sent) + 1].draft = Extended(Draft, f)
    BY <1>3, <1>5
  <2> QED
    BY <2>1, <2>2, Zenon DEF DraftAt
<1>8. Draft' = Extended(Draft, f)
  <2>1. Len(sent') # 0 /\ sent'[Len(sent')].draft = Extended(Draft, f)
    BY <1>1, <1>3, <1>5
  <2>2. DraftAt(Len(sent))' = sent'[Len(sent')].draft
    BY <2>1, Zenon DEF DraftAt
  <2> QED
    BY <2>1, <2>2, Zenon DEF Draft
<1>9. \A i \in 1..Len(sent) : IsUnlawful(i)' <=> IsUnlawful(i)
  <2> SUFFICES ASSUME NEW i \in 1..Len(sent) PROVE IsUnlawful(i)' <=> IsUnlawful(i)
    OBVIOUS
  <2>1. i - 1 \in 0..Len(sent)
    BY <1>1
  <2>2. sent'[i] = sent[i] /\ DraftAt(i - 1)' = DraftAt(i - 1)
    BY <1>5, <1>6, <2>1
  <2>3. IsIllFormedText(i)' <=> IsIllFormedText(i)
    BY <2>2, SameText
  <2> QED
    BY <2>2, <2>3, Zenon DEF IsUnlawful
<1> QED
  BY <1>3, <1>5, <1>6, <1>7, <1>8, <1>9

LEMMA ClientStep ==
  ASSUME FramesInv, NEW f \in Frame, ClientSends(f)
  PROVE  FramesInv'
<1> USE DEF FramesInv
<1>1. /\ taken' = taken /\ link' = link /\ at' = at /\ header' = header /\ payload' = payload
      /\ opcode' = opcode /\ message' = message /\ received' = received /\ wire' = wire
  BY DEF ClientSends, readVars
<1>2. /\ sent' \in Seq(SentType) /\ Len(sent') = Len(sent) + 1
      /\ \A i \in 1..Len(sent) : sent'[i] = sent[i]
      /\ sent'[Len(sent) + 1].frame = f /\ sent'[Len(sent) + 1].draft = Extended(Draft, f)
      /\ \A i \in 0..Len(sent) : DraftAt(i)' = DraftAt(i)
      /\ Draft' = Extended(Draft, f)
      /\ \A i : i = Len(sent) + 1 => DraftAt(i)' = Extended(Draft, f)
  BY SentStep
<1>3. /\ Len(sent) \in Nat /\ taken \in 0..Len(sent) /\ \A i \in 0..Len(sent) : DraftAt(i) \in DraftType
      /\ Draft = DraftAt(Len(sent)) /\ Draft \in DraftType
  BY DraftIsTyped DEF TypeInv
<1>4. /\ Draft' \in DraftType /\ IsPrefixOf(Draft.completed, Draft'.completed)
  BY <1>2, <1>3, ExtendedType
<1>5. TypeInv'
  <2>1. taken' \in 0..Len(sent')
    BY <1>1, <1>2, <1>3
  <2> QED
    BY <1>1, <1>2, <2>1 DEF TypeInv
<1>6. ClosedInv'
  <2>1. closed' = closed /\ at' = at
    BY <1>1, Zenon DEF ClientSends
  <2> QED
    BY <2>1, Zenon DEF ClosedInv
<1>7. SentInv'
  <2>1. ASSUME NEW i \in 1..Len(sent') PROVE sent'[i].draft = Extended(DraftAt(i - 1)', sent'[i].frame)
    <3>1. CASE i \in 1..Len(sent)
      <4>1. i - 1 \in 0..Len(sent)
        BY <1>3, <3>1
      <4>2. sent[i].draft = Extended(DraftAt(i - 1), sent[i].frame)
        BY <3>1 DEF SentInv
      <4> QED
        BY <1>2, <3>1, <4>1, <4>2
    <3>2. CASE i = Len(sent) + 1
      <4>1. i - 1 = Len(sent) /\ Len(sent) \in 0..Len(sent)
        BY <1>3, <3>2
      <4>2. DraftAt(i - 1)' = Draft
        BY <1>2, <1>3, <4>1
      <4> QED
        BY <1>2, <3>2, <4>2
    <3> QED
      BY <1>2, <1>3, <3>1, <3>2
  <2>2. ASSUME NEW i \in 0..Len(sent') PROVE IsPrefixOf(DraftAt(i)'.completed, Draft'.completed)
    <3>1. CASE i \in 0..Len(sent)
      <4>1. DraftAt(i)' = DraftAt(i) /\ IsPrefixOf(DraftAt(i).completed, Draft.completed)
        BY <1>2, <3>1 DEF SentInv
      <4>2. /\ DraftAt(i).completed \in Seq(Content) /\ Draft.completed \in Seq(Content)
            /\ Draft'.completed \in Seq(Content)
        BY <1>3, <1>4, <3>1 DEF DraftType
      <4> QED
        BY <1>4, <4>1, <4>2, PrefixIsTransitive
    <3>2. CASE i = Len(sent) + 1
      <4>1. DraftAt(i)' = Draft'
        BY <1>2, <3>2
      <4>2. Draft'.completed \in Seq(Content)
        BY <1>4 DEF DraftType
      <4> QED
        BY <4>1, <4>2, PrefixOfItself
    <3> QED
      BY <1>2, <1>3, <3>1, <3>2
  <2> QED
    BY <2>1, <2>2 DEF SentInv
<1>8. ReadInv'
  <2>1. at \in {"payload", "frame"} => taken + 1 \in 1..Len(sent) /\ taken' < Len(sent')
    BY <1>1, <1>2, <1>3 DEF ReadInv
  <2> QED
    BY <1>1, <1>2, <2>1 DEF ReadInv
<1>9. StreamInv'
  <2>1. DraftAt(taken)' = DraftAt(taken)
    BY <1>1, <1>2, <1>3
  <2>2. received \in Seq(Content) /\ Draft.completed \in Seq(Content) /\ Draft'.completed \in Seq(Content)
    BY <1>3, <1>4 DEF TypeInv, DraftType
  <2>3. IsPrefixOf(received, Draft'.completed)
    BY <1>4, <2>2, PrefixIsTransitive DEF StreamInv
  <2> QED
    BY <1>1, <2>1, <2>3 DEF StreamInv
<1>10. WireInv'
  BY <1>1 DEF WireInv
<1>11. LawInv'
  <2>1. \A i \in 1..taken : i \in 1..Len(sent)
    BY <1>3
  <2>2. \A i \in 1..taken : IsUnlawful(i)' <=> IsUnlawful(i)
    BY <2>1, SentStep
  <2> QED
    BY <1>1, <2>2, Zenon DEF LawInv
<1> QED
  BY <1>5, <1>6, <1>7, <1>8, <1>9, <1>10, <1>11
\* A step that closes takes at most the frame in hand, and leaves the rest as it is.
LEMMA ClosingStep ==
  ASSUME FramesInv, at # "done", sent' = sent, taken' = taken \/ (at = "frame" /\ taken' = taken + 1),
         link' = link, header' = header \/ header' = NoHeader, payload' = payload \/ payload' = <<>>,
         opcode' = opcode, message' = message, received' = received, closed' = TRUE, at' = "done", WireInv'
  PROVE  FramesInv'
<1> USE DEF FramesInv
<1>1. /\ Draft' = Draft /\ \A i : DraftAt(i)' = DraftAt(i)
      /\ \A i : IsUnlawful(i)' <=> IsUnlawful(i)
  BY SameSent
<1>2. Len(sent) \in Nat /\ taken \in 0..Len(sent) /\ (at = "frame" => taken < Len(sent))
  BY DraftIsTyped DEF TypeInv, ReadInv
<1>3. TypeInv'
  <2>1. taken' \in 0..Len(sent')
    BY <1>2
  <2>2. /\ header' \in [fin : BOOLEAN, opcode : 0..15, flags : {0}, length : Nat, mask : Mask]
        /\ header'.opcode > 7 => header'.fin /\ header'.length <= 125
    <3>1. CASE header' = header
      BY <3>1 DEF TypeInv
    <3>2. CASE header' = NoHeader
      <4>1. header'.opcode = 0
        BY <3>2, NoHeaderType
      <4>2. ~(header'.opcode > 7)
        BY <4>1
      <4> QED
        BY <3>2, <4>2, NoHeaderType
    <3> QED
      BY <3>1, <3>2
  <2>3. payload' \in Seq(Octet)
    BY EmptySeq DEF TypeInv
  <2> QED
    BY <2>1, <2>2, <2>3 DEF TypeInv
<1>4. ClosedInv'
  BY Zenon DEF ClosedInv
<1>5. SentInv'
  BY <1>1 DEF SentInv
<1>6. ReadInv'
  BY DEF ReadInv
<1>7. StreamInv'
  BY <1>1 DEF StreamInv
<1>8. LawInv'
  <2> SUFFICES ASSUME NEW i \in 1..taken', IsUnlawful(i) PROVE i = taken'
    BY <1>1, Zenon DEF LawInv
  <2>1. i \notin 1..taken
    BY DEF LawInv
  <2> QED
    BY <1>2, <2>1
<1> QED
  BY <1>3, <1>4, <1>5, <1>6, <1>7, <1>8

\* A step that goes on: nothing is sent by the client, and the websocket stays open.
LEMMA OpenStep ==
  ASSUME FramesInv, sent' = sent, TypeInv', ReadInv', WireInv',
         at # "done", at' # "done", closed' = closed,
         \/ taken' = taken /\ opcode' = opcode /\ message' = message /\ received' = received
         \/ /\ taken < Len(sent) /\ taken' = taken + 1 /\ ~IsUnlawful(taken + 1)
            /\ opcode' = DraftAt(taken + 1).kind /\ message' = DraftAt(taken + 1).octets
            /\ received' = DraftAt(taken + 1).completed
            /\ opcode' \in {0, OPCODE_TEXT} => IsWellFormed(message')
  PROVE  FramesInv'
<1> USE DEF FramesInv
<1>1. /\ Draft' = Draft /\ \A i : DraftAt(i)' = DraftAt(i)
      /\ \A i : IsUnlawful(i)' <=> IsUnlawful(i)
  BY SameSent
<1>2. Len(sent) \in Nat /\ taken \in 0..Len(sent)
  BY DraftIsTyped DEF TypeInv
<1>3. ClosedInv'
  BY Zenon DEF ClosedInv
<1>4. SentInv'
  BY <1>1 DEF SentInv
<1>5. CASE taken' = taken /\ opcode' = opcode /\ message' = message /\ received' = received
  <2>1. DraftAt(taken)' = DraftAt(taken)
    BY <1>5, Zenon DEF DraftAt
  <2>2. StreamInv'
    BY <1>1, <1>5, <2>1 DEF StreamInv
  <2>3. LawInv'
    <3>1. \A i \in 1..taken : ~IsUnlawful(i)
      BY DEF LawInv
    <3> QED
      BY <1>1, <1>5, <3>1, Zenon DEF LawInv
  <2> QED
    BY <1>3, <1>4, <2>2, <2>3
<1>6. CASE /\ taken < Len(sent) /\ taken' = taken + 1 /\ ~IsUnlawful(taken + 1)
           /\ opcode' = DraftAt(taken + 1).kind /\ message' = DraftAt(taken + 1).octets
           /\ received' = DraftAt(taken + 1).completed
           /\ opcode' \in {0, OPCODE_TEXT} => IsWellFormed(message')
  <2>1. DraftAt(taken)' = DraftAt(taken + 1)
    BY <1>6, Zenon DEF DraftAt
  <2>2. IsPrefixOf(DraftAt(taken + 1).completed, Draft.completed)
    <3>1. taken + 1 \in 0..Len(sent)
      BY <1>2, <1>6
    <3> QED
      BY <3>1 DEF SentInv
  <2>3. StreamInv'
    BY <1>1, <1>6, <2>1, <2>2 DEF StreamInv
  <2>4. LawInv'
    <3>1. \A i \in 1..taken : ~IsUnlawful(i)
      BY DEF LawInv
    <3>2. \A i \in 1..(taken + 1) : i \in 1..taken \/ i = taken + 1
      BY <1>2
    <3>3. \A i \in 1..(taken + 1) : ~IsUnlawful(i)
      BY <1>6, <3>1, <3>2, Zenon
    <3> QED
      BY <1>1, <1>6, <3>3, Zenon DEF LawInv
  <2> QED
    BY <1>3, <1>4, <2>3, <2>4
<1> QED
  BY <1>5, <1>6

LEMMA EndsStep ==
  ASSUME FramesInv, ConnectionEnds
  PROVE  FramesInv'
<1> USE DEF FramesInv
<1>1. /\ sent' = sent /\ taken' = taken /\ at' = at /\ at # "done" /\ header' = header /\ payload' = payload
      /\ opcode' = opcode /\ message' = message /\ received' = received /\ wire' = wire
  BY DEF ConnectionEnds, readVars
<1>2. closed' = closed
  BY Zenon DEF ConnectionEnds
<1>3. link' \in {"up", "ended", "reset"}
  BY DEF ConnectionEnds
<1>4. TypeInv'
  BY <1>1, <1>3 DEF TypeInv
<1>5. ReadInv'
  BY <1>1 DEF ReadInv
<1>6. WireInv'
  BY <1>1 DEF WireInv
<1> QED
  BY <1>1, <1>2, <1>4, <1>5, <1>6, OpenStep
\* The ways out of read_message.
LEMMA ErrorStep ==
  ASSUME FramesInv, at # "done", UnicodeError \/ WebSocketError \/ OtherError, sent' = sent,
         taken' = taken \/ (at = "frame" /\ taken' = taken + 1), link' = link,
         header' = header \/ header' = NoHeader, payload' = payload \/ payload' = <<>>,
         opcode' = opcode, message' = message, received' = received
  PROVE  FramesInv'
<1>1. WireInv' /\ at' = "done"
  BY ErrorsAreSent DEF FramesInv
<1>2. closed' = TRUE
  BY Zenon DEF UnicodeError, WebSocketError, OtherError, Close
<1> QED
  BY <1>1, <1>2, ClosingStep

LEMMA SendStep ==
  ASSUME FramesInv, NEW length \in Outgoing, SendMessage(length)
  PROVE  FramesInv'
<1> USE DEF FramesInv
<1>1. /\ sent' = sent /\ taken' = taken /\ link' = link /\ at = "idle" /\ header' = header
      /\ payload' = payload /\ opcode' = opcode /\ message' = message /\ received' = received
  BY DEF SendMessage, readVars
<1>2. CASE link = "reset"
  <2>1. OtherError
    BY <1>2 DEF SendMessage
  <2> QED
    BY <1>1, <2>1, ErrorStep
<1>3. CASE link # "reset"
  <2>1. SendFrame(OPCODE_TEXT, length, <<>>) /\ at' = at
    BY <1>3 DEF SendMessage
  <2>2. closed' = closed
    BY <1>3, Zenon DEF SendMessage
  <2>3. length \in Length /\ <<>> \in Seq(Octet)
    BY FramesAssumption, EmptySeq DEF Length
  <2>4. OPCODE_TEXT # OPCODE_CLOSE
    BY DEF OPCODE_TEXT, OPCODE_CLOSE
  <2>5. WireInv'
    BY <1>1, <2>1, <2>3, <2>4, FrameIsSent
  <2>6. TypeInv'
    BY <1>1, <2>1 DEF TypeInv
  <2>7. ReadInv'
    BY <1>1, <2>1 DEF ReadInv
  <2> QED
    BY <1>1, <2>1, <2>2, <2>5, <2>6, <2>7, OpenStep
<1> QED
  BY <1>2, <1>3

LEMMA HeaderStep ==
  ASSUME FramesInv, ReadHeader
  PROVE  FramesInv'
<1> USE DEF FramesInv
<1> DEFINE f == sent[taken + 1].frame
           h == DecodeHeader(Octets(f.fin, f.opcode, f.mask, f.length, f.flags, f.short))
<1>1. /\ sent' = sent /\ taken' = taken /\ link' = link /\ at # "done"
      /\ payload' = payload /\ opcode' = opcode /\ message' = message /\ received' = received
  BY DEF ReadHeader
<1>2. CASE (WebSocketError \/ OtherError) /\ header' = header
  BY <1>1, <1>2, ErrorStep
<1>3. CASE /\ taken < Len(sent) /\ ~IsRefused(f.short, h) /\ header' = h /\ at' = "payload"
           /\ closed' = closed /\ wire' = wire
  <2>1. f \in Frame
    <3>1. taken + 1 \in 1..Len(sent)
      BY <1>3, DraftIsTyped DEF TypeInv
    <3> QED
      BY <3>1, DraftIsTyped
  <2>2. h = HeaderOf(f) /\ HeaderOf(f) \in Header /\ Tells(f.short, f.length)
    BY <2>1, HeaderIsRead, FrameFields
  <2>3. header' \in Header /\ ~IsRefused(f.short, header') /\ header'.length = f.length
    BY <1>3, <2>2 DEF HeaderOf
  <2>4. /\ header' \in [fin : BOOLEAN, opcode : 0..15, flags : {0}, length : Nat, mask : Mask]
        /\ header'.opcode > 7 => header'.fin /\ header'.length <= 125
    <3> HIDE DEF f
    <3>1. /\ header'.fin \in BOOLEAN /\ header'.opcode \in 0..15 /\ header'.length \in Nat /\ header'.mask \in Mask
          /\ header' = [fin |-> header'.fin, opcode |-> header'.opcode, flags |-> header'.flags,
                        length |-> header'.length, mask |-> header'.mask]
      BY <2>3 DEF Header, Length
    <3>2. header'.flags = 0 /\ (header'.opcode > 7 => header'.fin /\ ~(f.short > 125))
      BY <2>3 DEF IsRefused
    <3>3. ~(f.short > 125) => f.length <= 125
      BY <2>2 DEF Tells
    <3> QED
      BY <2>3, <3>1, <3>2, <3>3
  <2>5. TypeInv'
    BY <1>1, <1>3, <2>4 DEF TypeInv
  <2>6. header' = HeaderOf(sent[taken + 1].frame)
    BY <1>3, <2>2
  <2>7. ReadInv'
    BY <1>1, <1>3, <2>3, <2>6 DEF ReadInv
  <2>8. WireInv'
    <3>1. \A i \in 1..Len(wire) : wire[i].opcode # OPCODE_CLOSE
      BY <1>1 DEF WireInv
    <3> QED
      BY <1>3, <3>1 DEF WireInv
  <2>9. closed' = closed
    BY <1>3, Zenon
  <2> QED
    BY <1>1, <1>3, <2>5, <2>7, <2>8, <2>9, OpenStep
<1> QED
  BY <1>2, <1>3, Zenon DEF ReadHeader

LEMMA FailsStep ==
  ASSUME FramesInv, PayloadFails
  PROVE  FramesInv'
<1>1. /\ at = "payload" /\ sent' = sent /\ taken' = taken /\ link' = link /\ header' = header
      /\ payload' = payload /\ opcode' = opcode /\ message' = message /\ received' = received
  BY DEF PayloadFails, readVars
<1>2. WebSocketError \/ OtherError
  BY Zenon DEF PayloadFails
<1> QED
  BY <1>1, <1>2, ErrorStep

LEMMA PayloadStep ==
  ASSUME FramesInv, ReadPayload
  PROVE  FramesInv'
<1> USE DEF FramesInv
<1> DEFINE f == sent[taken + 1].frame
<1>1. /\ sent' = sent /\ taken' = taken /\ link' = link /\ at = "payload" /\ at' = "frame"
      /\ header' = header /\ wire' = wire
      /\ opcode' = opcode /\ message' = message /\ received' = received
      /\ payload' = MaskPayload(MaskPayload(f.payload, f.mask), header.mask)
  BY DEF ReadPayload
<1>2. closed' = closed
  BY Zenon DEF ReadPayload
<1>3. taken < Len(sent) /\ header = HeaderOf(f) /\ ~IsRefused(f.short, header)
  BY <1>1 DEF ReadInv
<1>4. f \in Frame
  <2>1. taken + 1 \in 1..Len(sent)
    BY <1>3, DraftIsTyped DEF TypeInv
  <2> QED
    BY <2>1, DraftIsTyped
<1>5. /\ f.payload \in Seq(Octet) /\ f.mask \in Mask /\ f.length \in Length
      /\ f.length = Len(f.payload) \/ f.length > MaxRecv
  BY <1>4, FrameFields
<1>6. header.mask = f.mask /\ header.length = f.length
  BY <1>3 DEF HeaderOf
<1> HIDE DEF f
<1>7. payload' = f.payload
  BY <1>1, <1>5, <1>6, UnmaskUndoesMask
<1>8. header.length = Len(f.payload)
  <2>1. header.length > 0 => header.length <= MaxRecv
    BY DEF ReadPayload
  <2>2. header.length \in Nat /\ MaxRecv \in Nat
    BY <1>5, <1>6, FramesAssumption DEF Length
  <2> QED
    BY <1>5, <1>6, <2>1, <2>2
<1>9. TypeInv'
  BY <1>1, <1>5, <1>7 DEF TypeInv
<1>10. ReadInv'
  BY <1>1, <1>3, <1>7, <1>8 DEF ReadInv, f
<1>11. WireInv'
  <2>1. \A i \in 1..Len(wire) : wire[i].opcode # OPCODE_CLOSE
    BY <1>1 DEF WireInv
  <2> QED
    BY <1>1, <2>1 DEF WireInv
<1> QED
  BY <1>1, <1>2, <1>9, <1>10, <1>11, OpenStep
\* What a frame taken leaves behind.
LEMMA TakenTypes ==
  ASSUME FramesInv, HasFrame, opcode' \in 0..2, message' \in Seq(Octet), received' \in Seq(Content),
         at' \in {"idle", "header"}
  PROVE  TypeInv' /\ ReadInv' /\ taken < Len(sent)
<1> USE DEF FramesInv
<1>1. /\ at = "frame" /\ sent' = sent /\ taken' = taken + 1 /\ link' = link
      /\ header' = NoHeader /\ payload' = <<>>
  BY DEF HasFrame
<1>2. taken' \in 0..Len(sent') /\ taken < Len(sent)
  BY <1>1, DraftIsTyped DEF TypeInv, ReadInv
<1>3. /\ header' \in [fin : BOOLEAN, opcode : 0..15, flags : {0}, length : Nat, mask : Mask]
      /\ ~(header'.opcode > 7)
  <2>1. header'.opcode = 0
    BY <1>1, NoHeaderType
  <2> QED
    BY <1>1, <2>1, NoHeaderType
<1>4. payload' \in Seq(Octet)
  BY <1>1, EmptySeq
<1>5. TypeInv'
  BY <1>1, <1>2, <1>3, <1>4 DEF TypeInv
<1>6. ReadInv'
  BY DEF ReadInv
<1> QED
  BY <1>2, <1>5, <1>6

LEMMA SameWire ==
  ASSUME WireInv, wire' = wire, at # "done"
  PROVE  WireInv'
<1>1. \A i \in 1..Len(wire) : wire[i].opcode # OPCODE_CLOSE
  BY DEF WireInv
<1> QED
  BY <1>1 DEF WireInv

\* A text that is UTF-8 so far goes on being so if and only if the fragment is UTF-8 by
\* itself.
LEMMA TextJoined ==
  ASSUME NEW s \in Seq(Octet), NEW t \in Seq(Octet), IsWellFormed(s)
  PROVE  /\ IsWellFormed(s \o t) <=> IsWellFormed(t)
         /\ IsWellFormed(t) <=> ~StopsInside(s \o t) /\ ~StopsBroken(s \o t)
         /\ StopsBroken(s \o t) => ~IsWellFormed(t)
<1>1. s \in Seq(0..255) /\ t \in Seq(0..255) /\ UTF8_ACCEPT \in 0..9 /\ UTF8_ACCEPT # UTF8_REJECT
  BY DEF Octet, UTF8_ACCEPT, UTF8_REJECT
<1>2. s \o t \in Seq(0..255)
  BY <1>1, ConcatProperties
<1>3. Run(UTF8_ACCEPT, s) = UTF8_ACCEPT
  BY <1>1, AcceptsUtf8
<1>4. Run(UTF8_ACCEPT, s \o t) = Run(Run(UTF8_ACCEPT, s), t)
  BY <1>1, RunInParts
<1>5. Run(UTF8_ACCEPT, s \o t) = Run(UTF8_ACCEPT, t)
  BY <1>3, <1>4
<1>6. (Run(UTF8_ACCEPT, s \o t) = UTF8_ACCEPT <=> IsWellFormed(s \o t)) /\ (Run(UTF8_ACCEPT, t) = UTF8_ACCEPT <=> IsWellFormed(t))
  BY <1>1, <1>2, AcceptsUtf8
<1> QED
  BY <1>1, <1>5, <1>6, Zenon DEF StopsInside, StopsBroken

\* The text up to the fragment in hand is lawful, and splits no character, if and only if
\* the fragment is UTF-8 by itself.
LEMMA FragmentLaw ==
  ASSUME FramesInv, at = "frame", IsTextFragment(taken + 1), Fits(DraftAt(taken), sent[taken + 1].frame)
  PROVE  IsWellFormed(payload) <=> ~IsIllFormedText(taken + 1) /\ ~SplitsCharacter(taken + 1)
<1> DEFINE f == sent[taken + 1].frame
           draft == DraftAt(taken)
<1>1. payload = f.payload /\ opcode = draft.kind /\ message = draft.octets
  BY FrameInHand DEF FramesInv
<1>2. payload \in Seq(Octet) /\ message \in Seq(Octet) /\ (taken + 1) - 1 = taken
  BY DraftIsTyped DEF FramesInv, TypeInv
<1>3. DraftAt((taken + 1) - 1) = draft
  BY <1>2, Zenon
<1>4. opcode \in {0, OPCODE_TEXT}
  <2>1. f.opcode = OPCODE_TEXT \/ (f.opcode = OPCODE_CONTINUATION /\ draft.kind = OPCODE_TEXT)
    BY <1>3, Zenon DEF IsTextFragment
  <2> HIDE DEF f, draft
  <2>2. Fits(draft, f)
    BY DEF f, draft
  <2> QED
    BY <1>1, <2>1, <2>2 DEF Fits, OPCODE_TEXT, OPCODE_CONTINUATION
<1>5. IsWellFormed(message)
  BY <1>4 DEF FramesInv, LawInv
<1>6. TextUpTo(taken + 1) = message \o payload
  BY <1>1, <1>3, Zenon DEF TextUpTo
<1>7. /\ IsWellFormed(message \o payload) <=> IsWellFormed(payload)
      /\ IsWellFormed(payload) <=> ~StopsInside(message \o payload) /\ ~StopsBroken(message \o payload)
      /\ StopsBroken(message \o payload) => ~IsWellFormed(payload)
  BY <1>2, <1>5, TextJoined
<1> HIDE DEF f, draft
<1> QED
  BY <1>6, <1>7, Zenon DEF IsIllFormedText, SplitsCharacter

\* The fragments that go on are those that may.
LEMMA GoesOn ==
  ASSUME FragmentOutcome \in {"more", "whole"}
  PROVE  /\ MessageOpcode # 0 /\ ~BeginsInside
         /\ MessageOpcode = OPCODE_TEXT => IsWellFormed(payload)
         /\ FragmentOutcome = "whole" => header.fin
         /\ FragmentOutcome = "more" => ~header.fin
  BY DEF FragmentOutcome

LEMMA FragmentStep ==
  ASSUME FramesInv, TakeFragment
  PROVE  FramesInv'
<1> USE DEF FramesInv
<1> DEFINE f == sent[taken + 1].frame
           draft == DraftAt(taken)
<1>1. /\ HasFrame /\ at = "frame" /\ sent' = sent /\ taken' = taken + 1 /\ link' = link
      /\ header' = NoHeader /\ payload' = <<>>
      /\ header.opcode \in {OPCODE_CONTINUATION, OPCODE_TEXT, OPCODE_BINARY}
  BY DEF TakeFragment, HasFrame
<1>2. CASE /\ UnicodeError \/ WebSocketError \/ OtherError
           /\ opcode' = opcode /\ message' = message /\ received' = received
  BY <1>1, <1>2, ErrorStep
<1>3. CASE FragmentOutcome \in {"more", "whole"}
  <2>1. /\ taken + 1 \in 1..Len(sent) /\ f \in Frame /\ draft \in DraftType
        /\ header = HeaderOf(f) /\ payload = f.payload /\ ~IsRefused(f.short, header)
        /\ f.opcode = header.opcode /\ f.fin = header.fin /\ f.length = Len(f.payload)
        /\ DraftAt(taken + 1) = Extended(draft, f)
        /\ opcode = draft.kind /\ message = draft.octets /\ received = draft.completed
    BY <1>1, FrameInHand
  <2>2. /\ MessageOpcode # 0 /\ ~BeginsInside
        /\ MessageOpcode = OPCODE_TEXT => IsWellFormed(payload)
    BY <1>3, GoesOn
  <2> HIDE DEF f, draft
  <2>3. /\ Fits(draft, f) /\ MessageOpcode \in 1..2
        /\ MessageOpcode = OPCODE_TEXT
             <=> f.opcode = OPCODE_TEXT \/ (f.opcode = OPCODE_CONTINUATION /\ draft.kind = OPCODE_TEXT)
        /\ Extended(draft, f) =
             IF header.fin
             THEN [kind |-> 0, octets |-> <<>>,
                   completed |-> Append(draft.completed,
                                        [kind |-> MessageOpcode, octets |-> message \o payload])]
             ELSE [kind |-> MessageOpcode, octets |-> message \o payload,
                   completed |-> draft.completed]
    BY <1>1, <2>1, <2>2, FragmentExtends
  <2>4. at' \in {"idle", "header"} /\ wire' = wire
    BY <1>3, Zenon DEF TakeFragment
  <2>5. closed' = closed
    BY <1>3, Zenon DEF TakeFragment
  <2>6. /\ opcode' = DraftAt(taken + 1).kind /\ message' = DraftAt(taken + 1).octets
        /\ received' = DraftAt(taken + 1).completed
    <3>1. CASE FragmentOutcome = "more"
      <4>1. opcode' = MessageOpcode /\ message' = message \o payload /\ received' = received
        BY <3>1 DEF TakeFragment
      <4>2. ~header.fin
        BY <3>1, GoesOn
      <4>3. DraftAt(taken + 1) = [kind |-> MessageOpcode, octets |-> message \o payload,
                                  completed |-> draft.completed]
        BY <2>1, <2>3, <4>2, Zenon
      <4>4. /\ DraftAt(taken + 1).kind = MessageOpcode /\ DraftAt(taken + 1).octets = message \o payload
            /\ DraftAt(taken + 1).completed = draft.completed
        BY <4>3
      <4> QED
        BY <2>1, <4>1, <4>4, Zenon
    <3>2. CASE FragmentOutcome = "whole"
      <4>1. /\ opcode' = 0 /\ message' = <<>>
            /\ received' = Append(received, [kind |-> MessageOpcode, octets |-> message \o payload])
        BY <3>2 DEF TakeFragment
      <4>2. header.fin
        BY <3>2, GoesOn
      <4>3. DraftAt(taken + 1) =
              [kind |-> 0, octets |-> <<>>,
               completed |-> Append(draft.completed,
                                    [kind |-> MessageOpcode, octets |-> message \o payload])]
        BY <2>1, <2>3, <4>2, Zenon
      <4>4. /\ DraftAt(taken + 1).kind = 0 /\ DraftAt(taken + 1).octets = <<>>
            /\ DraftAt(taken + 1).completed =
                 Append(draft.completed, [kind |-> MessageOpcode, octets |-> message \o payload])
        <5>1. \A d, c : d = [kind |-> 0, octets |-> <<>>, completed |-> c]
                         => d.kind = 0 /\ d.octets = <<>> /\ d.completed = c
          OBVIOUS
        <5> QED
          BY <4>3, <5>1, Zenon
      <4> QED
        BY <2>1, <4>1, <4>4, Zenon
    <3> QED
      BY <1>3, <3>1, <3>2
  <2>7. ~IsUnlawful(taken + 1)
    <3>1. f.opcode \in 0..2 /\ f.flags = 0
      BY <1>1, <2>1 DEF HeaderOf, IsRefused, OPCODE_CONTINUATION, OPCODE_TEXT, OPCODE_BINARY
    <3>2. (taken + 1) - 1 = taken
      BY DraftIsTyped DEF TypeInv
    <3>3. f = sent[taken + 1].frame /\ draft = DraftAt((taken + 1) - 1)
      BY <3>2, Zenon DEF f, draft
    <3>4. IsTextFragment(taken + 1) => MessageOpcode = OPCODE_TEXT
      BY <2>3, <3>3, Zenon DEF IsTextFragment
    <3>5. f.opcode # OPCODE_CLOSE /\ ~(f.opcode > 7) /\ f.opcode \notin 3..7 \cup 11..15
      BY <3>1 DEF OPCODE_CLOSE
    <3>6. ~IsIllFormedText(taken + 1)
      <4>1. CASE IsTextFragment(taken + 1)
        BY <1>1, <2>2, <2>3, <3>4, <4>1, FragmentLaw DEF f, draft
      <4>2. CASE ~IsTextFragment(taken + 1)
        BY <4>2, Zenon DEF IsIllFormedText
      <4> QED
        BY <4>1, <4>2
    <3> QED
      BY <2>1, <2>3, <3>1, <3>3, <3>5, <3>6, Zenon DEF IsUnlawful
  <2>8. DraftAt(taken + 1) \in DraftType
    BY <2>1, ExtendedType
  <2>9. TypeInv' /\ ReadInv' /\ taken < Len(sent)
    BY <1>1, <2>4, <2>6, <2>8, TakenTypes DEF DraftType
  <2>10. WireInv'
    BY <1>1, <2>4, SameWire
  <2>11. ASSUME opcode' \in {0, OPCODE_TEXT} PROVE IsWellFormed(message')
    <3>1. CASE FragmentOutcome = "whole"
      <4>1. message' = <<>>
        BY <3>1 DEF TakeFragment
      <4> QED
        BY <4>1, NothingIsWellFormed
    <3>2. CASE FragmentOutcome = "more"
      <4>1. opcode' = MessageOpcode /\ message' = message \o payload
        BY <3>2 DEF TakeFragment
      <4>2. MessageOpcode = OPCODE_TEXT
        BY <2>2, <2>11, <4>1
      <4>3. opcode \in {0, OPCODE_TEXT}
        BY <2>1, <2>3, <4>2 DEF Fits, OPCODE_TEXT, OPCODE_CONTINUATION
      <4>4. IsWellFormed(message) /\ at # "done"
        BY <1>1, <4>3 DEF LawInv
      <4>5. message \in Seq(0..255) /\ payload \in Seq(0..255)
        BY DEF TypeInv, Octet
      <4> QED
        BY <2>2, <4>1, <4>2, <4>4, <4>5, WellFormedJoined
    <3> QED
      BY <1>3, <3>1, <3>2
  <2> QED
    BY <1>1, <2>4, <2>5, <2>6, <2>7, <2>9, <2>10, <2>11, OpenStep
<1> QED
  BY <1>2, <1>3, Zenon DEF TakeFragment
\* A control frame that is read whole and is no close frame changes no message, and is lawful
\* if its opcode is known.
LEMMA ControlStep ==
  ASSUME FramesInv, HasFrame, header.opcode \in {OPCODE_PING, OPCODE_PONG}, at' = "header", closed' = closed,
         opcode' = opcode, message' = message, received' = received, WireInv'
  PROVE  FramesInv'
<1> USE DEF FramesInv
<1> DEFINE f == sent[taken + 1].frame
           draft == DraftAt(taken)
<1>1. at = "frame" /\ sent' = sent /\ taken' = taken + 1
  BY DEF HasFrame
<1>2. /\ taken + 1 \in 1..Len(sent) /\ f \in Frame /\ draft \in DraftType
      /\ header = HeaderOf(f) /\ ~IsRefused(f.short, header) /\ f.opcode = header.opcode
      /\ DraftAt(taken + 1) = Extended(draft, f)
      /\ opcode = draft.kind /\ message = draft.octets /\ received = draft.completed
  BY <1>1, FrameInHand
<1>3. f.opcode \in {9, 10} /\ f.opcode \notin 0..2 /\ f.opcode # OPCODE_CLOSE /\ f.opcode # OPCODE_TEXT
      /\ f.opcode # OPCODE_CONTINUATION /\ f.opcode \notin 3..7 \cup 11..15
  BY <1>2, SMTT(30) DEF OPCODE_PING, OPCODE_PONG, OPCODE_CLOSE, OPCODE_TEXT, OPCODE_CONTINUATION
<1>4. f.flags = 0 /\ ~(f.opcode > 7 /\ (~f.fin \/ f.short > 125))
  BY <1>2 DEF HeaderOf, IsRefused
<1>5. DraftAt(taken + 1) = draft
  <2>1. f.opcode \notin {0, 1, 2}
    BY <1>3
  <2> QED
    BY <1>2, <2>1, OthersSayNothing
<1>6. ~IsUnlawful(taken + 1)
  BY <1>3, <1>4, Zenon DEF IsUnlawful, IsIllFormedText, IsTextFragment
<1> HIDE DEF f, draft
<1>7. TypeInv' /\ ReadInv' /\ taken < Len(sent)
  <2>1. opcode' \in 0..2 /\ message' \in Seq(Octet) /\ received' \in Seq(Content)
    BY DEF TypeInv
  <2> QED
    BY <2>1, TakenTypes
<1>8. /\ opcode' = DraftAt(taken + 1).kind /\ message' = DraftAt(taken + 1).octets
      /\ received' = DraftAt(taken + 1).completed
  BY <1>2, <1>5, Zenon
<1>9. opcode' \in {0, OPCODE_TEXT} => IsWellFormed(message')
  BY <1>1 DEF LawInv
<1> QED
  BY <1>1, <1>6, <1>7, <1>8, <1>9, OpenStep

LEMMA PingStep ==
  ASSUME FramesInv, TakePing
  PROVE  FramesInv'
<1>1. /\ HasFrame /\ at = "frame" /\ sent' = sent /\ taken' = taken + 1 /\ link' = link
      /\ header' = NoHeader /\ payload' = <<>> /\ header.opcode = OPCODE_PING
      /\ opcode' = opcode /\ message' = message /\ received' = received
  BY DEF TakePing, HasFrame
<1>2. CASE WebSocketError \/ OtherError
  BY <1>1, <1>2, ErrorStep
<1>3. CASE SendFrame(OPCODE_PONG, Len(payload), payload) /\ at' = "header" /\ closed' = closed
  <2>1. payload \in Seq(Octet) /\ Len(payload) = header.length /\ header.length <= 125
    BY <1>1 DEF FramesInv, TypeInv, ReadInv, OPCODE_PING
  <2>2. Len(payload) \in Length /\ Len(payload) <= 125
    <3>1. Len(payload) \in Nat
      BY <2>1, LenProperties
    <3> QED
      BY <2>1, <3>1, SMT DEF Length
  <2>3. OPCODE_PONG # OPCODE_CLOSE
    BY DEF OPCODE_PONG, OPCODE_CLOSE
  <2>4. WireInv'
    BY <1>1, <1>3, <2>1, <2>2, <2>3, FrameIsSent DEF FramesInv
  <2>5. at' = "header" /\ header.opcode \in {OPCODE_PING, OPCODE_PONG}
    BY <1>1, <1>3
  <2>6. closed' = closed
    BY <1>3, Zenon
  <2> QED
    BY <1>1, <2>4, <2>5, <2>6, ControlStep
<1> QED
  BY <1>2, <1>3, Zenon DEF TakePing

LEMMA PongStep ==
  ASSUME FramesInv, TakePong
  PROVE  FramesInv'
<1>1. /\ HasFrame /\ at = "frame" /\ at' = "header" /\ header.opcode = OPCODE_PONG
      /\ opcode' = opcode /\ message' = message /\ received' = received /\ wire' = wire
  BY DEF TakePong, HasFrame
<1>2. closed' = closed
  BY Zenon DEF TakePong
<1>3. WireInv'
  BY <1>1, SameWire DEF FramesInv
<1> QED
  BY <1>1, <1>2, <1>3, ControlStep

\* The code of a close frame is echoed only where it may be said, and its reason is short.
LEMMA CloseStep ==
  ASSUME FramesInv, TakeClose
  PROVE  FramesInv'
<1>1. /\ at = "frame" /\ sent' = sent /\ taken' = taken + 1 /\ link' = link
      /\ header' = NoHeader /\ payload' = <<>> /\ header.opcode = OPCODE_CLOSE
      /\ opcode' = opcode /\ message' = message /\ received' = received
  BY DEF TakeClose, HasFrame
<1>2. CASE UnicodeError \/ WebSocketError \/ OtherError
  BY <1>1, <1>2, ErrorStep
<1>3. ASSUME NEW code \in Code, NEW reason \in Seq(Octet), Len(reason) <= 123, Close(code, reason)
      PROVE  FramesInv'
  <2> DEFINE content == Pack2(code) \o reason
  <2>1. at' = "done" /\ (wire' = wire \/ SendFrame(OPCODE_CLOSE, 2 + Len(reason), content))
    BY <1>3, Zenon DEF Close
  <2>2. closed' = TRUE
    BY <1>3, Zenon DEF Close
  <2>3. content = Pack2(code) \o reason
    OBVIOUS
  <2> HIDE DEF content
  <2>4. WireInv'
    BY <1>1, <1>3, <2>1, <2>3, CloseIsSent DEF FramesInv
  <2> QED
    BY <1>1, <2>1, <2>2, <2>4, ClosingStep
<1>4. CASE Close(1000, <<>>)
  <2>1. 1000 \in Code
    BY SMT DEF Code, ReservedCodes, Octet
  <2>2. <<>> \in Seq(Octet) /\ Len(<<>>) <= 123
    BY EmptySeq
  <2> QED
    BY <1>3, <1>4, <2>1, <2>2, ZenonT(40)
<1>5. CASE CloseOutcome = "echo" /\ Close(Unpack2(payload, 1), SubSeq(payload, 3, Len(payload)))
  <2> DEFINE code == Unpack2(payload, 1)
             reason == SubSeq(payload, 3, Len(payload))
  <2>1. payload \in Seq(Octet) /\ Len(payload) \in Nat /\ Len(payload) <= 125
    BY <1>1, LenProperties DEF FramesInv, TypeInv, ReadInv, OPCODE_CLOSE
  <2>2. Len(payload) >= 2 /\ IsValidCloseCode(code)
    BY <1>5, <2>1 DEF CloseOutcome
  <2>3. code \in Code
    <3>1. payload[1] \in Octet /\ payload[2] \in Octet
      BY <2>1, <2>2, ElementOfSeq
    <3>2. code = (payload[1] * 256) + payload[2]
      BY DEF Unpack2
    <3>3. \A a, b \in Octet : \A n : n = (a * 256) + b => n \in Nat /\ n \div 256 = a
      BY SMT DEF Octet
    <3>4. \A n \in Nat : IsValidCloseCode(n) => n \notin ReservedCodes
      BY SMT DEF IsValidCloseCode, ReservedCodes
    <3> HIDE DEF code
    <3>5. code \in Nat /\ code \div 256 = payload[1]
      BY <3>1, <3>2, <3>3
    <3> QED
      BY <2>2, <3>1, <3>4, <3>5 DEF Code
  <2>4. reason \in Seq(Octet) /\ Len(reason) <= 123
    <3>1. \A i \in 3..Len(payload) : payload[i] \in Octet
      BY <2>1, ElementOfSeq
    <3>2. reason \in Seq(Octet) /\ Len(reason) = IF 3 <= Len(payload) THEN Len(payload) - 3 + 1 ELSE 0
      BY <2>1, <3>1, SubSeqProperties
    <3> QED
      BY <2>1, <3>2
  <2> QED
    BY <1>3, <1>5, <2>3, <2>4, Zenon
<1> QED
  BY <1>2, <1>4, <1>5, ZenonT(40) DEF TakeClose

LEMMA UnknownStep ==
  ASSUME FramesInv, TakeUnknown
  PROVE  FramesInv'
<1>1. /\ at = "frame" /\ sent' = sent /\ taken' = taken + 1 /\ link' = link
      /\ header' = NoHeader /\ payload' = <<>> /\ WebSocketError
      /\ opcode' = opcode /\ message' = message /\ received' = received
  BY DEF TakeUnknown, HasFrame
<1> QED
  BY <1>1, ErrorStep
-----------------------------------------------------------------------------
(* The theorems.                                                           *)

LEMMA FramesInvStep == FramesInv /\ [Next]_vars => FramesInv'
<1> SUFFICES ASSUME FramesInv, [Next]_vars PROVE FramesInv'
  OBVIOUS
<1>1. ASSUME NEW f \in Frame, ClientSends(f) PROVE FramesInv'
  BY <1>1, ClientStep
<1>2. CASE ConnectionEnds
  BY <1>2, EndsStep
<1>3. ASSUME NEW length \in Outgoing, SendMessage(length) PROVE FramesInv'
  BY <1>3, SendStep
<1>4. CASE ReadHeader
  BY <1>4, HeaderStep
<1>5. CASE PayloadFails
  BY <1>5, FailsStep
<1>6. CASE ReadPayload
  BY <1>6, PayloadStep
<1>7. CASE TakeFragment
  BY <1>7, FragmentStep
<1>8. CASE TakePing
  BY <1>8, PingStep
<1>9. CASE TakePong
  BY <1>9, PongStep
<1>10. CASE TakeClose
  BY <1>10, CloseStep
<1>11. CASE TakeUnknown
  BY <1>11, UnknownStep
<1>12. CASE UNCHANGED vars
  <2>1. /\ sent' = sent /\ taken' = taken /\ link' = link /\ at' = at /\ header' = header /\ payload' = payload
        /\ opcode' = opcode /\ message' = message /\ received' = received /\ wire' = wire
    BY <1>12, Zenon DEF vars, readVars
  <2>2. closed' = closed
    BY <1>12, Zenon DEF vars
  <2>3. /\ Draft' = Draft /\ \A i : DraftAt(i)' = DraftAt(i) /\ (IsUnlawful(i)' <=> IsUnlawful(i))
    BY <2>1, SameSent
  <2>4. DraftAt(taken)' = DraftAt(taken)
    BY <2>1, Zenon DEF DraftAt
  <2>5. TypeInv'
    BY <2>1 DEF FramesInv, TypeInv
  <2>6. ClosedInv'
    BY <2>1, <2>2, Zenon DEF FramesInv, ClosedInv
  <2>7. SentInv' /\ ReadInv' /\ StreamInv' /\ WireInv'
    BY <2>1, <2>3, <2>4 DEF FramesInv, SentInv, ReadInv, StreamInv, WireInv
  <2>8. LawInv'
    BY <2>1, <2>3, Zenon DEF FramesInv, LawInv
  <2> QED
    BY <2>5, <2>6, <2>7, <2>8 DEF FramesInv
<1> QED
  BY <1>1, <1>2, <1>3, <1>4, <1>5, <1>6, <1>7, <1>8, <1>9, <1>10, <1>11, <1>12, Zenon DEF Next, Read

\* Frames are read, put together and sent as FramesInv says, whatever frames there are.
THEOREM FramesInvHolds == Spec => []FramesInv
  BY InitFrames, FramesInvStep, PTL DEF Spec

\* receive returns the messages of the client whole, unmasked and in order (read_frame,
\* read_message), for frames and payloads of any kind and length.
THEOREM MessagesIntactHolds == Spec => []MessagesIntact
<1>1. FramesInv => MessagesIntact
  <2> SUFFICES ASSUME FramesInv PROVE MessagesIntact
    OBVIOUS
  <2>1. ~closed => at # "done"
    BY Zenon DEF FramesInv, ClosedInv
  <2>2. IsPrefixOf(received, Draft.completed) /\ (at # "done" => received = DraftAt(taken).completed)
    BY DEF FramesInv, StreamInv
  <2> QED
    BY <2>1, <2>2, Zenon DEF MessagesIntact
<1> QED
  BY <1>1, FramesInvHolds, PTL

\* A client that decodes the server's frames as decode_header does reads each header as it
\* was meant: at all three encodings of the length (encode_header).
THEOREM ClientReadsHeadersHolds == Spec => []ClientReadsHeaders
<1>1. FramesInv => ClientReadsHeaders
  <2> SUFFICES ASSUME FramesInv, NEW i \in 1..Len(wire), NEW h, h = DecodeHeader(wire[i].octets)
               PROVE  /\ h = [fin |-> TRUE, opcode |-> wire[i].opcode, flags |-> 0,
                              length |-> wire[i].length, mask |-> <<>>]
                      /\ ~IsRefused(wire[i].octets[2] % 128, h)
    BY Zenon DEF ClientReadsHeaders
  <2>1. wire[i] \in WireType
    <3>1. wire \in Seq(WireType)
      BY DEF FramesInv, WireInv
    <3> QED
      BY <3>1, ElementOfSeq
  <2>2. /\ wire[i].length \in Length
        /\ wire[i].octets = EncodeHeader(TRUE, wire[i].opcode, <<>>, wire[i].length, 0)
        /\ wire[i].opcode # OPCODE_TEXT => wire[i].length <= 125
    BY DEF FramesInv, WireInv
  <2>3. wire[i].opcode \in OPCODES
    BY <2>1 DEF WireType, OPCODES
  <2>4. h = [fin |-> TRUE, opcode |-> wire[i].opcode, flags |-> 0, length |-> wire[i].length, mask |-> <<>>]
    BY <2>2, <2>3, EncodedType
  <2>5. ~IsRefused(wire[i].octets[2] % 128, h)
    <3>1. wire[i].opcode \in {OPCODE_TEXT, OPCODE_CLOSE, OPCODE_PONG} /\ wire[i].length \in Nat
      BY <2>1 DEF WireType
    <3>2. wire[i].opcode > 7 => wire[i].length <= 125
      BY <2>2, <3>1 DEF OPCODE_TEXT
    <3>3. h.fin /\ h.opcode = wire[i].opcode /\ h.flags = 0 /\ h.length = wire[i].length
      BY <2>4
    <3>4. wire[i].octets[2] % 128 = ShortLength(wire[i].length)
      BY <2>2, <2>3, EncodedType, ZenonT(60)
    <3>5. wire[i].length <= 125 => ShortLength(wire[i].length) <= 125
      BY <3>1 DEF ShortLength
    <3>6. \A n \in Length : ShortLength(n) \in 0..127
      BY ShortTells DEF Tells
    <3> DEFINE short == wire[i].octets[2] % 128
    <3>7. short \in 0..127 /\ (h.opcode > 7 => short <= 125)
      BY <2>2, <3>1, <3>2, <3>3, <3>4, <3>5, <3>6, ZenonT(60)
    <3> HIDE DEF short
    <3>8. ~(h.opcode > 7 /\ (~h.fin \/ short > 125))
      BY <3>3, <3>7
    <3> QED
      BY <3>3, <3>8, Zenon DEF IsRefused, short
  <2> QED
    BY <2>4, <2>5
<1> QED
  BY <1>1, FramesInvHolds, PTL

\* The server says goodbye once, last, and with a code that may appear in a close frame
\* (close, handle_close).
THEOREM ClosesOnceHolds == Spec => []ClosesOnce
<1>1. FramesInv => ClosesOnce
  <2> SUFFICES ASSUME FramesInv PROVE ClosesOnce
    OBVIOUS
  <2>1. at = "done" => closed
    BY Zenon DEF FramesInv, ClosedInv
  <2>2. \A i \in 1..Len(wire) : wire[i].opcode = OPCODE_CLOSE =>
          at = "done" /\ i = Len(wire) /\ Unpack2(wire[i].payload, 1) \notin ReservedCodes
    BY DEF FramesInv, WireInv
  <2> QED
    BY <2>1, <2>2, Zenon DEF ClosesOnce
<1> QED
  BY <1>1, FramesInvHolds, PTL

\* Nothing unlawful gets through to the application, and no text that is not UTF-8 as a
\* whole: it closes the websocket.
THEOREM UnlawfulRefusedHolds == Spec => []UnlawfulRefused
<1>1. FramesInv => UnlawfulRefused
  <2> SUFFICES ASSUME FramesInv PROVE UnlawfulRefused
    OBVIOUS
  <2>1. at = "done" => closed
    BY Zenon DEF FramesInv, ClosedInv
  <2> QED
    BY <2>1, Zenon DEF FramesInv, LawInv, UnlawfulRefused
<1> QED
  BY <1>1, FramesInvHolds, PTL
-----------------------------------------------------------------------------
(* The frames implement the stream of messages.                            *)

LEMMA StopImplemented ==
  ASSUME FramesInv, at # "done", sent' = sent, received' = received, closed' = TRUE
  PROVE  Stream!Stop
<1>1. ~closed
  BY Zenon DEF FramesInv, ClosedInv
<1>2. Draft.completed' = Draft.completed
  BY SameSent
<1> QED
  BY <1>1, <1>2, Zenon DEF Stream!Stop

LEMMA StutterImplemented ==
  ASSUME sent' = sent, received' = received, closed' = closed
  PROVE  UNCHANGED Stream!vars
<1>1. Draft.completed' = Draft.completed
  BY SameSent
<1> QED
  BY <1>1, Zenon DEF Stream!vars

LEMMA ErrorImplemented ==
  ASSUME FramesInv, at # "done", sent' = sent, received' = received,
         UnicodeError \/ WebSocketError \/ OtherError \/ (\E code, reason : Close(code, reason))
  PROVE  Stream!Stop
<1>1. closed' = TRUE
  BY Zenon DEF UnicodeError, WebSocketError, OtherError, Close
<1> QED
  BY <1>1, StopImplemented

\* The client's frame completes a message, or none.
LEMMA ClientImplemented ==
  ASSUME FramesInv, NEW f \in Frame, ClientSends(f)
  PROVE  [Stream!Next]_(Stream!vars)
<1>1. received' = received /\ Draft' = Extended(Draft, f) /\ Draft \in DraftType
  <2>1. Draft \in DraftType
    BY DraftIsTyped DEF FramesInv
  <2>2. Draft' = Extended(Draft, f)
    BY SentStep DEF FramesInv
  <2>3. received' = received
    BY DEF ClientSends
  <2> QED
    BY <2>1, <2>2, <2>3
<1>2. closed' = closed
  BY Zenon DEF ClientSends
<1>3. /\ IsPrefixOf(Draft.completed, Draft'.completed)
      /\ Len(Draft'.completed) \in {Len(Draft.completed), Len(Draft.completed) + 1}
      /\ Len(Draft'.completed) = Len(Draft.completed) => Draft'.completed = Draft.completed
  BY <1>1, ExtendedType
<1>4. CASE Len(Draft'.completed) = Len(Draft.completed) + 1
  <2>1. Draft.completed = SubSeq(Draft'.completed, 1, Len(Draft.completed))
    BY <1>3 DEF IsPrefixOf
  <2> QED
    BY <1>1, <1>2, <1>4, <2>1, Zenon DEF Stream!Next, Stream!Complete
<1>5. CASE Draft'.completed = Draft.completed
  BY <1>1, <1>2, <1>5, Zenon DEF Stream!vars
<1> QED
  BY <1>3, <1>4, <1>5

\* The last fragment of a message delivers it.
LEMMA FragmentImplemented ==
  ASSUME FramesInv, FramesInv', TakeFragment
  PROVE  [Stream!Next]_(Stream!vars)
<1>1. at = "frame" /\ sent' = sent
  BY DEF TakeFragment, HasFrame
<1>2. CASE (UnicodeError \/ WebSocketError \/ OtherError) /\ received' = received
  BY <1>1, <1>2, ErrorImplemented DEF Stream!Next
<1>3. CASE received' = received /\ closed' = closed
  <2>1. received' = received
    BY <1>3
  <2>2. closed' = closed
    BY <1>3, Zenon
  <2> QED
    BY <1>1, <2>1, <2>2, StutterImplemented
<1>4. ASSUME NEW m, received' = Append(received, m), closed' = closed
      PROVE  Stream!Deliver
  <2>1. Draft'.completed = Draft.completed
    BY <1>1, SameSent
  <2>2. received \in Seq(Content) /\ Draft.completed \in Seq(Content) /\ received' \in Seq(Content)
    <3>1. Draft \in DraftType
      BY DraftIsTyped DEF FramesInv
    <3> QED
      BY <3>1 DEF FramesInv, TypeInv, DraftType
  <2>3. IsPrefixOf(received', Draft.completed)
    BY <2>1, Zenon DEF FramesInv, StreamInv
  <2>4. /\ Len(received) \in Nat /\ Len(Draft.completed) \in Nat
        /\ Len(received') = Len(received) + 1 /\ received'[Len(received) + 1] = m
    BY <1>4, <2>2, LenProperties, AppendProperties
  <2>5. Len(received') <= Len(Draft.completed) /\ \A i \in 1..Len(received') : received'[i] = Draft.completed[i]
    BY <2>2, <2>3, PrefixIsElementwise
  <2>6. Len(received) < Len(Draft.completed) /\ m = Draft.completed[Len(received) + 1]
    BY <2>4, <2>5
  <2>7. ~closed
    BY <1>1, Zenon DEF FramesInv, ClosedInv
  <2>8. received' = Append(received, Draft.completed[Len(received) + 1])
    BY <1>4, <2>6, Zenon
  <2>9. closed' = closed
    BY <1>4, Zenon
  <2> QED
    BY <2>1, <2>6, <2>7, <2>8, <2>9, Zenon DEF Stream!Deliver
<1> QED
  BY <1>2, <1>3, <1>4, Zenon DEF TakeFragment, Stream!Next

LEMMA StepImplemented == FramesInv /\ FramesInv' /\ [Next]_vars => [Stream!Next]_(Stream!vars)
<1> SUFFICES ASSUME FramesInv, FramesInv', [Next]_vars PROVE [Stream!Next]_(Stream!vars)
  OBVIOUS
<1> DEFINE Ends == /\ at # "done" /\ sent' = sent /\ received' = received
                   /\ UnicodeError \/ WebSocketError \/ OtherError \/ (\E code, reason : Close(code, reason))
           Waits == sent' = sent /\ received' = received /\ closed' = closed
<1>1. ASSUME Ends PROVE [Stream!Next]_(Stream!vars)
  BY <1>1, ErrorImplemented DEF Stream!Next
<1>2. ASSUME Waits PROVE [Stream!Next]_(Stream!vars)
  <2>1. sent' = sent /\ received' = received
    BY <1>2
  <2>2. closed' = closed
    BY <1>2, Zenon
  <2> QED
    BY <2>1, <2>2, StutterImplemented
<1>3. ASSUME NEW f \in Frame, ClientSends(f) PROVE [Stream!Next]_(Stream!vars)
  BY <1>3, ClientImplemented
<1>4. CASE ConnectionEnds
  <2>1. Waits
    BY <1>4, Zenon DEF ConnectionEnds
  <2> QED
    BY <1>2, <2>1
<1>5. ASSUME NEW length \in Outgoing, SendMessage(length) PROVE Ends \/ Waits
  <2>1. at # "done"
    BY <1>5 DEF SendMessage
  <2> QED
    BY <1>5, <2>1, Zenon DEF SendMessage
<1>6. ASSUME ReadHeader \/ PayloadFails \/ ReadPayload PROVE Ends \/ Waits
  <2>1. at # "done"
    BY <1>6 DEF ReadHeader, PayloadFails, ReadPayload
  <2> QED
    BY <1>6, <2>1, Zenon DEF ReadHeader, PayloadFails, ReadPayload
<1>7. CASE TakeFragment
  BY <1>7, FragmentImplemented
<1>8. ASSUME TakePing \/ TakePong \/ TakeClose \/ TakeUnknown PROVE Ends \/ Waits
  <2>1. at # "done"
    BY <1>8 DEF TakePing, TakePong, TakeClose, TakeUnknown, HasFrame
  <2>2. sent' = sent /\ received' = received
    BY <1>8 DEF TakePing, TakePong, TakeClose, TakeUnknown, HasFrame
  <2>3. CASE TakePing
    BY <2>1, <2>2, <2>3, Zenon DEF TakePing
  <2>4. CASE TakePong
    BY <2>1, <2>2, <2>4, Zenon DEF TakePong
  <2>5. CASE TakeClose
    BY <2>1, <2>2, <2>5, ZenonT(40) DEF TakeClose
  <2>6. CASE TakeUnknown
    BY <2>1, <2>2, <2>6, Zenon DEF TakeUnknown
  <2> QED
    BY <1>8, <2>3, <2>4, <2>5, <2>6, Zenon
<1>9. CASE UNCHANGED vars
  <2>1. Waits
    BY <1>9, Zenon DEF vars
  <2> QED
    BY <1>2, <2>1
<1> HIDE DEF Ends, Waits
<1> QED
  BY <1>1, <1>2, <1>3, <1>4, <1>5, <1>6, <1>7, <1>8, <1>9, Zenon DEF Next, Read

\* WebSocketFrames implements MessageStream: each step of the websocket completes or delivers
\* one message, stops for good, or changes nothing the loop of the server can see.
THEOREM ImplementsStreamSafely == Spec => Stream!Init /\ [][Stream!Next]_(Stream!vars)
<1>1. Init => Stream!Init
  <2> SUFFICES ASSUME Init PROVE Stream!Init
    OBVIOUS
  <2>1. Draft.completed = <<>>
    <3>1. Len(sent) = 0
      BY DEF Init
    <3> QED
      BY <3>1 DEF Draft, DraftAt, Draft0
  <2> QED
    BY <2>1, Zenon DEF Init, Stream!Init
<1> QED
  BY <1>1, StepImplemented, FramesInvHolds, PTL DEF Spec

-----------------------------------------------------------------------------
(* The validator while a text is read.                                     *)

Ascii == 0..127

\* Texts that the validator must accept, and does: what is UTF-8 if it is wsaccel's, ASCII if
\* it is the module's own.
Served(v, s) == IF v = "wsaccel" THEN IsWellFormed(s) ELSE s \in Seq(Ascii)

\* What is joined is ASCII if and only if both parts are.
LEMMA AsciiJoined ==
  ASSUME NEW m \in Seq(Octet), NEW s \in Seq(Octet)
  PROVE  m \o s \in Seq(Ascii) <=> m \in Seq(Ascii) /\ s \in Seq(Ascii)
<1>1. ASSUME m \in Seq(Ascii), s \in Seq(Ascii)
      PROVE  m \o s \in Seq(Ascii)
  BY <1>1, ConcatProperties
<1>2. ASSUME m \o s \in Seq(Ascii)
      PROVE  m \in Seq(Ascii) /\ s \in Seq(Ascii)
  <2>1. /\ Len(m) \in Nat /\ Len(s) \in Nat /\ Len(m \o s) = Len(m) + Len(s)
        /\ \A i \in 1..(Len(m) + Len(s)) :
             (m \o s)[i] = IF i <= Len(m) THEN m[i] ELSE s[i - Len(m)]
    BY LenProperties, ConcatProperties
  <2>2. \A i \in 1..(Len(m) + Len(s)) : (m \o s)[i] \in Ascii
    BY <1>2, <2>1, ElementOfSeq
  <2>3. ASSUME NEW i \in 1..Len(m)
        PROVE  m[i] \in Ascii
    <3>1. i \in 1..(Len(m) + Len(s)) /\ i <= Len(m)
      BY <2>1
    <3> QED
      BY <2>1, <2>2, <3>1
  <2>4. ASSUME NEW i \in 1..Len(s)
        PROVE  s[i] \in Ascii
    <3>1. i + Len(m) \in 1..(Len(m) + Len(s)) /\ ~(i + Len(m) <= Len(m)) /\ (i + Len(m)) - Len(m) = i
      BY <2>1
    <3>2. (m \o s)[i + Len(m)] = s[i]
      BY <2>1, <3>1
    <3>3. (m \o s)[i + Len(m)] \in Ascii
      BY <2>2, <3>1
    <3> QED
      BY <3>2, <3>3
  <2>5. m = [i \in 1..Len(m) |-> m[i]] /\ s = [i \in 1..Len(s) |-> s[i]]
    BY LenProperties
  <2> QED
    BY <2>1, <2>3, <2>4, <2>5
<1> QED
  BY <1>1, <1>2

\* Either validator accepts from its initial state what it can take.
LEMMA ServedIsAccepted ==
  ASSUME NEW v \in {"fallback", "wsaccel"}, NEW s \in Seq(Octet), Served(v, s)
  PROVE  IsWellFormed(s) /\ Validate(v, UTF8_ACCEPT, s) = UTF8_ACCEPT
<1>1. s \in Seq(0..255)
  BY DEF Octet
<1>2. CASE v = "wsaccel"
  BY <1>1, <1>2, ValidateOctets DEF Served
<1>3. CASE v # "wsaccel"
  <2>1. s \in Seq(0..127)
    BY <1>3 DEF Served, Ascii
  <2> QED
    BY <2>1, AsciiIsItself, ValidateAscii
<1> QED
  BY <1>2, <1>3

\* A text goes on as it began: what both parts can be taken for, the whole can.
LEMMA ServedJoined ==
  ASSUME NEW v \in {"fallback", "wsaccel"}, NEW m \in Seq(Octet), NEW s \in Seq(Octet),
         Served(v, m), Served(v, s)
  PROVE  m \o s \in Seq(Octet) /\ Served(v, m \o s)
<1>1. m \o s \in Seq(Octet)
  BY ConcatProperties
<1>2. CASE v = "wsaccel"
  <2>1. m \in Seq(0..255) /\ s \in Seq(0..255)
    BY DEF Octet
  <2> QED
    BY <1>1, <1>2, <2>1, WellFormedJoined DEF Served
<1>3. CASE v # "wsaccel"
  BY <1>1, <1>3, AsciiJoined DEF Served
<1> QED
  BY <1>2, <1>3

\* An empty text can be taken by either validator.
LEMMA NothingIsServed ==
  ASSUME NEW v
  PROVE  <<>> \in Seq(Octet) /\ Served(v, <<>>)
<1>1. <<>> \in Seq(0..127) /\ <<>> \in Seq(Octet)
  BY EmptySeq
<1>2. IsWellFormed(<<>>)
  BY <1>1, AsciiIsItself
<1> QED
  BY <1>1, <1>2 DEF Served, Ascii

\* While a text is read, its fragments are UTF-8, and the validator is between two
\* characters if they are what it can take.  What it cannot take, a client sent.
ValidatorInv ==
  /\ validator \in Validators /\ torn \in BOOLEAN /\ state \in State
  /\ opcode = 0 => message = <<>>
  /\ opcode = OPCODE_TEXT =>
       /\ IsWellFormed(message)
       /\ Served(validator, message) => state = UTF8_ACCEPT
       /\ at # "done" /\ (\A i \in 1..taken : ~IsUnserved(i)) => Served(validator, message)

-----------------------------------------------------------------------------
(* What a step is.                                                         *)

\* What ends the websocket by the client's doing.
Blamed(i) == IsUnlawful(i) \/ IsUnserved(i) \/ sent[i].frame.opcode = OPCODE_CLOSE

\* What is not UTF-8, as a whole or by itself, or says that something was not.
IllFormed(k) ==
  \/ IsIllFormedText(k) \/ SplitsCharacter(k)
  \/ sent[k].frame.opcode = OPCODE_CLOSE /\ ~IsWellFormed(CloseReason(sent[k].frame))
  \/ sent[k].frame.opcode = OPCODE_CLOSE /\ Unpack2(sent[k].frame.payload, 1) = 1007

\* A fragment of a text in hand, and the text before it.
LEMMA TextInHand ==
  ASSUME FramesInv, ValidatorInv, at = "frame", MessageOpcode = OPCODE_TEXT, ~BeginsInside,
         header.opcode \in {OPCODE_CONTINUATION, OPCODE_TEXT, OPCODE_BINARY}
  PROVE  /\ IsTextFragment(taken + 1)
         /\ payload = sent[taken + 1].frame.payload /\ payload \in Seq(Octet)
         /\ message \in Seq(Octet) /\ IsWellFormed(message)
         /\ Served(validator, message) => StateBefore = UTF8_ACCEPT
         /\ (\A i \in 1..taken : ~IsUnserved(i)) => Served(validator, message)
<1> DEFINE f == sent[taken + 1].frame
           draft == DraftAt(taken)
<1>1. /\ taken + 1 \in 1..Len(sent) /\ f \in Frame /\ draft \in DraftType
      /\ payload = f.payload /\ f.opcode = header.opcode /\ f.fin = header.fin
      /\ opcode = draft.kind /\ message = draft.octets
  BY FrameInHand DEF FramesInv
<1>2. payload \in Seq(Octet) /\ message \in Seq(Octet) /\ taken \in Nat /\ (taken + 1) - 1 = taken
  BY DraftIsTyped DEF FramesInv, TypeInv
<1>3. IsTextFragment(taken + 1)
  <2> HIDE DEF f, draft
  <2>1. MessageOpcode # 0
    BY DEF OPCODE_TEXT
  <2>2. f.opcode = OPCODE_TEXT \/ (f.opcode = OPCODE_CONTINUATION /\ draft.kind = OPCODE_TEXT)
    BY <1>1, <2>1, FragmentExtends DEF FramesInv
  <2> QED
    BY <1>2, <2>2, Zenon DEF IsTextFragment, f, draft
<1>4. CASE header.opcode = OPCODE_CONTINUATION
  <2>1. opcode = OPCODE_TEXT /\ StateBefore = state
    BY <1>4 DEF MessageOpcode, StateBefore
  <2>2. at # "done"
    OBVIOUS
  <2> QED
    BY <1>1, <1>2, <1>3, <2>1, <2>2 DEF ValidatorInv
<1>5. CASE header.opcode # OPCODE_CONTINUATION
  <2>1. opcode = 0 /\ StateBefore = UTF8_ACCEPT
    BY <1>5 DEF BeginsInside, StateBefore
  <2>2. message = <<>>
    BY <2>1 DEF ValidatorInv
  <2>3. IsWellFormed(message) /\ Served(validator, message)
    <3>1. Served("wsaccel", <<>>) /\ Served(validator, <<>>)
      BY NothingIsServed
    <3> QED
      BY <2>2, <3>1 DEF Served
  <2> QED
    BY <1>1, <1>2, <1>3, <2>1, <2>3
<1> QED
  BY <1>4, <1>5

\* A text that the validator can take is not refused.
LEMMA ServedGoesOn ==
  ASSUME FramesInv, ValidatorInv, at = "frame", MessageOpcode = OPCODE_TEXT, ~BeginsInside,
         header.opcode \in {OPCODE_CONTINUATION, OPCODE_TEXT, OPCODE_BINARY},
         payload # <<>>, Served(validator, payload), Served(validator, message)
  PROVE  FragmentOutcome \in {"more", "whole"}
<1>1. /\ payload \in Seq(Octet) /\ message \in Seq(Octet) /\ StateBefore = UTF8_ACCEPT
  BY TextInHand
<1>2. validator \in {"fallback", "wsaccel"}
  BY FramesAssumption DEF ValidatorInv
<1>3. IsWellFormed(payload) /\ Validate(validator, StateBefore, payload) = UTF8_ACCEPT
  BY <1>1, <1>2, ServedIsAccepted
<1>4. message \o payload \in Seq(Octet) /\ Served(validator, message \o payload)
  BY <1>1, <1>2, ServedJoined
<1>5. Validate(validator, UTF8_ACCEPT, message \o payload) = UTF8_ACCEPT
  BY <1>2, <1>4, ServedIsAccepted
<1>6. UTF8_ACCEPT # UTF8_REJECT /\ UTF8_ACCEPT # OutOfTable /\ OPCODE_TEXT # 0
  BY DEF UTF8_ACCEPT, UTF8_REJECT, OutOfTable, OPCODE_TEXT
<1> QED
  BY <1>3, <1>5, <1>6, Zenon DEF FragmentOutcome

\* A text that is UTF-8 and not what the code fails to serve.
LEMMA TextIsServed ==
  ASSUME ValidatorInv, NEW i, IsTextFragment(i), ~IsUnserved(i), payload = sent[i].frame.payload,
         payload \in Seq(Octet), IsWellFormed(payload)
  PROVE  Served(validator, payload)
<1>1. validator = "fallback" => \A k \in 1..Len(payload) : ~(payload[k] > 127)
  BY Zenon DEF IsUnserved
<1>2. validator \in {"fallback", "wsaccel"}
  BY FramesAssumption DEF ValidatorInv
<1>3. ASSUME validator = "fallback"
      PROVE  payload \in Seq(Ascii)
  <2>1. \A k \in 1..Len(payload) : payload[k] \in Octet /\ ~(payload[k] > 127)
    BY <1>1, <1>3, ElementOfSeq
  <2>2. \A b \in Octet : ~(b > 127) => b \in Ascii
    BY DEF Octet, Ascii
  <2>3. \A k \in 1..Len(payload) : payload[k] \in Ascii
    BY <2>1, <2>2
  <2>4. payload = [k \in 1..Len(payload) |-> payload[k]] /\ Len(payload) \in Nat
    BY LenProperties
  <2> QED
    BY <2>3, <2>4
<1> QED
  BY <1>2, <1>3 DEF Served

\* A fragment is refused through the client's fault.
LEMMA FragmentFault ==
  ASSUME FramesInv, ValidatorInv, at = "frame",
         header.opcode \in {OPCODE_CONTINUATION, OPCODE_TEXT, OPCODE_BINARY},
         FragmentOutcome \notin {"more", "whole"}
  PROVE  \E i \in 1..Len(sent) : i <= taken + 1 /\ Blamed(i)
<1> DEFINE f == sent[taken + 1].frame
           draft == DraftAt(taken)
<1>1. /\ taken + 1 \in 1..Len(sent) /\ f \in Frame /\ draft \in DraftType
      /\ payload = f.payload /\ f.opcode = header.opcode /\ f.length = Len(f.payload)
      /\ opcode = draft.kind /\ message = draft.octets
  BY FrameInHand DEF FramesInv
<1>2. Len(sent) \in Nat /\ taken \in Nat /\ taken <= Len(sent) /\ (taken + 1) - 1 = taken
  BY DraftIsTyped DEF FramesInv, TypeInv
<1> SUFFICES ASSUME \A i \in 1..Len(sent) : i <= taken + 1 => ~Blamed(i) PROVE FALSE
  OBVIOUS
<1>3. ~Blamed(taken + 1) /\ \A i \in 1..taken : ~IsUnserved(i)
  <2>1. \A i \in 1..taken : i \in 1..Len(sent) /\ i <= taken + 1
    BY <1>2
  <2>2. taken + 1 <= taken + 1
    BY <1>2
  <2> QED
    BY <1>1, <2>1, <2>2 DEF Blamed
<1>4. ~IsUnlawful(taken + 1) /\ ~IsUnserved(taken + 1)
  BY <1>3, Zenon DEF Blamed
<1>5. f.opcode \in 0..2 /\ Fits(draft, f) /\ (IsTextFragment(taken + 1) => IsWellFormed(f.payload))
  <2>1. f.opcode \in 0..2
    BY <1>1 DEF OPCODE_CONTINUATION, OPCODE_TEXT, OPCODE_BINARY
  <2>2. Fits(draft, f) /\ ~IsIllFormedText(taken + 1)
    BY <1>2, <1>4, <2>1, Zenon DEF IsUnlawful
  <2>3. ~SplitsCharacter(taken + 1)
    BY <1>4, Zenon DEF IsUnserved
  <2>4. IsTextFragment(taken + 1) => IsWellFormed(payload)
    BY <2>2, <2>3, FragmentLaw
  <2> QED
    BY <1>1, <2>1, <2>2, <2>4
<1>6. MessageOpcode # 0 /\ ~BeginsInside
  BY <1>1, <1>5 DEF Fits, MessageOpcode, BeginsInside, OPCODE_CONTINUATION, OPCODE_TEXT, OPCODE_BINARY
<1>7. payload # <<>>
  <2>1. f.length # 0
    <3>1. f.opcode \notin {OPCODE_PONG, OPCODE_CLOSE}
      BY <1>5 DEF OPCODE_PONG, OPCODE_CLOSE
    <3> QED
      BY <1>4, <3>1, Zenon DEF IsUnserved
  <2>2. Len(payload) # 0
    BY <1>1, <2>1
  <2> QED
    BY <2>2
<1>8. MessageOpcode = OPCODE_TEXT
  BY <1>6, <1>7, Zenon DEF FragmentOutcome
<1>9. IsTextFragment(taken + 1) /\ payload \in Seq(Octet) /\ Served(validator, message)
  BY <1>3, <1>6, <1>8, TextInHand
<1>10. Served(validator, payload)
  BY <1>1, <1>4, <1>5, <1>9, TextIsServed
<1>11. FragmentOutcome \in {"more", "whole"}
  BY <1>6, <1>7, <1>8, <1>9, <1>10, ServedGoesOn
<1> QED
  BY <1>11

\* With wsaccel's validator, what is refused for its encoding is not UTF-8.
LEMMA InvalidIsIllFormed ==
  ASSUME FramesInv, ValidatorInv, at = "frame", validator = "wsaccel",
         header.opcode \in {OPCODE_CONTINUATION, OPCODE_TEXT, OPCODE_BINARY},
         FragmentOutcome = "invalid"
  PROVE  IllFormed(taken + 1)
<1>1. MessageOpcode = OPCODE_TEXT /\ ~BeginsInside /\ payload # <<>>
  BY DEF FragmentOutcome
<1>2. /\ IsTextFragment(taken + 1) /\ payload = sent[taken + 1].frame.payload
      /\ IsWellFormed(message)
  BY <1>1, TextInHand
<1>3. ~IsWellFormed(payload)
  <2>1. ASSUME IsWellFormed(payload)
        PROVE  FALSE
    <3>1. Served(validator, payload) /\ Served(validator, message)
      BY <1>2, <2>1 DEF Served
    <3>2. FragmentOutcome \in {"more", "whole"}
      BY <1>1, <3>1, ServedGoesOn
    <3> QED
      BY <3>2
  <2> QED
    BY <2>1
<1>4. Fits(DraftAt(taken), sent[taken + 1].frame)
  <2>1. /\ sent[taken + 1].frame \in Frame /\ DraftAt(taken) \in DraftType
        /\ payload = sent[taken + 1].frame.payload /\ sent[taken + 1].frame.opcode = header.opcode
        /\ sent[taken + 1].frame.fin = header.fin
        /\ opcode = DraftAt(taken).kind /\ message = DraftAt(taken).octets
    BY FrameInHand DEF FramesInv
  <2>2. MessageOpcode # 0
    BY <1>1 DEF OPCODE_TEXT
  <2> QED
    BY <1>1, <2>1, <2>2, FragmentExtends DEF FramesInv
<1>5. IsIllFormedText(taken + 1) \/ SplitsCharacter(taken + 1)
  BY <1>2, <1>3, <1>4, FragmentLaw
<1> QED
  BY <1>5, Zenon DEF IllFormed

\* close: at most a close frame with that code is sent, and the websocket is closed.
EndsWith(code) ==
  /\ closed' = TRUE /\ at' = "done"
  /\ \/ wire' = wire
     \/ \E w : /\ wire' = Append(wire, w)
               /\ w.opcode = OPCODE_CLOSE /\ Unpack2(w.payload, 1) = code

\* Why: the client, the connection, or recv.
Fault ==
  \/ link # "up" \/ torn' = TRUE
  \/ \E i \in 1..Len(sent) : i <= taken + 1 /\ Blamed(i)

\* The steps that close.
Closing ==
  /\ UNCHANGED <<sent, validator, link, opcode, message, state>>
  /\ taken' = taken \/ (at = "frame" /\ taken' = taken + 1)
  /\ torn' \in {torn, TRUE}
  /\ Fault
  /\ \E code \in Code :
       /\ EndsWith(code)
       /\ code = 1007 /\ validator = "wsaccel" => \E k \in 1..Len(sent) : IllFormed(k)

\* The steps that neither close nor take a frame.
Waiting ==
  /\ UNCHANGED <<sent, validator, taken, torn, opcode, message, state, closed>>
  /\ at # "done" /\ at' # "done"
  /\ \/ wire' = wire
     \/ \E w : wire' = Append(wire, w) /\ w.opcode = OPCODE_TEXT

\* The steps that take a frame and go on.
Taking ==
  /\ HasFrame /\ closed' = closed /\ at' # "done"
  /\ \/ header.opcode # OPCODE_PING /\ wire' = wire
     \/ header.opcode = OPCODE_PING /\ SendFrame(OPCODE_PONG, Len(payload), payload)
  /\ \/ UNCHANGED <<opcode, message, state>>
     \/ opcode' = 0 /\ message' = <<>> /\ state' = UTF8_ACCEPT
     \/ /\ header.opcode \in {OPCODE_CONTINUATION, OPCODE_TEXT, OPCODE_BINARY}
        /\ FragmentOutcome = "more"
        /\ opcode' = MessageOpcode /\ message' = message \o payload
        /\ state' = Validate(validator, StateBefore, IF MessageOpcode = OPCODE_TEXT THEN payload ELSE <<>>)

\* close sends one close frame with its code, unless the connection was reset.
LEMMA CloseEnds ==
  ASSUME NEW code \in Code, NEW reason \in Seq(Octet), Close(code, reason)
  PROVE  EndsWith(code)
<1> DEFINE content == Pack2(code) \o reason
           w == [octets |-> EncodeHeader(TRUE, OPCODE_CLOSE, <<>>, 2 + Len(reason), 0),
                 opcode |-> OPCODE_CLOSE, length |-> 2 + Len(reason), payload |-> content]
<1>1. Unpack2(content, 1) = code
  BY TwoOctets
<1>2. w.opcode = OPCODE_CLOSE /\ w.payload = content
  OBVIOUS
<1>3. closed' = TRUE
  BY Zenon DEF Close
<1>4. at' = "done" /\ (wire' = wire \/ wire' = Append(wire, w))
  BY Zenon DEF Close, SendFrame
<1> HIDE DEF content, w
<1>5. CASE wire' = wire
  BY <1>3, <1>4, <1>5, Zenon DEF EndsWith
<1>6. CASE wire' = Append(wire, w)
  <2>1. Unpack2(w.payload, 1) = code
    BY <1>1, <1>2
  <2> QED
    BY <1>2, <1>3, <1>4, <1>6, <2>1, Zenon DEF EndsWith
<1> QED
  BY <1>4, <1>5, <1>6

\* The three ways out of read_message have codes that may be said.
LEMMA ErrorEnds ==
  /\ UnicodeError => EndsWith(1007)
  /\ WebSocketError => EndsWith(1002)
  /\ OtherError => EndsWith(1001)
  /\ 1000 \in Code /\ 1001 \in Code /\ 1002 \in Code /\ 1007 \in Code
<1>1. 1000 \in Code /\ 1001 \in Code /\ 1002 \in Code /\ 1007 \in Code
  BY SMT DEF Code, ReservedCodes, Octet
<1>2. <<>> \in Seq(Octet)
  BY EmptySeq
<1>3. UnicodeError => EndsWith(1007)
  <2>1. ASSUME NEW code \in Code, Close(code, <<>>)
        PROVE  EndsWith(code)
    BY <1>2, <2>1, CloseEnds
  <2> QED
    BY <1>1, <2>1 DEF UnicodeError
<1>4. WebSocketError => EndsWith(1002)
  <2>1. ASSUME NEW code \in Code, Close(code, <<>>)
        PROVE  EndsWith(code)
    BY <1>2, <2>1, CloseEnds
  <2> QED
    BY <1>1, <2>1 DEF WebSocketError
<1>5. OtherError => EndsWith(1001)
  <2>1. ASSUME NEW code \in Code, Close(code, <<>>)
        PROVE  EndsWith(code)
    BY <1>2, <2>1, CloseEnds
  <2> QED
    BY <1>1, <2>1 DEF OtherError
<1> QED
  BY <1>1, <1>3, <1>4, <1>5

\* The errors that blame nobody's encoding.
LEMMA ErrorCloses ==
  ASSUME WebSocketError \/ OtherError, UNCHANGED <<sent, validator, link, opcode, message, state>>,
         taken' = taken \/ (at = "frame" /\ taken' = taken + 1), torn' \in {torn, TRUE}, Fault
  PROVE  Closing
<1>1. \E code \in Code : EndsWith(code) /\ code # 1007
  <2>1. CASE WebSocketError
    <3>1. 1002 \in Code /\ EndsWith(1002) /\ 1002 # 1007
      BY <2>1, ErrorEnds
    <3> QED
      BY <3>1
  <2>2. CASE OtherError
    <3>1. 1001 \in Code /\ EndsWith(1001) /\ 1001 # 1007
      BY <2>2, ErrorEnds
    <3> QED
      BY <3>1
  <2> QED
    BY <2>1, <2>2
<1>2. UNCHANGED <<sent, validator, link, opcode, message, state>>
  OBVIOUS
<1> QED
  BY <1>1, <1>2, ZenonT(40) DEF Closing

\* The frame in hand can be blamed.
LEMMA BlameInHand ==
  ASSUME FramesInv, taken < Len(sent), Blamed(taken + 1)
  PROVE  Fault /\ taken + 1 \in 1..Len(sent)
<1>1. taken + 1 \in 1..Len(sent) /\ taken + 1 <= taken + 1
  BY DraftIsTyped DEF FramesInv, TypeInv
<1> QED
  BY <1>1, Zenon DEF Fault

\* The code that is echoed may be said.
LEMMA EchoedCode ==
  ASSUME FramesInv, at = "frame", CloseOutcome = "echo"
  PROVE  Unpack2(payload, 1) \in Code
<1> DEFINE code == Unpack2(payload, 1)
<1>1. payload \in Seq(Octet) /\ Len(payload) \in Nat
  BY LenProperties DEF FramesInv, TypeInv
<1>2. Len(payload) >= 2 /\ IsValidCloseCode(code)
  BY <1>1 DEF CloseOutcome
<1>3. payload[1] \in Octet /\ payload[2] \in Octet
  BY <1>1, <1>2, ElementOfSeq
<1>4. code = (payload[1] * 256) + payload[2]
  BY DEF Unpack2
<1>5. \A a, b \in Octet : \A n : n = (a * 256) + b => n \in Nat /\ n \div 256 = a
  BY SMT DEF Octet
<1>6. \A n \in Nat : IsValidCloseCode(n) => n \notin ReservedCodes
  BY SMT DEF IsValidCloseCode, ReservedCodes
<1> HIDE DEF code
<1>7. code \in Nat /\ code \div 256 = payload[1]
  BY <1>3, <1>4, <1>5
<1>8. code \in Code
  BY <1>2, <1>3, <1>6, <1>7 DEF Code
<1> QED
  BY <1>8 DEF code

\* The end of the connection is not yet an end of the websocket.
LEMMA EndsIsWaiting ==
  ASSUME ConnectionEnds, TypeInv
  PROVE  Waiting
  BY Zenon DEF ConnectionEnds, Waiting, readVars

\* send_frame for the server's message, or the end of the loop when the socket fails.
LEMMA SendKind ==
  ASSUME FramesInv, ValidatorInv, NEW length \in Outgoing, SendMessage(length)
  PROVE  Closing \/ Waiting
<1>1. /\ UNCHANGED <<sent, validator, link, opcode, message, state>> /\ taken' = taken /\ torn' = torn
      /\ at = "idle"
  BY DEF SendMessage, readVars
<1>2. CASE link = "reset"
  <2>1. OtherError /\ link # "up"
    BY <1>2 DEF SendMessage
  <2> QED
    BY <1>1, <2>1, ErrorCloses DEF Fault
<1>3. CASE link # "reset"
  <2>1. SendFrame(OPCODE_TEXT, length, <<>>) /\ at' = at
    BY <1>3 DEF SendMessage
  <2>2. closed' = closed
    BY <1>3, Zenon DEF SendMessage
  <2> DEFINE w == [octets |-> EncodeHeader(TRUE, OPCODE_TEXT, <<>>, length, 0),
                   opcode |-> OPCODE_TEXT, length |-> length, payload |-> <<>>]
  <2>3. wire' = Append(wire, w) /\ w.opcode = OPCODE_TEXT
    BY <2>1 DEF SendFrame
  <2> HIDE DEF w
  <2>4. at # "done" /\ at' # "done"
    BY <1>1, <2>1
  <2> QED
    BY <1>1, <2>2, <2>3, <2>4, Zenon DEF Waiting
<1> QED
  BY <1>2, <1>3

\* read_frame up to the header: a header refused is the client's fault.
LEMMA HeaderKind ==
  ASSUME FramesInv, ValidatorInv, ReadHeader
  PROVE  Closing \/ Waiting
<1> DEFINE f == sent[taken + 1].frame
           h == DecodeHeader(Octets(f.fin, f.opcode, f.mask, f.length, f.flags, f.short))
<1>1. UNCHANGED <<sent, validator, link, opcode, message, state>> /\ taken' = taken /\ at # "done"
  BY DEF ReadHeader
<1>2. CASE link # "up" /\ torn' = torn /\ (WebSocketError \/ OtherError)
  BY <1>1, <1>2, ErrorCloses DEF Fault
<1>3. CASE torn' = TRUE /\ WebSocketError
  BY <1>1, <1>3, ErrorCloses DEF Fault
<1>4. CASE taken < Len(sent) /\ IsRefused(f.short, h) /\ WebSocketError /\ torn' = torn
  <2>1. f \in Frame
    <3>1. taken + 1 \in 1..Len(sent)
      BY <1>4, DraftIsTyped DEF FramesInv, TypeInv
    <3> QED
      BY <3>1, DraftIsTyped DEF FramesInv
  <2>2. h = HeaderOf(f) /\ f.opcode \in 0..15 /\ f.length \in Length
    BY <2>1, HeaderIsRead, FrameFields
  <2>3. f.flags # 0 \/ (f.opcode > 7 /\ (~f.fin \/ f.short > 125))
    <3>1. IsRefused(f.short, HeaderOf(f))
      BY <1>4, <2>2, Zenon
    <3> QED
      BY <2>2, <3>1 DEF HeaderOf, IsRefused, Length
  <2>4. IsUnlawful(taken + 1)
    BY <2>3, Zenon DEF IsUnlawful
  <2>5. Fault
    BY <1>4, <2>4, BlameInHand DEF Blamed
  <2> QED
    BY <1>1, <1>4, <2>5, ErrorCloses
<1>5. CASE at' = "payload" /\ torn' = torn /\ closed' = closed /\ wire' = wire
  <2>1. at' # "done"
    BY <1>5
  <2>2. closed' = closed
    BY <1>5, Zenon
  <2> QED
    BY <1>1, <1>5, <2>1, <2>2, Zenon DEF Waiting
<1> HIDE DEF h
<1>6. link = "reset" \/ link = "ended" => link # "up"
  OBVIOUS
<1> QED
  BY <1>2, <1>3, <1>4, <1>5, <1>6, Zenon DEF ReadHeader, h

\* A payload that does not come is recv's fault, the connection's, or that of a client whose
\* payload is too long to be served.
LEMMA FailsKind ==
  ASSUME FramesInv, ValidatorInv, PayloadFails
  PROVE  Closing
<1>1. /\ UNCHANGED <<sent, validator, link, opcode, message, state>> /\ taken' = taken /\ at = "payload"
  BY DEF PayloadFails, readVars
<1>2. CASE link = "reset" /\ torn' = torn /\ WebSocketError
  BY <1>1, <1>2, ErrorCloses DEF Fault
<1>3. CASE torn' = TRUE /\ WebSocketError
  BY <1>1, <1>3, ErrorCloses DEF Fault
<1>4. CASE header.length > MaxRecv /\ OtherError /\ torn' = torn
  <2>1. taken < Len(sent) /\ header = HeaderOf(sent[taken + 1].frame)
    BY <1>1 DEF FramesInv, ReadInv
  <2>2. sent[taken + 1].frame.length > MaxRecv
    BY <1>4, <2>1 DEF HeaderOf
  <2>3. IsUnserved(taken + 1)
    BY <2>2, Zenon DEF IsUnserved
  <2>4. Fault
    BY <2>1, <2>3, BlameInHand DEF Blamed
  <2> QED
    BY <1>1, <1>4, <2>4, ErrorCloses
<1> QED
  BY <1>2, <1>3, <1>4, Zenon DEF PayloadFails

\* Reading the payload neither closes nor takes the frame.
LEMMA PayloadKind ==
  ASSUME FramesInv, ValidatorInv, ReadPayload
  PROVE  Waiting
<1>1. /\ UNCHANGED <<sent, validator, taken, torn, opcode, message, state>> /\ at = "payload" /\ at' = "frame" /\ wire' = wire
  BY DEF ReadPayload
<1>2. closed' = closed
  BY Zenon DEF ReadPayload
<1>3. at # "done" /\ at' # "done"
  BY <1>1
<1> QED
  BY <1>1, <1>2, <1>3, Zenon DEF Waiting

\* A fragment goes on with the message, completes it, or closes by the client's fault.
LEMMA FragmentKind ==
  ASSUME FramesInv, ValidatorInv, TakeFragment
  PROVE  Closing \/ Taking
<1>1. /\ HasFrame /\ at = "frame" /\ sent' = sent /\ taken' = taken + 1 /\ link' = link
      /\ validator' = validator /\ torn' = torn
      /\ header.opcode \in {OPCODE_CONTINUATION, OPCODE_TEXT, OPCODE_BINARY}
  BY DEF TakeFragment, HasFrame
<1>2. CASE /\ FragmentOutcome \in {"protocol", "failure", "invalid"}
           /\ UNCHANGED <<opcode, message, state>>
           /\ FragmentOutcome = "invalid" => UnicodeError
           /\ FragmentOutcome # "invalid" => WebSocketError \/ OtherError
  <2>1. Fault
    <3>1. FragmentOutcome \notin {"more", "whole"}
      BY <1>2
    <3> QED
      BY <1>1, <3>1, FragmentFault DEF Fault
  <2>2. CASE FragmentOutcome # "invalid"
    BY <1>1, <1>2, <2>1, <2>2, ErrorCloses
  <2>3. CASE FragmentOutcome = "invalid"
    <3>1. EndsWith(1007) /\ 1007 \in Code
      BY <1>2, <2>3, ErrorEnds
    <3>2. validator = "wsaccel" => IllFormed(taken + 1)
      BY <1>1, <2>3, InvalidIsIllFormed
    <3>3. taken + 1 \in 1..Len(sent)
      BY <1>1, FrameInHand DEF FramesInv
    <3>4. \E code \in Code : EndsWith(code) /\ (code = 1007 /\ validator = "wsaccel" => \E k \in 1..Len(sent) : IllFormed(k))
      BY <3>1, <3>2, <3>3
    <3>5. torn' \in {torn, TRUE}
      BY <1>1
    <3> QED
      BY <1>1, <1>2, <2>1, <3>4, <3>5, Zenon DEF Closing
  <2> QED
    BY <2>2, <2>3
<1>3. header.opcode # OPCODE_PING
  BY <1>1 DEF OPCODE_CONTINUATION, OPCODE_TEXT, OPCODE_BINARY, OPCODE_PING
<1>4. CASE FragmentOutcome = "more"
  <2>1. /\ at' # "done" /\ opcode' = MessageOpcode /\ message' = message \o payload /\ wire' = wire
        /\ state' = Validate(validator, StateBefore, IF MessageOpcode = OPCODE_TEXT THEN payload ELSE <<>>)
    BY <1>4 DEF TakeFragment
  <2>2. closed' = closed
    BY <1>4, Zenon DEF TakeFragment
  <2> QED
    BY <1>1, <1>3, <1>4, <2>1, <2>2, Zenon DEF Taking
<1>5. CASE FragmentOutcome = "whole"
  <2>1. at' # "done" /\ opcode' = 0 /\ message' = <<>> /\ state' = UTF8_ACCEPT /\ wire' = wire
    BY <1>5 DEF TakeFragment
  <2>2. closed' = closed
    BY <1>5, Zenon DEF TakeFragment
  <2> QED
    BY <1>1, <1>3, <2>1, <2>2, Zenon DEF Taking
<1>6. /\ \A o : o = "protocol" \/ o = "failure" => o # "invalid" /\ o \in {"protocol", "failure", "invalid"}
      /\ "invalid" \in {"protocol", "failure", "invalid"}
  OBVIOUS
<1> QED
  BY <1>2, <1>4, <1>5, <1>6, Zenon DEF TakeFragment

\* A ping is answered, or is empty, or meets a connection that was reset.
LEMMA PingKind ==
  ASSUME FramesInv, ValidatorInv, TakePing
  PROVE  Closing \/ Taking
<1>1. /\ HasFrame /\ at = "frame" /\ sent' = sent /\ taken' = taken + 1 /\ link' = link
      /\ validator' = validator /\ torn' = torn /\ header.opcode = OPCODE_PING
      /\ UNCHANGED <<opcode, message, state>>
  BY DEF TakePing, HasFrame
<1>2. CASE payload = <<>> /\ OtherError
  <2>1. /\ taken < Len(sent) /\ header = HeaderOf(sent[taken + 1].frame)
        /\ Len(payload) = header.length
    BY <1>1 DEF FramesInv, ReadInv
  <2>2. sent[taken + 1].frame.length = 0 /\ sent[taken + 1].frame.opcode \notin {OPCODE_PONG, OPCODE_CLOSE}
    BY <1>1, <1>2, <2>1 DEF HeaderOf, OPCODE_PING, OPCODE_PONG, OPCODE_CLOSE
  <2>3. IsUnserved(taken + 1)
    BY <2>2, Zenon DEF IsUnserved
  <2>4. Fault
    BY <2>1, <2>3, BlameInHand DEF Blamed
  <2> QED
    BY <1>1, <1>2, <2>4, ErrorCloses
<1>3. CASE link = "reset" /\ WebSocketError
  BY <1>1, <1>3, ErrorCloses DEF Fault
<1>4. CASE SendFrame(OPCODE_PONG, Len(payload), payload) /\ at' = "header" /\ closed' = closed
  <2>1. at' # "done"
    BY <1>4
  <2>2. closed' = closed
    BY <1>4, Zenon
  <2> QED
    BY <1>1, <1>4, <2>1, <2>2, Zenon DEF Taking
<1> QED
  BY <1>2, <1>3, <1>4, Zenon DEF TakePing

\* A pong is taken and nothing else happens.
LEMMA PongKind ==
  ASSUME FramesInv, ValidatorInv, TakePong
  PROVE  Taking
<1>1. /\ HasFrame /\ at' # "done" /\ header.opcode = OPCODE_PONG /\ wire' = wire
      /\ UNCHANGED <<opcode, message, state>>
  BY DEF TakePong
<1>2. closed' = closed
  BY Zenon DEF TakePong
<1>3. header.opcode # OPCODE_PING
  BY <1>1 DEF OPCODE_PING, OPCODE_PONG
<1> QED
  BY <1>1, <1>2, <1>3, Zenon DEF Taking

\* A close frame closes, with the code that it carries or one for what is wrong with it.
LEMMA CloseKind ==
  ASSUME FramesInv, ValidatorInv, TakeClose
  PROVE  Closing
<1> DEFINE f == sent[taken + 1].frame
           reason == SubSeq(payload, 3, Len(payload))
<1>1. /\ at = "frame" /\ sent' = sent /\ taken' = taken + 1 /\ link' = link
      /\ validator' = validator /\ torn' = torn /\ header.opcode = OPCODE_CLOSE
      /\ UNCHANGED <<opcode, message, state>>
  BY DEF TakeClose, HasFrame
<1>2. /\ taken + 1 \in 1..Len(sent) /\ payload = f.payload /\ f.opcode = OPCODE_CLOSE
  BY <1>1, FrameInHand DEF FramesInv
<1>3. Fault
  <2>1. taken < Len(sent)
    BY <1>1 DEF FramesInv, ReadInv
  <2> QED
    BY <1>2, <2>1, BlameInHand DEF Blamed
<1>4. CASE WebSocketError \/ OtherError
  BY <1>1, <1>3, <1>4, ErrorCloses
<1>5. payload \in Seq(Octet) /\ Len(payload) \in Nat
  BY LenProperties DEF FramesInv, TypeInv
<1>6. reason \in Seq(Octet)
  <2>1. \A i \in 3..Len(payload) : payload[i] \in Octet
    BY <1>5, ElementOfSeq
  <2> QED
    BY <1>5, <2>1, SubSeqProperties
<1>7. ASSUME NEW code \in Code, EndsWith(code),
             code = 1007 /\ validator = "wsaccel" => IllFormed(taken + 1)
      PROVE  Closing
  <2>1. torn' \in {torn, TRUE}
    BY <1>1
  <2>2. \E c \in Code : EndsWith(c) /\ (c = 1007 /\ validator = "wsaccel" => \E k \in 1..Len(sent) : IllFormed(k))
    BY <1>2, <1>7
  <2> QED
    BY <1>1, <1>3, <2>1, <2>2, Zenon DEF Closing
<1>8. CASE Close(1000, <<>>)
  <2>1. <<>> \in Seq(Octet) /\ 1000 \in Code
    BY EmptySeq, ErrorEnds
  <2>2. ASSUME NEW code, code = 1000
        PROVE  Closing
    <3>1. code \in Code /\ Close(code, <<>>) /\ code # 1007
      BY ONLY <1>8, <2>1, <2>2
    <3>2. EndsWith(code)
      BY ONLY <2>1, <3>1, CloseEnds, ZenonT(40)
    <3> QED
      BY ONLY <1>7, <3>1, <3>2
  <2> QED
    BY ONLY <2>2
<1>9. CASE CloseOutcome = "invalid" /\ UnicodeError
  <2>1. EndsWith(1007) /\ 1007 \in Code
    BY <1>9, ErrorEnds
  <2>2. Validate(validator, UTF8_ACCEPT, reason) = UTF8_REJECT
    BY <1>9 DEF CloseOutcome
  <2>3. validator = "wsaccel" => ~IsWellFormed(reason)
    <3>1. reason \in Seq(0..255)
      BY <1>6 DEF Octet
    <3>2. UTF8_REJECT # UTF8_ACCEPT
      BY DEF UTF8_REJECT, UTF8_ACCEPT
    <3> QED
      BY <2>2, <3>1, <3>2, ValidateOctets
  <2>4. validator = "wsaccel" => IllFormed(taken + 1)
    BY <1>2, <2>3, ZenonT(40) DEF IllFormed, CloseReason
  <2> QED
    BY ONLY <1>7, <2>1, <2>4
<1>10. CASE CloseOutcome = "echo" /\ Close(Unpack2(payload, 1), reason)
  <2> DEFINE code == Unpack2(payload, 1)
  <2>1. code \in Code
    BY <1>1, <1>10, EchoedCode
  <2>2. EndsWith(code)
    BY <1>6, <1>10, <2>1, CloseEnds
  <2>3. code = 1007 => IllFormed(taken + 1)
    BY <1>2, Zenon DEF IllFormed
  <2> HIDE DEF code
  <2> QED
    BY <1>7, <2>1, <2>2, <2>3
<1> QED
  BY <1>4, <1>8, <1>9, <1>10, ZenonT(40) DEF TakeClose

\* An unknown opcode closes by the client's fault.
LEMMA UnknownKind ==
  ASSUME FramesInv, ValidatorInv, TakeUnknown
  PROVE  Closing
<1>1. /\ at = "frame" /\ taken' = taken + 1 /\ torn' = torn /\ WebSocketError
      /\ UNCHANGED <<sent, validator, link, opcode, message, state>> /\ header.opcode \in 3..7 \cup 11..15
  BY DEF TakeUnknown, HasFrame
<1>2. /\ taken < Len(sent) /\ sent[taken + 1].frame.opcode = header.opcode
  BY <1>1 DEF FramesInv, ReadInv, HeaderOf
<1>3. IsUnlawful(taken + 1)
  BY <1>1, <1>2, Zenon DEF IsUnlawful
<1>4. Fault
  BY <1>2, <1>3, BlameInHand DEF Blamed
<1> QED
  BY <1>1, <1>4, ErrorCloses

\* A step is the client's, or closes, or takes a frame and goes on, or does neither.
LEMMA StepKinds ==
  ASSUME FramesInv, ValidatorInv, Next
  PROVE  (\E f \in Frame : ClientSends(f)) \/ Closing \/ Waiting \/ Taking
<1>1. CASE \E f \in Frame : ClientSends(f)
  BY <1>1
<1>2. CASE ConnectionEnds
  BY <1>2, EndsIsWaiting DEF FramesInv
<1>3. ASSUME NEW length \in Outgoing, SendMessage(length) PROVE Closing \/ Waiting
  BY <1>3, SendKind
<1>4. CASE ReadHeader
  BY <1>4, HeaderKind
<1>5. CASE PayloadFails
  BY <1>5, FailsKind
<1>6. CASE ReadPayload
  BY <1>6, PayloadKind
<1>7. CASE TakeFragment
  BY <1>7, FragmentKind
<1>8. CASE TakePing
  BY <1>8, PingKind
<1>9. CASE TakePong
  BY <1>9, PongKind
<1>10. CASE TakeClose
  BY <1>10, CloseKind
<1>11. CASE TakeUnknown
  BY <1>11, UnknownKind
<1> QED
  BY <1>1, <1>2, <1>3, <1>4, <1>5, <1>6, <1>7, <1>8, <1>9, <1>10, <1>11, Zenon DEF Next, Read

-----------------------------------------------------------------------------
(* The validator's invariant.                                              *)

\* Whether a frame is ill-formed follows from the frame and what comes before it.
LEMMA IllFormedKept ==
  ASSUME NEW k, DraftAt(k - 1)' = DraftAt(k - 1), sent'[k].frame = sent[k].frame
  PROVE  IllFormed(k)' <=> IllFormed(k)
<1>1. (IsIllFormedText(k)' <=> IsIllFormedText(k)) /\ (SplitsCharacter(k)' <=> SplitsCharacter(k))
  BY SameText
<1> QED
  BY <1>1, SMT DEF IllFormed, CloseReason

\* What was said of a frame stays said of it.
LEMMA SameBlame ==
  ASSUME sent' = sent, validator' = validator
  PROVE  \A i : /\ IsUnserved(i)' <=> IsUnserved(i)
                /\ Blamed(i)' <=> Blamed(i)
                /\ IllFormed(i)' <=> IllFormed(i)
<1>1. \A i : DraftAt(i)' = DraftAt(i)
  BY Zenon DEF DraftAt
<1>2. \A i : (IsTextFragment(i)' <=> IsTextFragment(i)) /\ (SplitsCharacter(i)' <=> SplitsCharacter(i))
  BY <1>1, SameText, Zenon
<1>3. \A i : IsUnlawful(i)' <=> IsUnlawful(i)
  BY SameSent
<1>4. \A i : IsUnserved(i)' <=> IsUnserved(i)
  BY <1>2, Zenon DEF IsUnserved
<1>5. \A i : Blamed(i)' <=> Blamed(i)
  BY <1>3, <1>4, Zenon DEF Blamed
<1>6. \A i : IllFormed(i)' <=> IllFormed(i)
  BY <1>1, IllFormedKept
<1> QED
  BY <1>4, <1>5, <1>6

\* A frame more changes nothing that was said of those before it.
LEMMA ClientBlame ==
  ASSUME TypeInv, NEW f \in Frame, ClientSends(f)
  PROVE  \A i \in 1..Len(sent) : /\ IsUnserved(i)' <=> IsUnserved(i)
                                 /\ Blamed(i)' <=> Blamed(i)
                                 /\ IllFormed(i)' <=> IllFormed(i)
<1> SUFFICES ASSUME NEW i \in 1..Len(sent)
             PROVE  /\ IsUnserved(i)' <=> IsUnserved(i)
                    /\ Blamed(i)' <=> Blamed(i)
                    /\ IllFormed(i)' <=> IllFormed(i)
  OBVIOUS
<1>1. Len(sent) \in Nat
  BY DraftIsTyped
<1>2. i - 1 \in 0..Len(sent)
  BY <1>1
<1>3. sent'[i] = sent[i] /\ DraftAt(i - 1)' = DraftAt(i - 1) /\ (IsUnlawful(i)' <=> IsUnlawful(i))
  BY <1>2, SentStep
<1>4. validator' = validator
  BY DEF ClientSends
<1>5. (IsTextFragment(i)' <=> IsTextFragment(i)) /\ (SplitsCharacter(i)' <=> SplitsCharacter(i))
  BY <1>3, SameText
<1>6. IsUnserved(i)' <=> IsUnserved(i)
  BY <1>3, <1>4, <1>5, Zenon DEF IsUnserved
<1>7. Blamed(i)' <=> Blamed(i)
  BY <1>3, <1>6, Zenon DEF Blamed
<1>8. IllFormed(i)' <=> IllFormed(i)
  BY <1>3, IllFormedKept
<1> QED
  BY <1>6, <1>7, <1>8

\* The validator's invariant holds at first.
LEMMA ValidatorInit == Init => ValidatorInv
<1> SUFFICES ASSUME Init PROVE ValidatorInv
  OBVIOUS
<1>1. opcode = 0 /\ message = <<>> /\ state = UTF8_ACCEPT /\ torn = FALSE /\ validator \in Validators
  BY DEF Init
<1>2. state \in State /\ opcode # OPCODE_TEXT
  BY <1>1 DEF State, UTF8_ACCEPT, UTF8_REJECT, OPCODE_TEXT
<1> QED
  BY <1>1, <1>2 DEF ValidatorInv

\* The validator is not touched.
LEMMA ValidatorSame ==
  ASSUME FramesInv, ValidatorInv, UNCHANGED <<validator, opcode, message, state>>, torn' \in BOOLEAN,
         taken' = taken \/ taken' = taken + 1, at' # "done" => at # "done",
         \A i \in 1..taken : IsUnserved(i)' <=> IsUnserved(i)
  PROVE  ValidatorInv'
<1>1. validator' \in Validators /\ torn' \in BOOLEAN /\ state' \in State /\ (opcode' = 0 => message' = <<>>)
  BY DEF ValidatorInv
<1>2. ASSUME opcode' = OPCODE_TEXT
      PROVE  /\ IsWellFormed(message')
             /\ Served(validator', message') => state' = UTF8_ACCEPT
             /\ at' # "done" /\ (\A i \in 1..taken' : ~IsUnserved(i)') => Served(validator', message')
  <2>1. /\ IsWellFormed(message) /\ (Served(validator, message) => state = UTF8_ACCEPT)
        /\ at # "done" /\ (\A i \in 1..taken : ~IsUnserved(i)) => Served(validator, message)
    BY <1>2 DEF ValidatorInv
  <2>2. \A i \in 1..taken : i \in 1..taken'
    <3>1. taken \in Nat
      BY DraftIsTyped DEF FramesInv, TypeInv
    <3> QED
      BY <3>1
  <2>3. validator' = validator /\ message' = message /\ state' = state
    OBVIOUS
  <2> QED
    BY <2>1, <2>2, <2>3, Zenon
<1> QED
  BY <1>1, <1>2, Zenon DEF ValidatorInv

\* A fragment more.
LEMMA ValidatorMore ==
  ASSUME FramesInv, ValidatorInv, HasFrame,
         header.opcode \in {OPCODE_CONTINUATION, OPCODE_TEXT, OPCODE_BINARY}, FragmentOutcome = "more",
         opcode' = MessageOpcode, message' = message \o payload,
         state' = Validate(validator, StateBefore, IF MessageOpcode = OPCODE_TEXT THEN payload ELSE <<>>)
  PROVE  ValidatorInv'
<1>1. /\ at = "frame" /\ taken' = taken + 1 /\ sent' = sent /\ validator' = validator /\ torn' = torn
  BY DEF HasFrame
<1>2. MessageOpcode # 0 /\ ~BeginsInside /\ (MessageOpcode = OPCODE_TEXT => IsWellFormed(payload))
  BY GoesOn
<1>3. StateBefore \in State /\ validator \in {"fallback", "wsaccel"} /\ payload \in Seq(Octet)
  BY FramesAssumption DEF FramesInv, TypeInv, StateBefore, ValidatorInv, State, UTF8_ACCEPT, UTF8_REJECT
<1>4. StateBefore \in 0..9 /\ payload \in Seq(0..255)
  BY <1>3 DEF State, Octet
<1>5. state' \in State
  <2>1. CASE MessageOpcode = OPCODE_TEXT
    <3>1. Validate(validator, StateBefore, payload) \in 0..9
      BY <1>4, ValidateType
    <3>2. Validate(validator, StateBefore, payload) \notin {OutOfTable, UTF8_REJECT}
      BY <2>1, Zenon DEF FragmentOutcome
    <3> QED
      BY <2>1, <3>1, <3>2 DEF State, OutOfTable
  <2>2. CASE MessageOpcode # OPCODE_TEXT
    BY <1>3, <1>4, <2>2, ValidateNothing
  <2> QED
    BY <2>1, <2>2
<1>6. ASSUME MessageOpcode = OPCODE_TEXT
      PROVE  /\ IsWellFormed(message')
             /\ Served(validator', message') => state' = UTF8_ACCEPT
             /\ (\A i \in 1..taken' : ~IsUnserved(i)') => Served(validator', message')
  <2>1. /\ IsTextFragment(taken + 1)
        /\ message \in Seq(Octet) /\ IsWellFormed(message) /\ payload = sent[taken + 1].frame.payload
        /\ Served(validator, message) => StateBefore = UTF8_ACCEPT
        /\ (\A i \in 1..taken : ~IsUnserved(i)) => Served(validator, message)
    BY <1>1, <1>2, <1>6, TextInHand
  <2>2. IsWellFormed(payload)
    BY <1>2, <1>6
  <2>3. IsWellFormed(message \o payload)
    <3>1. message \in Seq(0..255)
      BY <2>1 DEF Octet
    <3> QED
      BY <1>4, <2>1, <2>2, <3>1, WellFormedJoined
  <2>4. Served(validator, message \o payload) => Served(validator, message) /\ Served(validator, payload)
    <3>1. CASE validator = "wsaccel"
      BY <2>1, <2>2, <3>1 DEF Served
    <3>2. CASE validator # "wsaccel"
      BY <1>3, <2>1, <3>2, AsciiJoined DEF Served
    <3> QED
      BY <3>1, <3>2
  <2>5. Served(validator, message \o payload) => state' = UTF8_ACCEPT
    BY <1>3, <1>6, <2>1, <2>4, ServedIsAccepted
  <2>6. ~IsUnserved(taken + 1) => Served(validator, payload)
    BY <1>3, <2>1, <2>2, TextIsServed
  <2>7. ASSUME \A i \in 1..taken' : ~IsUnserved(i)'
        PROVE  Served(validator, message \o payload)
    <3>1. \A i \in 1..(taken + 1) : ~IsUnserved(i)
      BY <1>1, <2>7, SameBlame
    <3>2. taken \in Nat
      BY DraftIsTyped DEF FramesInv, TypeInv
    <3>3. taken + 1 \in 1..(taken + 1) /\ \A i \in 1..taken : i \in 1..(taken + 1)
      BY <3>2
    <3>4. Served(validator, message) /\ Served(validator, payload)
      BY <2>1, <2>6, <3>1, <3>3
    <3> QED
      BY <1>3, <2>1, <3>4, ServedJoined
  <2> QED
    BY <1>1, <2>3, <2>5, <2>7
<1>7. validator' \in Validators /\ torn' \in BOOLEAN /\ opcode' # 0
  BY <1>1, <1>2 DEF ValidatorInv
<1> QED
  BY <1>5, <1>6, <1>7, Zenon DEF ValidatorInv

\* Every step keeps the validator's invariant.
LEMMA ValidatorStep ==
  ASSUME FramesInv, ValidatorInv, [Next]_vars
  PROVE  ValidatorInv'
<1>1. TypeInv /\ taken \in Nat /\ Len(sent) \in Nat /\ \A i \in 1..taken : i \in 1..Len(sent)
  <2>1. TypeInv /\ taken \in 0..Len(sent) /\ Len(sent) \in Nat
    BY DraftIsTyped DEF FramesInv, TypeInv
  <2> QED
    BY <2>1
<1>2. ASSUME NEW f \in Frame, ClientSends(f)
      PROVE  ValidatorInv'
  <2>1. /\ UNCHANGED <<validator, opcode, message, state>> /\ torn' = torn /\ taken' = taken /\ at' = at
    BY <1>2 DEF ClientSends, readVars
  <2>2. \A i \in 1..taken : IsUnserved(i)' <=> IsUnserved(i)
    BY <1>1, <1>2, ClientBlame
  <2>3. torn' \in BOOLEAN
    BY <2>1 DEF ValidatorInv
  <2> QED
    BY <2>1, <2>2, <2>3, ValidatorSame
<1>3. CASE Closing
  <2>1. /\ UNCHANGED <<validator, opcode, message, state>> /\ sent' = sent /\ torn' \in {torn, TRUE}
        /\ taken' = taken \/ taken' = taken + 1
    BY <1>3, Zenon DEF Closing
  <2>2. torn' \in BOOLEAN
    BY <2>1 DEF ValidatorInv
  <2>3. at' = "done"
    BY <1>3, Zenon DEF Closing, EndsWith
  <2> QED
    BY <2>1, <2>2, <2>3, SameBlame, ValidatorSame
<1>4. CASE Waiting
  <2>1. /\ UNCHANGED <<validator, opcode, message, state>> /\ sent' = sent /\ torn' = torn /\ taken' = taken
        /\ at # "done"
    BY <1>4, Zenon DEF Waiting
  <2>2. torn' \in BOOLEAN
    BY <2>1 DEF ValidatorInv
  <2> QED
    BY <2>1, <2>2, SameBlame, ValidatorSame
<1>5. CASE Taking
  <2>1. /\ HasFrame /\ at = "frame" /\ sent' = sent /\ validator' = validator /\ torn' = torn
        /\ taken' = taken + 1
    BY <1>5 DEF Taking, HasFrame
  <2>2. torn' \in BOOLEAN
    BY <2>1 DEF ValidatorInv
  <2>3. CASE UNCHANGED <<opcode, message, state>>
    BY <2>1, <2>2, <2>3, SameBlame, ValidatorSame
  <2>4. CASE opcode' = 0 /\ message' = <<>> /\ state' = UTF8_ACCEPT
    <3>1. state' \in State /\ opcode' # OPCODE_TEXT
      BY <2>4 DEF State, UTF8_ACCEPT, UTF8_REJECT, OPCODE_TEXT
    <3>2. validator' \in Validators
      BY <2>1 DEF ValidatorInv
    <3> QED
      BY <2>2, <2>4, <3>1, <3>2 DEF ValidatorInv
  <2>5. CASE /\ header.opcode \in {OPCODE_CONTINUATION, OPCODE_TEXT, OPCODE_BINARY}
             /\ FragmentOutcome = "more"
             /\ opcode' = MessageOpcode /\ message' = message \o payload
             /\ state' = Validate(validator, StateBefore, IF MessageOpcode = OPCODE_TEXT THEN payload ELSE <<>>)
    BY <2>1, <2>5, ValidatorMore
  <2> QED
    BY <1>5, <2>3, <2>4, <2>5, Zenon DEF Taking
<1>6. CASE UNCHANGED vars
  <2>1. /\ UNCHANGED <<validator, opcode, message, state>> /\ sent' = sent /\ torn' = torn /\ taken' = taken
        /\ at' = at
    BY <1>6, Zenon DEF vars, readVars
  <2>2. torn' \in BOOLEAN
    BY <2>1 DEF ValidatorInv
  <2> QED
    BY <2>1, <2>2, SameBlame, ValidatorSame
<1> QED
  BY <1>2, <1>3, <1>4, <1>5, <1>6, StepKinds, Zenon

-----------------------------------------------------------------------------
(* Pings and pongs.                                                        *)

\* Pings are what frames carry, and so are pongs.
LEMMA PingsType ==
  ASSUME FramesInv
  PROVE  Pings \in Seq(Seq(Octet)) /\ Pongs \in Seq(Seq(Octet))
<1>1. taken \in Nat /\ \A i \in 1..taken : sent[i].frame.payload \in Seq(Octet)
  <2>1. taken \in 0..Len(sent) /\ Len(sent) \in Nat /\ \A i \in 1..Len(sent) : sent[i].frame \in Frame
    BY DraftIsTyped DEF FramesInv, TypeInv
  <2>2. taken \in Nat /\ \A i \in 1..taken : sent[i].frame \in Frame
    BY <2>1
  <2> QED
    BY <2>2, FrameFields
<1>2. Len(wire) \in Nat /\ \A i \in 1..Len(wire) : wire[i].payload \in Seq(Octet)
  <2>1. wire \in Seq(WireType)
    BY DEF FramesInv, WireInv
  <2>2. Len(wire) \in Nat /\ \A i \in 1..Len(wire) : wire[i] \in WireType
    BY <2>1, LenProperties, ElementOfSeq
  <2> QED
    BY <2>2 DEF WireType
<1> DEFINE P == {i \in 1..taken : sent[i].frame.opcode = OPCODE_PING}
           e == [i \in 1..taken |-> sent[i].frame.payload]
           Q == {i \in 1..Len(wire) : wire[i].opcode = OPCODE_PONG}
           f == [i \in 1..Len(wire) |-> wire[i].payload]
<1>3. SelectsFrom(P, e, taken, Seq(Octet))
  BY <1>1 DEF SelectsFrom
<1>4. SelectsFrom(Q, f, Len(wire), Seq(Octet))
  BY <1>2 DEF SelectsFrom
<1>5. Pings = Selected(P, e, taken) /\ Pongs = Selected(Q, f, Len(wire))
  BY DEF Pings, Pongs
<1> HIDE DEF P, e, Q, f
<1>6. Selected(P, e, taken) \in Seq(Seq(Octet))
  BY <1>1, <1>3, SelectedType
<1>7. Selected(Q, f, Len(wire)) \in Seq(Seq(Octet))
  BY <1>2, <1>4, SelectedType
<1> QED
  BY <1>5, <1>6, <1>7

\* The pings taken do not change while no frame is taken.
LEMMA PingsSame ==
  ASSUME FramesInv, taken' = taken, \A i \in 1..taken : sent'[i] = sent[i]
  PROVE  Pings' = Pings
<1>1. taken \in Nat
  BY DraftIsTyped DEF FramesInv, TypeInv
<1> DEFINE P == {i \in 1..taken : sent[i].frame.opcode = OPCODE_PING}
           e == [i \in 1..taken |-> sent[i].frame.payload]
           Q == {i \in 1..taken' : sent'[i].frame.opcode = OPCODE_PING}
           f == [i \in 1..taken' |-> sent'[i].frame.payload]
<1>2. SelectSame(P, e, Q, f, taken)
  BY DEF SelectSame
<1>3. Pings = Selected(P, e, taken) /\ Pings' = Selected(Q, f, taken')
  BY DEF Pings
<1> HIDE DEF P, e, Q, f
<1> QED
  BY <1>1, <1>2, <1>3, SelectedSame

\* A frame taken is one more if it is a ping.
LEMMA PingsMore ==
  ASSUME FramesInv, taken' = taken + 1, sent' = sent
  PROVE  Pings' = IF sent[taken + 1].frame.opcode = OPCODE_PING
                  THEN Append(Pings, sent[taken + 1].frame.payload) ELSE Pings
<1>1. taken \in Nat
  BY DraftIsTyped DEF FramesInv, TypeInv
<1> DEFINE P == {i \in 1..taken : sent[i].frame.opcode = OPCODE_PING}
           e == [i \in 1..taken |-> sent[i].frame.payload]
           Q == {i \in 1..(taken + 1) : sent[i].frame.opcode = OPCODE_PING}
           f == [i \in 1..(taken + 1) |-> sent[i].frame.payload]
<1>2. SelectSame(P, e, Q, f, taken)
  BY <1>1 DEF SelectSame
<1>3. Pings = Selected(P, e, taken) /\ Pings' = Selected(Q, f, taken + 1)
  BY DEF Pings
<1>4. /\ taken + 1 \in Q <=> sent[taken + 1].frame.opcode = OPCODE_PING
      /\ f[taken + 1] = sent[taken + 1].frame.payload
  BY <1>1
<1> HIDE DEF P, e, Q, f
<1>5. Selected(Q, f, taken + 1) = IF taken + 1 \in Q THEN Append(Selected(P, e, taken), f[taken + 1])
                                  ELSE Selected(P, e, taken)
  BY <1>1, <1>2, SelectedNext
<1> QED
  BY <1>3, <1>4, <1>5, Zenon

\* A frame sent comes last.
LEMMA FrameAppended ==
  ASSUME FramesInv, NEW w, wire' = Append(wire, w)
  PROVE  /\ Len(wire) \in Nat /\ Len(wire') = Len(wire) + 1 /\ wire'[Len(wire) + 1] = w
         /\ \A i \in 1..Len(wire) : wire'[i] = wire[i]
<1> DEFINE S == WireType \cup {w}
<1>1. wire \in Seq(S) /\ w \in S
  <2>1. wire \in Seq(WireType)
    BY DEF FramesInv, WireInv
  <2>2. Len(wire) \in Nat /\ \A i \in 1..Len(wire) : wire[i] \in S
    BY <2>1, LenProperties, ElementOfSeq
  <2>3. wire = [i \in 1..Len(wire) |-> wire[i]]
    BY <2>1, LenProperties
  <2> QED
    BY <2>2, <2>3
<1> HIDE DEF S
<1> QED
  BY <1>1, AppendProperties, LenProperties

\* A frame sent is a pong more if it is a pong.
LEMMA PongsMore ==
  ASSUME FramesInv, NEW w, wire' = Append(wire, w)
  PROVE  Pongs' = IF w.opcode = OPCODE_PONG THEN Append(Pongs, w.payload) ELSE Pongs
<1> DEFINE n == Len(wire)
<1>1. n \in Nat /\ Len(wire') = n + 1 /\ wire'[n + 1] = w /\ \A i \in 1..n : wire'[i] = wire[i]
  BY FrameAppended
<1> DEFINE P == {i \in 1..n : wire[i].opcode = OPCODE_PONG}
           e == [i \in 1..n |-> wire[i].payload]
           Q == {i \in 1..Len(wire') : wire'[i].opcode = OPCODE_PONG}
           f == [i \in 1..Len(wire') |-> wire'[i].payload]
<1>2. Pongs = Selected(P, e, n) /\ Pongs' = Selected(Q, f, Len(wire'))
  BY DEF Pongs
<1> HIDE DEF n
<1>3. SelectSame(P, e, Q, f, n)
  BY <1>1 DEF SelectSame
<1>4. (n + 1 \in Q <=> w.opcode = OPCODE_PONG) /\ f[n + 1] = w.payload
  BY <1>1
<1> HIDE DEF P, e, Q, f
<1>5. Selected(Q, f, n + 1) = IF n + 1 \in Q THEN Append(Selected(P, e, n), f[n + 1]) ELSE Selected(P, e, n)
  BY <1>1, <1>3, SelectedNext
<1> QED
  BY <1>1, <1>2, <1>4, <1>5, Zenon

\* Frames that are no pongs answer nothing.
LEMMA PongsSame ==
  ASSUME FramesInv, wire' = wire \/ \E w : wire' = Append(wire, w) /\ w.opcode # OPCODE_PONG
  PROVE  Pongs' = Pongs
<1>1. CASE wire' = wire
  BY <1>1, Zenon DEF Pongs
<1>2. ASSUME NEW w, wire' = Append(wire, w), w.opcode # OPCODE_PONG
      PROVE  Pongs' = Pongs
  BY <1>2, PongsMore
<1> QED
  BY <1>1, <1>2

\* Every step keeps the pongs in the order of the pings.
LEMMA PongsStep ==
  ASSUME FramesInv, ValidatorInv, PongsInOrder, [Next]_vars
  PROVE  PongsInOrder'
<1>1. Pings \in Seq(Seq(Octet)) /\ Pongs \in Seq(Seq(Octet)) /\ IsPrefixOf(Pongs, Pings)
  BY PingsType DEF PongsInOrder
<1>2. ASSUME Pings' = Pings, Pongs' = Pongs, closed' = closed
      PROVE  PongsInOrder'
  BY <1>2, Zenon DEF PongsInOrder, IsPrefixOf
<1>3. taken \in 0..Len(sent) /\ Len(sent) \in Nat
  BY DraftIsTyped DEF FramesInv, TypeInv
<1>4. ASSUME NEW f \in Frame, ClientSends(f)
      PROVE  PongsInOrder'
  <2>1. taken' = taken /\ wire' = wire /\ closed' = closed
    BY <1>4 DEF ClientSends
  <2>2. \A i \in 1..taken : sent'[i] = sent[i]
    <3>1. \A i \in 1..Len(sent) : sent'[i] = sent[i]
      BY <1>4, SentStep DEF FramesInv
    <3> QED
      BY <1>3, <3>1
  <2> QED
    BY <1>2, <2>1, <2>2, PingsSame, PongsSame
<1>5. CASE Closing
  <2>1. sent' = sent /\ (taken' = taken \/ (at = "frame" /\ taken' = taken + 1)) /\ closed' = TRUE
    BY <1>5, Zenon DEF Closing, EndsWith
  <2>2. wire' = wire \/ \E w : wire' = Append(wire, w) /\ w.opcode = OPCODE_CLOSE
    BY <1>5, Zenon DEF Closing, EndsWith
  <2>3. Pongs' = Pongs
    BY <2>2, PongsSame DEF OPCODE_CLOSE, OPCODE_PONG
  <2>4. IsPrefixOf(Pongs, Pings')
    <3>1. CASE taken' = taken
      BY <1>1, <2>1, <3>1, PingsSame
    <3>2. CASE at = "frame" /\ taken' = taken + 1
      <4>1. taken + 1 \in 1..Len(sent)
        BY <1>3, <3>2 DEF FramesInv, ReadInv
      <4>2. sent[taken + 1].frame.payload \in Seq(Octet)
        BY <4>1, DraftIsTyped, FrameFields DEF FramesInv
      <4>3. /\ IsPrefixOf(Pings, Append(Pings, sent[taken + 1].frame.payload))
            /\ Append(Pings, sent[taken + 1].frame.payload) \in Seq(Seq(Octet))
        BY <1>1, <4>2, PrefixOfAppend
      <4>4. IsPrefixOf(Pongs, Append(Pings, sent[taken + 1].frame.payload))
        BY <1>1, <4>3, PrefixIsTransitive
      <4> QED
        BY <1>1, <2>1, <3>2, <4>4, PingsMore
    <3> QED
      BY <2>1, <3>1, <3>2
  <2> QED
    BY <2>1, <2>3, <2>4, Zenon DEF PongsInOrder, IsPrefixOf
<1>6. CASE Waiting
  <2>1. sent' = sent /\ taken' = taken /\ closed' = closed
    BY <1>6, Zenon DEF Waiting
  <2>2. wire' = wire \/ \E w : wire' = Append(wire, w) /\ w.opcode = OPCODE_TEXT
    BY <1>6, Zenon DEF Waiting
  <2>3. Pongs' = Pongs
    BY <2>2, PongsSame DEF OPCODE_TEXT, OPCODE_PONG
  <2> QED
    BY <1>2, <2>1, <2>3, PingsSame
<1>7. CASE Taking
  <2>1. at = "frame" /\ taken' = taken + 1 /\ sent' = sent /\ closed' = closed
    BY <1>7 DEF Taking, HasFrame
  <2>2. /\ taken + 1 \in 1..Len(sent)
        /\ sent[taken + 1].frame.opcode = header.opcode /\ sent[taken + 1].frame.payload = payload
    BY <1>3, <2>1 DEF FramesInv, ReadInv, HeaderOf
  <2>3. CASE header.opcode # OPCODE_PING /\ wire' = wire
    BY <1>2, <2>1, <2>2, <2>3, PingsMore, PongsSame
  <2>4. CASE header.opcode = OPCODE_PING /\ SendFrame(OPCODE_PONG, Len(payload), payload)
    <3>1. Pings' = Append(Pings, payload)
      BY <2>1, <2>2, <2>4, PingsMore
    <3>2. Pongs' = Append(Pongs, payload)
      <4> DEFINE w == [octets |-> EncodeHeader(TRUE, OPCODE_PONG, <<>>, Len(payload), 0),
                       opcode |-> OPCODE_PONG, length |-> Len(payload), payload |-> payload]
      <4>1. wire' = Append(wire, w)
        BY <2>4 DEF SendFrame
      <4>2. w.opcode = OPCODE_PONG /\ w.payload = payload
        OBVIOUS
      <4> HIDE DEF w
      <4> QED
        BY <4>1, <4>2, PongsMore
    <3>3. Pongs = Pings
      <4>1. closed = FALSE
        BY <2>1 DEF FramesInv, ClosedInv
      <4> QED
        BY <4>1, Zenon DEF PongsInOrder
    <3>4. payload \in Seq(Octet)
      BY DEF FramesInv, TypeInv
    <3>5. Append(Pings, payload) \in Seq(Seq(Octet))
      BY <1>1, <3>4, AppendProperties
    <3>6. IsPrefixOf(Append(Pings, payload), Append(Pings, payload))
      BY <3>5, PrefixOfItself
    <3> QED
      BY <3>1, <3>2, <3>3, <3>6, Zenon DEF PongsInOrder, IsPrefixOf
  <2> QED
    BY <1>7, <2>3, <2>4, Zenon DEF Taking
<1>8. CASE UNCHANGED vars
  <2>1. sent' = sent /\ taken' = taken /\ wire' = wire /\ closed' = closed
    BY <1>8, Zenon DEF vars, readVars
  <2> QED
    BY <1>2, <2>1, PingsSame, PongsSame
<1> QED
  BY <1>4, <1>5, <1>6, <1>7, <1>8, StepKinds, Zenon

-----------------------------------------------------------------------------
(* What closes the websocket, and what it says.                            *)

\* Every step keeps the reason for which the websocket is closed.
LEMMA ServedStep ==
  ASSUME FramesInv, ValidatorInv, LawfulClientServed, [Next]_vars
  PROVE  LawfulClientServed'
<1>1. ASSUME at # "done", closed' = closed
      PROVE  LawfulClientServed'
  <2>1. closed' = FALSE
    BY <1>1 DEF FramesInv, ClosedInv
  <2> QED
    BY <2>1, Zenon DEF LawfulClientServed
<1>2. ASSUME NEW f \in Frame, ClientSends(f)
      PROVE  LawfulClientServed'
  BY <1>1, <1>2 DEF ClientSends
<1>3. CASE Closing
  <2>1. /\ sent' = sent /\ validator' = validator /\ link' = link
        /\ taken' = taken \/ taken' = taken + 1
        /\ Fault
    BY <1>3, Zenon DEF Closing
  <2>2. taken \in Nat
    BY DraftIsTyped DEF FramesInv, TypeInv
  <2>3. ASSUME NEW i \in 1..Len(sent), i <= taken + 1, Blamed(i)
        PROVE  i \in 1..Len(sent') /\ i <= taken' + 1 /\ Blamed(i)'
    <3>1. Blamed(i)'
      BY <2>1, <2>3, SameBlame
    <3> QED
      BY <2>1, <2>2, <2>3, <3>1
  <2>4. \/ link' # "up" \/ torn' = TRUE
        \/ \E i \in 1..Len(sent') : i <= taken' + 1 /\ Blamed(i)'
    BY <2>1, <2>3, Zenon DEF Fault
  <2> QED
    BY <2>4, Zenon DEF LawfulClientServed, Blamed
<1>4. CASE Waiting
  <2>1. at # "done" /\ closed' = closed
    BY <1>4, Zenon DEF Waiting
  <2> QED
    BY <1>1, <2>1
<1>5. CASE Taking
  <2>1. at # "done" /\ closed' = closed
    BY <1>5 DEF Taking, HasFrame
  <2> QED
    BY <1>1, <2>1
<1>6. CASE UNCHANGED vars
  <2>1. /\ sent' = sent /\ validator' = validator /\ link' = link /\ torn' = torn
        /\ taken' = taken /\ closed' = closed
    BY <1>6, Zenon DEF vars
  <2>2. \A i : Blamed(i)' <=> Blamed(i)
    BY <2>1, SameBlame
  <2>3. closed => \/ link # "up" \/ torn
                  \/ \E i \in 1..Len(sent) : i <= taken + 1 /\ Blamed(i)
    BY Zenon DEF LawfulClientServed, Blamed
  <2>4. closed' => \/ link' # "up" \/ torn'
                   \/ \E i \in 1..Len(sent') : i <= taken' + 1 /\ Blamed(i)'
    BY <2>1, <2>2, <2>3, Zenon
  <2> QED
    BY <2>4, Zenon DEF LawfulClientServed, Blamed
<1> QED
  BY <1>2, <1>3, <1>4, <1>5, <1>6, StepKinds, Zenon

\* A close frame says that what the client sent was not UTF-8.
Refused(i) == wire[i].opcode = OPCODE_CLOSE /\ Unpack2(wire[i].payload, 1) = 1007

\* The property in these words.
RefusalExplained ==
  validator = "wsaccel" => \A i \in 1..Len(wire) : Refused(i) => \E k \in 1..Len(sent) : IllFormed(k)

\* The two ways of saying it agree.
LEMMA RefusedIsIllFormed == WsaccelRefusalHasReason <=> RefusalExplained
  BY Zenon DEF WsaccelRefusalHasReason, RefusalHasReason, RefusalExplained, Refused, IllFormed

\* The frames sent, and one more.
LEMMA RefusedNext ==
  ASSUME FramesInv, NEW w, wire' = Append(wire, w)
  PROVE  \A i \in 1..Len(wire') :
           Refused(i)' => \/ i \in 1..Len(wire) /\ Refused(i)
                          \/ w.opcode = OPCODE_CLOSE /\ Unpack2(w.payload, 1) = 1007
<1> DEFINE n == Len(wire)
<1>1. n \in Nat /\ Len(wire') = n + 1 /\ wire'[n + 1] = w /\ \A i \in 1..n : wire'[i] = wire[i]
  BY FrameAppended
<1> HIDE DEF n
<1>2. ASSUME NEW i \in 1..n, Refused(i)'
      PROVE  Refused(i)
  <2>1. wire'[i] = wire[i]
    BY <1>1
  <2> QED
    BY <1>2, <2>1 DEF Refused
<1>3. ASSUME NEW i, i = n + 1, Refused(i)'
      PROVE  w.opcode = OPCODE_CLOSE /\ Unpack2(w.payload, 1) = 1007
  BY <1>1, <1>3 DEF Refused
<1>4. \A i \in 1..Len(wire') : i \in 1..n \/ i = n + 1
  BY <1>1
<1> QED
  BY <1>2, <1>3, <1>4 DEF n

\* Every step keeps what the close frame with code 1007 is about.
LEMMA RefusedStep ==
  ASSUME FramesInv, ValidatorInv, RefusalExplained, [Next]_vars
  PROVE  RefusalExplained'
<1> DEFINE Known == \E k \in 1..Len(sent) : IllFormed(k)
<1>1. validator' = validator /\ (Known => Known')
  <2>1. ASSUME NEW f \in Frame, ClientSends(f)
        PROVE  validator' = validator /\ (Known => Known')
    <3>1. \A k \in 1..Len(sent) : IllFormed(k)' <=> IllFormed(k)
      BY <2>1, ClientBlame DEF FramesInv
    <3>2. \A k \in 1..Len(sent) : k \in 1..Len(sent')
      <4>1. Len(sent') = Len(sent) + 1 /\ Len(sent) \in Nat
        BY <2>1, SentStep, DraftIsTyped DEF FramesInv
      <4> QED
        BY <4>1
    <3>3. validator' = validator
      BY <2>1 DEF ClientSends
    <3> QED
      BY <3>1, <3>2, <3>3, Zenon
  <2>2. ASSUME sent' = sent, validator' = validator
        PROVE  validator' = validator /\ (Known => Known')
    <3>1. \A k : IllFormed(k)' <=> IllFormed(k)
      BY <2>2, SameBlame
    <3> QED
      BY <2>2, <3>1, Zenon
  <2>3. Closing \/ Waiting \/ Taking \/ UNCHANGED vars => sent' = sent /\ validator' = validator
    BY Zenon DEF Closing, Waiting, Taking, HasFrame, vars
  <2> QED
    BY <2>1, <2>2, <2>3, StepKinds, Zenon
<1>2. validator = "wsaccel" => \A i \in 1..Len(wire) : Refused(i) => Known
  BY Zenon DEF RefusalExplained
<1> SUFFICES ASSUME validator = "wsaccel", NEW i \in 1..Len(wire'), Refused(i)' PROVE Known'
  BY <1>1, Zenon DEF RefusalExplained
<1> HIDE DEF Known
<1>3. CASE wire' = wire
  <2>1. i \in 1..Len(wire) /\ Refused(i)
    BY <1>3, ZenonT(40) DEF Refused
  <2> QED
    BY <1>1, <1>2, <2>1
<1>4. ASSUME NEW w, wire' = Append(wire, w), w.opcode = OPCODE_CLOSE /\ Unpack2(w.payload, 1) = 1007 => Known
      PROVE  Known'
  BY <1>1, <1>2, <1>4, RefusedNext
<1>5. ASSUME NEW f \in Frame, ClientSends(f)
      PROVE  wire' = wire
  BY <1>5 DEF ClientSends
<1>6. CASE Closing
  <2>1. PICK code \in Code : EndsWith(code) /\ (code = 1007 => Known)
    BY <1>6, ZenonT(40) DEF Closing, Known
  <2>2. ASSUME NEW w, wire' = Append(wire, w), Unpack2(w.payload, 1) = code
        PROVE  Known'
    <3>1. Unpack2(w.payload, 1) = 1007 => Known
      BY ONLY <2>1, <2>2
    <3> QED
      BY <1>4, <2>2, <3>1
  <2> QED
    BY <1>3, <2>1, <2>2, Zenon DEF EndsWith
<1>7. CASE Waiting
  <2>1. wire' = wire \/ \E w : wire' = Append(wire, w) /\ w.opcode = OPCODE_TEXT
    BY <1>7, Zenon DEF Waiting
  <2>2. ASSUME NEW w, wire' = Append(wire, w), w.opcode = OPCODE_TEXT
        PROVE  Known'
    <3>1. w.opcode # OPCODE_CLOSE
      BY ONLY <2>2 DEF OPCODE_TEXT, OPCODE_CLOSE
    <3> QED
      BY <1>4, <2>2, <3>1
  <2> QED
    BY <1>3, <2>1, <2>2
<1>8. CASE Taking
  <2>1. wire' = wire \/ SendFrame(OPCODE_PONG, Len(payload), payload)
    BY <1>8, Zenon DEF Taking
  <2> QED
    BY <1>3, <1>4, <2>1 DEF SendFrame, OPCODE_PONG, OPCODE_CLOSE
<1>9. CASE UNCHANGED vars
  BY <1>3, <1>9, Zenon DEF vars
<1> QED
  BY <1>3, <1>5, <1>6, <1>7, <1>8, <1>9, StepKinds, Zenon

-----------------------------------------------------------------------------
(* The properties that need the validator's invariant.                     *)

\* The validator is between two characters whenever the text so far is one it can take, and
\* every fragment of it is UTF-8 (read_message, Utf8Validator.validate).
THEOREM ValidatorInvHolds == Spec => [](FramesInv /\ ValidatorInv)
  BY InitFrames, FramesInvStep, ValidatorInit, ValidatorStep, PTL DEF Spec

\* Every variable has its type; a payload is read only behind a header without reserved
\* bits, and of a control frame only if it is whole and short (read_frame, decode_header).
THEOREM TypeOKHolds == Spec => []TypeOK
<1>1. FramesInv /\ ValidatorInv => TypeOK
  <2> SUFFICES ASSUME FramesInv, ValidatorInv PROVE TypeOK
    OBVIOUS
  <2>1. closed = (at = "done")
    BY DEF FramesInv, ClosedInv
  <2>2. wire \in Seq([octets : Seq(Octet), opcode : {OPCODE_TEXT, OPCODE_CLOSE, OPCODE_PONG},
                      length : Nat, payload : Seq(Octet)])
    BY DEF FramesInv, WireInv, WireType
  <2>3. validator \in Validators /\ torn \in BOOLEAN /\ state \in 0..8 \ {UTF8_REJECT}
    BY DEF ValidatorInv, State
  <2> QED
    BY <2>1, <2>2, <2>3, Zenon DEF TypeOK, FramesInv, TypeInv, SentType, DraftType, Content
<1> QED
  BY <1>1, ValidatorInvHolds, PTL

\* Each ping taken is answered by a pong with its payload, in the order of the pings, but
\* for the one that closed the websocket (handle_ping): between the fragments of a message
\* and among the messages the server sends.
THEOREM PongsInOrderHolds == Spec => []PongsInOrder
<1>1. Init => PongsInOrder
  <2> SUFFICES ASSUME Init PROVE PongsInOrder
    OBVIOUS
  <2>1. taken = 0 /\ Len(wire) = 0
    BY EmptySeq DEF Init
  <2>2. Pings = <<>> /\ Pongs = <<>>
    BY <2>1, SelectedOfNothing DEF Pings, Pongs
  <2>3. IsPrefixOf(<<>>, <<>>)
    BY EmptySeq, PrefixOfItself
  <2> QED
    BY <2>2, <2>3 DEF PongsInOrder
<1> QED
  BY <1>1, PongsStep, ValidatorInvHolds, PTL DEF Spec

\* The websocket closes only if the client closes it or breaks the protocol, if the
\* connection ends, if recv tears a frame, or for one of the five lawful things that the
\* code does not serve, among them a character split over two fragments (receive,
\* read_message, read_frame, handle_close): for nothing else that the client or the server
\* may do.
THEOREM LawfulClientServedHolds == Spec => []LawfulClientServed
<1>1. Init => LawfulClientServed
  BY DEF Init, LawfulClientServed
<1> QED
  BY <1>1, ServedStep, ValidatorInvHolds, PTL DEF Spec

\* With the validator of wsaccel, a websocket that was closed with code 1007 was sent a text
\* that cannot be UTF-8 as a whole, a text with a character split over two fragments (which
\* the protocol allows), a close reason that is not UTF-8, or a close frame with that code
\* (read_message, handle_close).
THEOREM WsaccelRefusalHasReasonHolds == Spec => []WsaccelRefusalHasReason
<1>1. Init => RefusalExplained
  <2>1. Init => 1..Len(wire) = {}
    BY EmptySeq DEF Init
  <2> QED
    BY <2>1, Zenon DEF RefusalExplained
<1> QED
  BY <1>1, RefusedStep, RefusedIsIllFormed, ValidatorInvHolds, PTL DEF Spec
=============================================================================
