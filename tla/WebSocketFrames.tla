-------------------------- MODULE WebSocketFrames --------------------------
(***************************************************************************)
(* websocket.py under runserver: one WebSocket reads the frames its client *)
(* sends, answers pings, puts fragments together, and returns the messages *)
(* to the loop of the server, which itself sends messages between two      *)
(* calls of receive.  The client may send any sequence of frames; the      *)
(* network may deliver a frame in pieces, end, or fail.  Python 3.         *)
(***************************************************************************)
EXTENDS HeaderCodec, Utf8Validator, FiniteSets

CONSTANTS
  Frame,       \* what clients send: [fin, opcode, flags, mask, short, length, payload]
  Validators,  \* the implementations of Utf8Validator that may be installed
  Outgoing,    \* the lengths of the messages the server sends
  MaxRecv,     \* the longest payload recv can allocate memory for
  MaxFrames,   \* bound on the frames of the client
  MaxUnread,   \* bound on the frames under way
  MaxSends     \* bound on the messages the server sends

ASSUME FramesAssumption ==
  /\ \A f \in Frame :
       /\ f = [fin |-> f.fin, opcode |-> f.opcode, flags |-> f.flags, mask |-> f.mask,
               short |-> f.short, length |-> f.length, payload |-> f.payload]
       /\ f.fin \in BOOLEAN /\ f.opcode \in 0..15 /\ f.flags \in Flags
       /\ f.mask \in Mask /\ f.payload \in Seq(Octet)
       /\ f.length = Len(f.payload) \/ (f.length \in Nat /\ f.length > MaxRecv)
       /\ Tells(f.short, f.length)
       /\ ((f.length \div 65536) \div 65536) \div 65536 < 65536
  /\ Validators \subseteq {"fallback", "wsaccel"}
  /\ \A length \in Outgoing :
       length \in Nat /\ ((length \div 65536) \div 65536) \div 65536 < 65536
  /\ MaxRecv \in Nat /\ MaxFrames \in Nat /\ MaxUnread \in Nat /\ MaxSends \in Nat

VARIABLES
  validator,  \* the implementation in use
  sent,       \* the frames sent, and what the client has said up to each
  taken,      \* how many of them were read
  link,       \* the connection: up, ended by the client, or reset
  torn,       \* history: whether a recv returned less than it was asked for
  at,         \* idle (outside receive), header or payload (to be read), frame (to be
              \* handled), done
  header,     \* the header and the payload of the frame in hand
  payload,
  opcode,     \* read_message: the opcode of the message begun; 0 for None
  message,    \* its payload so far
  state,      \* the state of utf8validator
  received,   \* what receive returned
  closed,     \* _closed
  wire        \* the frames the server sent

readVars == <<header, payload, opcode, message, state>>
vars == <<validator, sent, taken, link, torn, at, readVars, received, closed, wire>>

NoHeader == DecodeHeader(<<0, 0>>)

OPCODE_CONTINUATION == 0
OPCODE_TEXT == 1
OPCODE_BINARY == 2
OPCODE_CLOSE == 8
OPCODE_PING == 9
OPCODE_PONG == 10

-----------------------------------------------------------------------------
(* What the client means by its frames.                                    *)

\* The message begun, and those completed.
Draft0 == [kind |-> 0, octets |-> <<>>, completed |-> <<>>]

\* Whether a frame may follow: fragments continue a message, others begin one.
Fits(draft, f) ==
  \/ f.opcode \in {OPCODE_TEXT, OPCODE_BINARY} /\ draft.kind = 0
  \/ f.opcode = OPCODE_CONTINUATION /\ draft.kind # 0

Extended(draft, f) ==
  LET kind == IF draft.kind = 0 THEN f.opcode ELSE draft.kind
      octets == draft.octets \o f.payload
  IN  IF ~Fits(draft, f) THEN draft
      ELSE IF f.fin
           THEN [kind |-> 0, octets |-> <<>>,
                 completed |-> Append(draft.completed, [kind |-> kind, octets |-> octets])]
           ELSE [kind |-> kind, octets |-> octets, completed |-> draft.completed]

DraftAt(i) == IF i = 0 THEN Draft0 ELSE sent[i].draft
Draft == DraftAt(Len(sent))

ClientSends(f) ==
  /\ link = "up" /\ at # "done"
  /\ Len(sent) < MaxFrames /\ Len(sent) - taken < MaxUnread
  /\ sent # <<>> => sent[Len(sent)].frame.opcode # OPCODE_CLOSE
  /\ sent' = Append(sent, [frame |-> f, draft |-> Extended(Draft, f)])
  /\ UNCHANGED <<validator, taken, link, torn, at, readVars, received, closed, wire>>

ConnectionEnds ==
  /\ at # "done"
  /\ link' \in IF link = "up" THEN {"ended", "reset"} ELSE IF link = "ended" THEN {"reset"} ELSE {}
  /\ UNCHANGED <<validator, sent, taken, torn, at, readVars, received, closed, wire>>

-----------------------------------------------------------------------------
(* Sending.                                                                *)

Init ==
  /\ validator \in Validators
  /\ sent = <<>> /\ taken = 0 /\ link = "up" /\ torn = FALSE
  /\ at = "idle"
  /\ header = NoHeader /\ payload = <<>> /\ opcode = 0 /\ message = <<>> /\ state = UTF8_ACCEPT
  /\ received = <<>> /\ closed = FALSE /\ wire = <<>>

\* send_frame on a socket that works: content is <<>> for the server's own messages.
SendFrame(op, length, content) ==
  wire' = Append(wire, [octets |-> EncodeHeader(TRUE, op, <<>>, length, 0),
                        opcode |-> op, length |-> length, payload |-> content])

\* close, on the way out of the loop of the server.
Close(code, reason) ==
  /\ closed' = TRUE
  /\ at' = "done"
  /\ IF link = "reset" THEN UNCHANGED wire
     ELSE SendFrame(OPCODE_CLOSE, 2 + Len(reason), Pack2(code) \o reason)

\* Ways out of read_message: the first two are caught by receive, which closes; any
\* other exception is caught by the server, which closes as it does whenever it ends (the
\* reason 'Websocket Closed' is left out).
UnicodeError == Close(1007, <<>>)
WebSocketError == Close(1002, <<>>)
OtherError == Close(1001, <<>>)

\* The loop of the server sends a message; a socket that fails ends it.
SendMessage(length) ==
  /\ at = "idle"
  /\ Cardinality({i \in 1..Len(wire) : wire[i].opcode = OPCODE_TEXT}) < MaxSends
  /\ IF link = "reset" THEN OtherError
     ELSE SendFrame(OPCODE_TEXT, length, <<>>) /\ UNCHANGED <<closed, at>>
  /\ UNCHANGED <<validator, sent, taken, link, torn, readVars, received>>

-----------------------------------------------------------------------------
(* Receiving: read_frame.                                                  *)

\* receive is called when there is something to read, and read_message goes on from
\* frame to frame.  A reset throws away what was not read.
ReadHeader ==
  /\ at \in {"idle", "header"}
  /\ \/ link = "reset" /\ OtherError /\ UNCHANGED <<torn, header>>
     \/ link = "ended" /\ taken = Len(sent) /\ WebSocketError /\ UNCHANGED <<torn, header>>
     \/ /\ link # "reset" /\ taken < Len(sent)
        /\ LET f == sent[taken + 1].frame
               h == DecodeHeader(Octets(f.fin, f.opcode, f.mask, f.length, f.flags, f.short))
           IN  \/ IsRefused(f.short, h) /\ WebSocketError /\ UNCHANGED <<torn, header>>
               \/ ~IsRefused(f.short, h) /\ header' = h /\ at' = "payload" /\ UNCHANGED <<torn, closed, wire>>
               \/ torn' = TRUE /\ WebSocketError /\ UNCHANGED header
  /\ UNCHANGED <<validator, sent, taken, link, payload, opcode, message, state, received>>

\* A payload that does not come whole: recv fails, or returns less.  One too long for
\* recv is worse, because line 140 names a variable that does not exist.
PayloadFails ==
  /\ at = "payload" /\ header.length > 0
  /\ \/ header.length > MaxRecv /\ OtherError /\ UNCHANGED torn
     \/ link = "reset" /\ WebSocketError /\ UNCHANGED torn
     \/ header.length > 1 /\ torn' = TRUE /\ WebSocketError
  /\ UNCHANGED <<validator, sent, taken, link, readVars, received>>

\* The whole payload, which the client masked, is read, if there is one; an empty payload
\* is the string '', not octets.
ReadPayload ==
  /\ at = "payload"
  /\ header.length > 0 => header.length <= MaxRecv /\ link # "reset"
  /\ at' = "frame"
  /\ LET f == sent[taken + 1].frame
     IN  payload' = MaskPayload(MaskPayload(f.payload, f.mask), header.mask)
  /\ UNCHANGED <<validator, sent, taken, link, torn, header, opcode, message, state, received, closed, wire>>

-----------------------------------------------------------------------------
(* Receiving: read_message.                                                *)

\* Mutant of BeginsInside: a message may begin inside another.
BeginsNever == FALSE

\* A new message before the last fragment of the one begun.
BeginsInside == header.opcode # OPCODE_CONTINUATION /\ opcode # 0

\* Mutant of MessageOpcode: that of the frame.
FrameOpcode == header.opcode

\* The opcode of the message that this fragment belongs to, and the validator's state
\* before it, which a new message resets.
MessageOpcode == IF header.opcode = OPCODE_CONTINUATION THEN opcode ELSE header.opcode
StateBefore == IF header.opcode = OPCODE_CONTINUATION THEN state ELSE UTF8_ACCEPT

\* read_frame has returned.
HasFrame ==
  /\ at = "frame"
  /\ taken' = taken + 1
  /\ header' = NoHeader /\ payload' = <<>>
  /\ UNCHANGED <<validator, sent, link, torn>>

\* What happens to a fragment.  Fragments of texts are validated and decoded one by one,
\* and the whole text is validated again, from the state the fragments left.
FragmentOutcome ==
  LET text == MessageOpcode = OPCODE_TEXT
      after == Validate(validator, StateBefore, payload)
      end == Validate(validator, after, message \o payload)
  IN  IF MessageOpcode = 0 \/ BeginsInside THEN "protocol"
      ELSE IF payload = <<>> THEN "failure"
      ELSE IF text /\ after = OutOfTable THEN "failure"
      ELSE IF text /\ (after = UTF8_REJECT \/ ~IsWellFormed(payload)) THEN "invalid"
      ELSE IF ~header.fin THEN "more"
      ELSE IF text /\ end = OutOfTable THEN "failure"
      ELSE IF text /\ end = UTF8_REJECT THEN "invalid"
      ELSE "whole"

TakeFragment ==
  /\ HasFrame
  /\ header.opcode \in {OPCODE_CONTINUATION, OPCODE_TEXT, OPCODE_BINARY}
  /\ \/ /\ \/ FragmentOutcome = "protocol" /\ WebSocketError
           \/ FragmentOutcome = "failure" /\ OtherError
           \/ FragmentOutcome = "invalid" /\ UnicodeError
        /\ UNCHANGED <<opcode, message, state, received>>
     \/ /\ FragmentOutcome = "more"
        /\ at' = "header"
        /\ opcode' = MessageOpcode
        /\ message' = message \o payload
        /\ state' = Validate(validator, StateBefore, IF MessageOpcode = OPCODE_TEXT THEN payload ELSE <<>>)
        /\ UNCHANGED <<received, closed, wire>>
     \/ /\ FragmentOutcome = "whole"
        /\ received' = Append(received, [kind |-> MessageOpcode, octets |-> message \o payload])
        /\ at' = "idle" /\ opcode' = 0 /\ message' = <<>> /\ state' = UTF8_ACCEPT
        /\ UNCHANGED <<closed, wire>>

\* Mutant of TakePing: no answer while a message is under way.
TakePingBetween ==
  /\ HasFrame
  /\ header.opcode = OPCODE_PING
  /\ \/ payload = <<>> /\ OtherError
     \/ payload # <<>> /\ link = "reset" /\ WebSocketError
     \/ /\ payload # <<>> /\ link # "reset"
        /\ IF opcode # 0 THEN UNCHANGED wire
           ELSE SendFrame(OPCODE_PONG, Len(payload), payload)
        /\ at' = "header" /\ UNCHANGED closed
  /\ UNCHANGED <<opcode, message, state, received>>

\* handle_ping; an empty payload is not octets, and cannot be joined to a header.
TakePing ==
  /\ HasFrame
  /\ header.opcode = OPCODE_PING
  /\ \/ payload = <<>> /\ OtherError
     \/ payload # <<>> /\ link = "reset" /\ WebSocketError
     \/ /\ payload # <<>> /\ link # "reset"
        /\ SendFrame(OPCODE_PONG, Len(payload), payload)
        /\ at' = "header" /\ UNCHANGED closed
  /\ UNCHANGED <<opcode, message, state, received>>

\* handle_pong.
TakePong ==
  /\ HasFrame
  /\ header.opcode = OPCODE_PONG
  /\ at' = "header"
  /\ UNCHANGED <<opcode, message, state, received, closed, wire>>

\* Mutant of IsValidCloseCode: only the range that the standard assigns is looked at.
IsAssignedCloseCode(code) == code >= 1000 /\ code \notin 2000..2999

IsValidCloseCode(code) ==
  /\ code >= 1000
  /\ code \notin 1004..1006 \cup 1012..1016 \cup {1100} \cup 2000..2999

\* Mutant of CloseOutcome: the reason starts one octet early.
CloseOutcomeEarly ==
  LET reason == SubSeq(payload, 2, Len(payload))
      after == Validate(validator, UTF8_ACCEPT, reason)
  IN  IF payload = <<>> THEN "empty"
      ELSE IF Len(payload) < 2 THEN "protocol"
      ELSE IF after = OutOfTable THEN "failure"
      ELSE IF after = UTF8_REJECT THEN "invalid"
      ELSE IF ~IsValidCloseCode(Unpack2(payload, 1)) THEN "protocol"
      ELSE "echo"

\* handle_close, which looks at the reason before the code.
CloseOutcome ==
  LET reason == SubSeq(payload, 3, Len(payload))
      after == Validate(validator, UTF8_ACCEPT, reason)
  IN  IF payload = <<>> THEN "empty"
      ELSE IF Len(payload) < 2 THEN "protocol"
      ELSE IF after = OutOfTable THEN "failure"
      ELSE IF after = UTF8_REJECT THEN "invalid"
      ELSE IF ~IsValidCloseCode(Unpack2(payload, 1)) THEN "protocol"
      ELSE "echo"

\* Mutant of TakeClose: an empty close frame is taken like a pong.
TakeCloseWithCode ==
  /\ HasFrame
  /\ header.opcode = OPCODE_CLOSE
  /\ \/ CloseOutcome = "empty" /\ at' = "header" /\ UNCHANGED <<closed, wire>>
     \/ CloseOutcome = "protocol" /\ WebSocketError
     \/ CloseOutcome = "failure" /\ OtherError
     \/ CloseOutcome = "invalid" /\ UnicodeError
     \/ CloseOutcome = "echo" /\ Close(Unpack2(payload, 1), SubSeq(payload, 3, Len(payload)))
  /\ UNCHANGED <<opcode, message, state, received>>

TakeClose ==
  /\ HasFrame
  /\ header.opcode = OPCODE_CLOSE
  /\ \/ CloseOutcome = "empty" /\ Close(1000, <<>>)
     \/ CloseOutcome = "protocol" /\ WebSocketError
     \/ CloseOutcome = "failure" /\ OtherError
     \/ CloseOutcome = "invalid" /\ UnicodeError
     \/ CloseOutcome = "echo" /\ Close(Unpack2(payload, 1), SubSeq(payload, 3, Len(payload)))
  /\ UNCHANGED <<opcode, message, state, received>>

TakeUnknown ==
  /\ HasFrame
  /\ header.opcode \in 3..7 \cup 11..15
  /\ WebSocketError
  /\ UNCHANGED <<opcode, message, state, received>>

-----------------------------------------------------------------------------
Read ==
  \/ ReadHeader \/ PayloadFails \/ ReadPayload
  \/ TakeFragment \/ TakePing \/ TakePong \/ TakeClose \/ TakeUnknown

Next ==
  \/ \E f \in Frame : ClientSends(f)
  \/ ConnectionEnds
  \/ \E length \in Outgoing : SendMessage(length)
  \/ Read

Spec == Init /\ [][Next]_vars

\* select wakes the loop when there is something to read, and receive blocks in recv,
\* which returns when there is.
FairSpec == Spec /\ WF_vars(Read)

-----------------------------------------------------------------------------
(* Properties.                                                             *)

\* Types, and what a header must be for its payload to be read: no reserved bits, and
\* control frames whole and short (websocket.py 132, 356-361).
TypeOK ==
  /\ validator \in Validators
  /\ sent \in Seq([frame : Frame,
                   draft : [kind : 0..2, octets : Seq(Octet),
                            completed : Seq([kind : 1..2, octets : Seq(Octet)])]])
  /\ taken \in 0..Len(sent)
  /\ link \in {"up", "ended", "reset"} /\ torn \in BOOLEAN
  /\ at \in {"idle", "header", "payload", "frame", "done"} /\ closed = (at = "done")
  /\ header \in [fin : BOOLEAN, opcode : 0..15, flags : {0}, length : Nat, mask : Mask]
  /\ header.opcode > 7 => header.fin /\ header.length <= 125
  /\ payload \in Seq(Octet)
  /\ opcode \in 0..2 /\ message \in Seq(Octet) /\ state \in 0..8 \ {UTF8_REJECT}
  /\ received \in Seq([kind : 1..2, octets : Seq(Octet)])
  /\ wire \in Seq([octets : Seq(Octet), opcode : {OPCODE_TEXT, OPCODE_CLOSE, OPCODE_PONG},
                   length : Nat, payload : Seq(Octet)])

IsPrefixOf(s, t) == Len(s) <= Len(t) /\ s = SubSeq(t, 1, Len(s))

\* receive returns the messages of the client whole, unmasked and in order, whatever
\* fragments they come in and whatever control frames come between those (read_message),
\* and while the websocket is open it has returned all that were completed by the
\* frames it took.
MessagesIntact ==
  /\ IsPrefixOf(received, Draft.completed)
  /\ ~closed => received = DraftAt(taken).completed

\* The same as an implementation of the abstract stream; its fairness says that a
\* completed message is returned, unless the websocket closes.
Stream == INSTANCE MessageStream
            WITH completed <- Draft.completed, delivered <- received, stopped <- closed
ImplementsStream == Stream!Spec

\* Each ping is answered by a pong with its payload, in the order of the pings
\* (handle_ping): those taken, up to the one that closed the websocket.
Pings ==
  Selected({i \in 1..taken : sent[i].frame.opcode = OPCODE_PING},
           [i \in 1..taken |-> sent[i].frame.payload], taken)
Pongs ==
  Selected({i \in 1..Len(wire) : wire[i].opcode = OPCODE_PONG},
           [i \in 1..Len(wire) |-> wire[i].payload], Len(wire))
PongsInOrder == IsPrefixOf(Pongs, Pings) /\ (~closed => Pongs = Pings)

\* A client that decodes headers as decode_header does reads every frame of the server
\* as it was meant, and refuses none (encode_header, handle_ping, handle_close).
ClientReadsHeaders ==
  \A i \in 1..Len(wire) :
    LET h == DecodeHeader(wire[i].octets)
    IN  /\ h = [fin |-> TRUE, opcode |-> wire[i].opcode, flags |-> 0,
                length |-> wire[i].length, mask |-> <<>>]
        /\ ~IsRefused(wire[i].octets[2] % 128, h)

\* The server says goodbye once, as the last thing it says, and with a code that may
\* appear in a close frame: a reserved code the client sent is not echoed (handle_close,
\* _is_valid_close_code).
ReservedCodes == 0..999 \cup {1004, 1005, 1006, 1015}
ClosesOnce ==
  \A i \in 1..Len(wire) :
    wire[i].opcode = OPCODE_CLOSE =>
      /\ closed /\ i = Len(wire)
      /\ Unpack2(wire[i].payload, 1) \notin ReservedCodes

\* Where a text stops that has these octets: between two characters, inside one, or where
\* no octets can follow that would make it UTF-8.
StopsInside(octets) == Run(UTF8_ACCEPT, octets) \notin {UTF8_ACCEPT, UTF8_REJECT}
StopsBroken(octets) == Run(UTF8_ACCEPT, octets) = UTF8_REJECT

\* A text up to one of its fragments.
IsTextFragment(i) ==
  \/ sent[i].frame.opcode = OPCODE_TEXT
  \/ sent[i].frame.opcode = OPCODE_CONTINUATION /\ DraftAt(i - 1).kind = OPCODE_TEXT
TextUpTo(i) == DraftAt(i - 1).octets \o sent[i].frame.payload

\* Texts must be UTF-8 as a whole; a fragment may end inside a character.
IsIllFormedText(i) ==
  /\ IsTextFragment(i)
  /\ StopsBroken(TextUpTo(i)) \/ (sent[i].frame.fin /\ ~IsWellFormed(TextUpTo(i)))
SplitsCharacter(i) ==
  IsTextFragment(i) /\ ~sent[i].frame.fin /\ StopsInside(TextUpTo(i))

CloseReason(f) == SubSeq(f.payload, 3, Len(f.payload))

\* What the protocol forbids the client, where the code enforces it.
IsUnlawful(i) ==
  LET f == sent[i].frame
  IN  \/ f.flags # 0
      \/ f.opcode \in 3..7 \cup 11..15
      \/ f.opcode \in 0..2 /\ ~Fits(DraftAt(i - 1), f)
      \/ f.opcode > 7 /\ (~f.fin \/ f.short > 125)
      \/ IsIllFormedText(i)
      \/ f.opcode = OPCODE_CLOSE /\ Len(f.payload) = 1
      \/ f.opcode = OPCODE_CLOSE /\ Len(f.payload) > 1 /\ ~IsValidCloseCode(Unpack2(f.payload, 1))

\* Nothing unlawful gets through: it is the last frame taken, and the websocket is closed.
UnlawfulRefused == \A i \in 1..taken : IsUnlawful(i) => closed /\ i = taken

\* What the code fails to serve although the protocol allows it: an empty payload, one too
\* large for recv, a character split over two fragments, characters beyond ASCII with the
\* module's own validator, and a close reason that stops inside a character.
IsUnserved(i) ==
  LET f == sent[i].frame
  IN  \/ f.length = 0 /\ f.opcode \notin {OPCODE_PONG, OPCODE_CLOSE}
      \/ f.length > MaxRecv
      \/ SplitsCharacter(i)
      \/ /\ validator = "fallback" /\ \E k \in 1..Len(f.payload) : f.payload[k] > 127
         /\ (IsTextFragment(i) \/ f.opcode = OPCODE_CLOSE)
      \/ f.opcode = OPCODE_CLOSE /\ ~IsWellFormed(CloseReason(f))

\* A client that keeps to the protocol, and does none of the five things above, is not cut
\* off until it closes itself, the connection ends or fails, or recv tears a frame apart:
\* not for fragments, for control frames between them, or for frames that follow each
\* other closely (receive).
LawfulClientServed ==
  closed => \/ link # "up" \/ torn
            \/ \E i \in 1..Len(sent) :
                 i <= taken + 1 /\ (IsUnlawful(i) \/ IsUnserved(i) \/ sent[i].frame.opcode = OPCODE_CLOSE)

\* The code 1007 is an answer to a text or a close reason that is not UTF-8, to a
\* character split over two fragments, which is no fault of the client's but which
\* read_message does not put together (websocket.py 192-194), or to a close frame with
\* that code.
RefusalHasReason ==
  \A i \in 1..Len(wire) :
    (wire[i].opcode = OPCODE_CLOSE /\ Unpack2(wire[i].payload, 1) = 1007) =>
      \E k \in 1..Len(sent) :
        \/ IsIllFormedText(k) \/ SplitsCharacter(k)
        \/ sent[k].frame.opcode = OPCODE_CLOSE /\ ~IsWellFormed(CloseReason(sent[k].frame))
        \/ sent[k].frame.opcode = OPCODE_CLOSE /\ Unpack2(sent[k].frame.payload, 1) = 1007

\* That is so with the validator of wsaccel (utf8validator.py 8); the module's own also
\* refuses characters beyond ASCII.
WsaccelRefusalHasReason == validator = "wsaccel" => RefusalHasReason

\* A client that leaves, or says it will, is noticed: the websocket closes.
EndsWithClient ==
  (link # "up" \/ (sent # <<>> /\ sent[Len(sent)].frame.opcode = OPCODE_CLOSE)) ~> closed
=============================================================================
