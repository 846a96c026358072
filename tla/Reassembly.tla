----------------------------- MODULE Reassembly -----------------------------
(***************************************************************************)
(* Handshake messages put together from records, byte by byte: the loops   *)
(* of CollectHandshakeMessages (internal/utils/utils.go), which the key    *)
(* schedule has a copy of (internal/key/key.go).  HandshakeMessages takes  *)
(* their result in pieces of messages; that the pieces stand for the bytes *)
(* is checked here.                                                        *)
(***************************************************************************)
EXTENDS HandshakeMessages

Byte == 0 .. 255

HandshakeHeaderLen == 4

\* The messages of the server's flight, as their first byte says.
TypeCode == [server_hello         |-> 2,  encrypted_extensions |-> 8,
             certificate          |-> 11, certificate_request  |-> 13,
             certificate_verify   |-> 15, finished             |-> 20]

Fragment == [type : ContentType, payload : Seq(Byte)]

\* parseUint24 of the length behind the message type.
BodyLen(bytes) == 65536 * bytes[2] + 256 * bytes[3] + bytes[4]

MessageLen(bytes) == HandshakeHeaderLen + BodyLen(bytes)

-----------------------------------------------------------------------------
(***************************************************************************)
(* The same records in bytes and in pieces.  The message that piece k is   *)
(* of begins behind the first start[k] bytes, and behind the last of start *)
(* the bytes that are in no whole message.                                 *)
(***************************************************************************)
CONSTANT Inputs

Input == [fragments : Seq(Fragment), records : Seq(Record), start : Seq(Nat)]

\* The bytes are a message, from its type to the end of its body.
Spells(bytes, msg) ==
  /\ Len(bytes) >= HandshakeHeaderLen /\ Len(bytes) = MessageLen(bytes)
  /\ msg.type \in DOMAIN TypeCode /\ bytes[1] = TypeCode[msg.type]
  /\ msg.fault = "empty" <=> BodyLen(bytes) = 0

\* The bytes are the beginning of a message, and not all of it.
Unfinished(bytes) ==
  /\ bytes # <<>>
  /\ Len(bytes) >= HandshakeHeaderLen => Len(bytes) < MessageLen(bytes)

\* The pieces of a message end with its last; the bytes from its start to the
\* next are the message.
PieceSpells(bytes, stream, start, k) ==
  IF stream[k].last
  THEN Spells(SubSeq(bytes, start[k] + 1, start[k + 1]), stream[k].msg)
  ELSE /\ start[k + 1] = start[k]
       /\ k < Len(stream) => stream[k + 1].msg = stream[k].msg

PiecesSpell(bytes, stream, start) ==
  LET n == Len(stream)
  IN  /\ start \in [1 .. n + 1 -> 0 .. Len(bytes)] /\ start[1] = 0
      /\ \A k \in 1 .. n : PieceSpells(bytes, stream, start, k)
      /\ IF n = 0 \/ stream[n].last THEN start[n + 1] = Len(bytes)
         ELSE Unfinished(SubSeq(bytes, start[n + 1] + 1, Len(bytes)))

ASSUME InputsAssumption == Inputs \subseteq Input

\* The fragments and the records of an input are the same flight.
ASSUME PiecesAssumption ==
  \A in \in Inputs :
    PiecesSpell(Payloads(in.fragments, "handshake"),
                HandshakeStream(in.records), in.start)

VARIABLES
  input,     \* the records the collector was given
  next,      \* the next of them
  pending,   \* the bytes not yet in a message: `stream' of the code
  messages,  \* the messages put together so far
  pc,        \* taking records, cutting messages, or done
  result     \* what was returned: the messages, or one of two errors

vars == <<input, next, pending, messages, pc, result>>

Init ==
  /\ input \in Inputs
  /\ next = 1
  /\ pending = <<>> /\ messages = <<>>
  /\ pc = "records"
  /\ result = "none"

Return(r) == pc' = "done" /\ result' = r

\* A record that is not of the handshake is passed over.
SkipRecord ==
  /\ pc = "records"
  /\ next <= Len(input.fragments)
  /\ input.fragments[next].type # "handshake"
  /\ next' = next + 1
  /\ UNCHANGED <<input, pending, messages, pc, result>>

TakeRecord ==
  /\ pc = "records"
  /\ next <= Len(input.fragments)
  /\ input.fragments[next].type = "handshake"
  /\ pending' = pending \o input.fragments[next].payload
  /\ next' = next + 1
  /\ pc' = "messages"
  /\ UNCHANGED <<input, messages, result>>

HeaderPending == Len(pending) >= HandshakeHeaderLen

\* A check that lets a message without a body through.
BodyNegative == HeaderPending /\ MessageLen(pending) < HandshakeHeaderLen

BodyEmpty == HeaderPending /\ MessageLen(pending) <= HandshakeHeaderLen

MessagePending == HeaderPending /\ Len(pending) >= MessageLen(pending)

CutMalformed ==
  /\ pc = "messages"
  /\ BodyEmpty
  /\ Return("malformed")
  /\ UNCHANGED <<input, next, pending, messages>>

\* A loop that looks for one message in a record only.
CutOneMessage ==
  /\ pc = "messages"
  /\ MessagePending /\ ~BodyEmpty
  /\ messages' = Append(messages, SubSeq(pending, 1, MessageLen(pending)))
  /\ pending' = SubSeq(pending, MessageLen(pending) + 1, Len(pending))
  /\ pc' = "records"
  /\ UNCHANGED <<input, next, result>>

CutMessage ==
  /\ pc = "messages"
  /\ MessagePending /\ ~BodyEmpty
  /\ messages' = Append(messages, SubSeq(pending, 1, MessageLen(pending)))
  /\ pending' = SubSeq(pending, MessageLen(pending) + 1, Len(pending))
  /\ UNCHANGED <<input, next, pc, result>>

\* The header or the message goes on in the next record.
CutNothing ==
  /\ pc = "messages"
  /\ ~MessagePending /\ ~BodyEmpty
  /\ pc' = "records"
  /\ UNCHANGED <<input, next, pending, messages, result>>

\* The records are used up: bytes left over are an error.
CollectReturns ==
  /\ pc = "records"
  /\ next > Len(input.fragments)
  /\ Return(IF pending = <<>> THEN "messages" ELSE "incomplete")
  /\ UNCHANGED <<input, next, pending, messages>>

Next == \/ SkipRecord \/ TakeRecord
        \/ CutMalformed \/ CutMessage \/ CutNothing
        \/ CollectReturns

Spec == Init /\ [][Next]_vars

-----------------------------------------------------------------------------
TypeOK ==
  /\ input \in Input
  /\ next \in 1 .. Len(input.fragments) + 1
  /\ pending \in Seq(Byte)
  /\ messages \in Seq(Seq(Byte))
  /\ pc \in {"records", "messages", "done"}
  /\ result \in {"none", "messages", "malformed", "incomplete"}

(***************************************************************************)
(* A message that is handed out has a header, a body, and exactly the      *)
(* length its header says.  The code behind the collector relies on it: it *)
(* reads the first byte of every message (utils.go 178), and               *)
(* EncryptedExtensions.Unmarshal slices by the length without a look at    *)
(* the bytes it has (encrypted_extensions.go 29).                          *)
(***************************************************************************)
Framed(message) ==
  /\ Len(message) > HandshakeHeaderLen
  /\ Len(message) = MessageLen(message)

MessagesFramed ==
  /\ TypeOK
  /\ \A i \in 1 .. Len(messages) : Framed(messages[i])

-----------------------------------------------------------------------------
\* The bytes of the handshake records, one record after the other.
HandshakeBytes == Payloads(input.fragments, "handshake")

\* What comes of messages that are followed by an outcome.
Before(msgs, outcome) ==
  [messages |-> msgs \o outcome.messages, result |-> outcome.result]

\* The outcome of the bytes behind the first `at', when From[end] is that of
\* the bytes behind a later end.
SplitAt(bytes, From, at) ==
  LET rest == SubSeq(bytes, at + 1, Len(bytes))
      end  == at + MessageLen(rest)
  IN  CASE at = Len(bytes) -> [messages |-> <<>>, result |-> "messages"]
        [] Len(bytes) - at \in 1 .. HandshakeHeaderLen - 1 ->
             [messages |-> <<>>, result |-> "incomplete"]
        [] OTHER ->
             IF BodyLen(rest) = 0
             THEN [messages |-> <<>>, result |-> "malformed"]
             ELSE IF end > Len(bytes)
             THEN [messages |-> <<>>, result |-> "incomplete"]
             ELSE Before(<<SubSeq(bytes, at + 1, end)>>, From[end])

\* The messages in a string of bytes, by the length in each header: what the
\* collector should make of the bytes if there were no records.
Split(bytes) ==
  LET From[at \in 0 .. Len(bytes)] == SplitAt(bytes, From, at)
  IN  From[0]

(***************************************************************************)
(* How the stream is cut into records does not matter, in a header or      *)
(* between messages or with other records in between: the outcome is that  *)
(* of the bytes alone, and with it the transcript, which is every message  *)
(* the bytes hold (utils.go 246-280, transport.go 96-101).                 *)
(***************************************************************************)
BoundariesDoNotMatter ==
  pc = "done" =>
    [messages |-> messages, result |-> result] = Split(HandshakeBytes)

(***************************************************************************)
(* The collector of HandshakeMessages, which the other modules use, finds  *)
(* in the pieces what the loops find in the bytes: it fails when they do,  *)
(* and otherwise returns messages of the same types in the same order.     *)
(***************************************************************************)
PiecesAreFaithful ==
  pc = "done" =>
    /\ result = "messages" <=> CollectOK(input.records)
    /\ result = "messages" =>
         [i \in 1 .. Len(messages) |-> messages[i][1]]
           = [i \in 1 .. Len(Messages(input.records)) |->
                TypeCode[Messages(input.records)[i].type]]
=============================================================================
