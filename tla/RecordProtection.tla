-------------------------- MODULE RecordProtection --------------------------
(***************************************************************************)
(* How a record is protected and opened: the inner plaintext with its type *)
(* and padding (internal/messages/record/record.go), the AEAD with its     *)
(* nonce and its additional data, and the lengths in the header            *)
(* (internal/utils).                                                       *)
(*                                                                         *)
(* A string of bytes is a number of bytes of value Filler and the bytes    *)
(* behind them, so that it can be long and still be looked at byte by byte *)
(* from its end.  A sealed string is what it was sealed from, and opens    *)
(* under the same key, nonce and additional data only.                     *)
(***************************************************************************)
EXTENDS Integers, Sequences

Byte   == 0 .. 255
Filler == 1

Text == [fill : Nat, tail : Seq(Byte)]

TextLen(text) == text.fill + Len(text.tail)

MaxPayloadLen == 16384
TagSize       == 16

Uint16(n) == n % 65536

ApplicationData == 23
Handshake       == 22

-----------------------------------------------------------------------------
\* The content, its type and a number of zeros.
InnerMarshal(content, type, zeros) ==
  [content EXCEPT !.tail = @ \o <<type>> \o [i \in 1 .. zeros |-> 0]]

\* Where the last byte that is not zero is: in the tail, or in front of it.
TypeIndex(text) ==
  IF \A i \in 1 .. Len(text.tail) : text.tail[i] = 0 THEN 0
  ELSE CHOOSE i \in 1 .. Len(text.tail) :
         /\ text.tail[i] # 0
         /\ \A j \in i + 1 .. Len(text.tail) : text.tail[j] = 0

NoType(text) == TypeIndex(text) = 0 /\ text.fill = 0

\* ParseTLSInnerPlaintext: the content and the type.
ParseTLSInnerPlaintext(text) ==
  LET i == TypeIndex(text)
  IN  IF i = 0
      THEN [type |-> Filler, content |-> [fill |-> text.fill - 1, tail |-> <<>>]]
      ELSE [type    |-> text.tail[i],
            content |-> [text EXCEPT !.tail = SubSeq(@, 1, i - 1)]]

-----------------------------------------------------------------------------
\* The nonce: the IV and the sequence number, one XORed into the other.
Nonce(iv, seq) == [iv |-> iv, seq |-> seq]

Header(length) == [type |-> ApplicationData, length |-> length]

(***************************************************************************)
(* A protected record: its header and what is sealed in it.  `whole' says  *)
(* that its payload is all of the sealed bytes and not the start of them.  *)
(***************************************************************************)
Sealed(key, nonce, header, inner) ==
  [header |-> header, key |-> key, nonce |-> nonce, aad |-> header,
   inner |-> inner, len |-> TextLen(inner) + TagSize, whole |-> TRUE]

CiphertextLength(inner) == Uint16(TextLen(inner) + TagSize)

\* EncryptTLS13Record: the content without padding, under the given key.
EncryptTLS13Record(keys, seq, innerType, innerContent) ==
  LET inner == InnerMarshal(innerContent, innerType, 0)
  IN  Sealed(keys.key, Nonce(keys.iv, seq), Header(CiphertextLength(inner)),
             inner)

\* The record as the other side finds it in the stream: as many bytes as the
\* header says.
Received(rec) ==
  [rec EXCEPT !.len   = rec.header.length,
              !.whole = rec.header.length = rec.len]

Opens(rec, keys, seq) ==
  /\ rec.len >= TagSize
  /\ rec.whole
  /\ rec.key = keys.key
  /\ rec.nonce = Nonce(keys.iv, seq)
  /\ rec.aad = rec.header

\* A check of the content against the limit of a ciphertext.
OverflowsAsCiphertext(rec) ==
  TextLen(ParseTLSInnerPlaintext(rec.inner).content) > MaxPayloadLen + 256

Overflows(rec) ==
  TextLen(ParseTLSInnerPlaintext(rec.inner).content) > MaxPayloadLen

\* The error of DecodeTLSCiphertextRecordWithAEAD, if there is one.
DecodeError(rec, keys, seq) ==
  CASE ~Opens(rec, keys, seq) -> "bad record MAC"
    [] Opens(rec, keys, seq) /\ NoType(rec.inner) -> "unexpected message"
    [] Opens(rec, keys, seq) /\ ~NoType(rec.inner) /\ Overflows(rec) ->
         "record overflow"
    [] OTHER -> "none"
=============================================================================
