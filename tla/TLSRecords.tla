----------------------------- MODULE TLSRecords -----------------------------
(***************************************************************************)
(* The records the client exchanges with the server and the operations of  *)
(* internal/messages/record and internal/utils that split, open and sort   *)
(* them.                                                                   *)
(*                                                                         *)
(* Bytes are abstracted by what the parsers make of them.  A byte string   *)
(* read from the connection is the sequence of whole records in it and     *)
(* whether a partial record follows them.  A handshake stream is a         *)
(* sequence of pieces: a piece is a run of the bytes of one message, and   *)
(* it is `last' when it ends that message.  Encryption is symbolic: a      *)
(* record names the key and the sequence number it was sealed under, and   *)
(* opens under these alone.                                                *)
(***************************************************************************)
EXTENDS Naturals, Sequences, FiniteSets, SequencesExt

CONSTANT Data       \* the pieces of application data a server may send

ContentType ==
  {"handshake", "application_data", "alert", "change_cipher_spec"}

MessageType ==
  {"client_hello", "server_hello", "encrypted_extensions",
   "certificate_request", "certificate", "certificate_verify", "finished",
   "new_session_ticket", "key_update"}

(***************************************************************************)
(* What is wrong with a message, as far as the client can tell:            *)
(*   empty         its body has length zero;                               *)
(*   unparsable    Unmarshal rejects it;                                   *)
(*   no_share      a ServerHello without a usable key share;               *)
(*   unverifiable  the chain, signature or MAC it carries does not verify. *)
(***************************************************************************)
Fault == {"none", "empty", "unparsable", "no_share", "unverifiable"}

\* A transcript is a sequence of messages, each known by its type.
Transcript == Seq(MessageType)

\* `covers' is the transcript a CertificateVerify signs or a Finished MACs.
Message == [type : MessageType, fault : Fault, covers : Transcript]

Piece == [msg : Message, last : BOOLEAN]

(***************************************************************************)
(* A traffic key is its epoch and the transcript it is derived from.  The  *)
(* epoch `foreign' stands for every key the client cannot derive: another  *)
(* cipher suite, another shared secret, a corrupted ciphertext.            *)
(***************************************************************************)
Epoch == {"plain", "handshake", "application", "foreign"}
Key   == [epoch : Epoch, transcript : Transcript]

\* What a record carries: the content type of a protected record is inside it.
Content(rec) == IF rec.type = "application_data" THEN rec.inner ELSE rec.type

(***************************************************************************)
(* `inner' is the content type inside a protected record; it is `invalid'  *)
(* when the inner plaintext is all zeros and has no type.                  *)
(***************************************************************************)
Record ==
  {rec \in [type    : ContentType,
            key     : Key,
            seq     : Nat,
            inner   : ContentType \union {"invalid"},
            payload : Seq(Piece \union Data)] :
     /\ Content(rec) = "handshake"        => rec.payload \in Seq(Piece)
     /\ Content(rec) = "application_data" => rec.payload \in Seq(Data)}

\* What ParseTLSPlaintextRecordsWithRemainder makes of a byte string.
Bytes   == [recs : Seq(Record), rest : BOOLEAN]
NoBytes == [recs |-> <<>>, rest |-> FALSE]

-----------------------------------------------------------------------------
\* A remainder that ParseRecords forgets to reject.
ParseRecordsAcceptsRemainder(bytes) == bytes.recs # <<>>

\* ParseRecords succeeds on whole records only: no bytes at all, or a partial
\* record after the whole ones, is an error.
ParseRecordsOK(bytes) == bytes.recs # <<>> /\ ~bytes.rest

\* What a loop over a sequence collects that appends Of(x) for every x of it.
\* The set of one element has TLC evaluate the sequence once.
Collect(Of(_), seq) ==
  CHOOSE all \in {FlattenSeq([i \in 1 .. Len(s) |-> Of(s[i])]) : s \in {seq}} :
    TRUE

\* The records whose type is one of some, in their order.
OfTypes(records, types) ==
  Collect(LAMBDA rec : IF rec.type \in types THEN <<rec>> ELSE <<>>, records)

\* The payloads of the records of a type, one after the other.
Payloads(records, type) ==
  Collect(LAMBDA rec : IF rec.type = type THEN rec.payload ELSE <<>>, records)

\* The two slices ParseRecords returns, by outer content type.
PlaintextRecords(bytes) ==
  OfTypes(bytes.recs, ContentType \ {"application_data"})

CiphertextRecords(bytes) == OfTypes(bytes.recs, {"application_data"})

\* aead.Open succeeds and ParseTLSInnerPlaintext finds a content type.
Opens(rec, key, seq) ==
  /\ rec.key = key
  /\ rec.seq = seq
  /\ rec.inner # "invalid"

\* The protected records before position i of a sequence of records.
ProtectedBefore(recs, i) ==
  Cardinality({j \in 1 .. i - 1 : recs[j].type = "application_data"})

\* The decoders stop at the first record that does not open.  The sequence
\* number counts the protected records, and no others are opened.
Decodes(recs, key, seq) ==
  \A i \in 1 .. Len(recs) :
    recs[i].type = "application_data" =>
      Opens(recs[i], key, seq + ProtectedBefore(recs, i))

\* The plaintext records the decoder returns: the inner type and the content.
Decoded(ciphertexts) ==
  Collect(LAMBDA rec : <<[type |-> rec.inner, payload |-> rec.payload]>>,
          ciphertexts)
=============================================================================
