-------------------------- MODULE HandshakeMessages --------------------------
(***************************************************************************)
(* The pure part of the client's handshake: messages reassembled from      *)
(* records, the server's flight parsed, the transcripts and keys derived   *)
(* from it, and the predicate that decides when the flight is complete.    *)
(* An optional value, a Go pointer that may be nil, is a set with at most  *)
(* one element, and nil is the empty set.                                  *)
(***************************************************************************)
EXTENDS TLSRecords

\* The payloads of the handshake records, one after the other.
HandshakeStream(records) == Payloads(records, "handshake")

\* A collector that drops a message cut short at the end.
CollectIgnoresRest(records) ==
  LET stream == HandshakeStream(records)
  IN  \A i \in 1 .. Len(stream) : stream[i].msg.fault # "empty"

\* CollectHandshakeMessages fails on a message without a body and on a
\* message that the records do not end.
CollectOK(records) ==
  LET stream == HandshakeStream(records)
  IN  /\ \A i \in 1 .. Len(stream) : stream[i].msg.fault # "empty"
      /\ stream # <<>> => stream[Len(stream)].last

\* The messages CollectHandshakeMessages returns.
Messages(records) ==
  Collect(LAMBDA piece : IF piece.last THEN <<piece.msg>> ELSE <<>>,
          HandshakeStream(records))

TypesOf(messages) == [i \in 1 .. Len(messages) |-> messages[i].type]

\* Where the messages of a type are.
Occurrences(messages, type) ==
  {i \in 1 .. Len(messages) : messages[i].type = type}

\* FindFirstHandshakeMessage: the position of the first one, zero if none.
FindFirst(messages, type) ==
  LET found == Occurrences(messages, type)
  IN  IF found = {} THEN 0 ELSE Min(found)

-----------------------------------------------------------------------------
\* ServerHello: found in the plaintext records and unmarshalled.
ServerHello(bytes) ==
  LET messages == Messages(PlaintextRecords(bytes))
  IN  messages[FindFirst(messages, "server_hello")]

ParseServerHelloOK(bytes) ==
  LET messages == Messages(PlaintextRecords(bytes))
  IN  /\ CollectOK(PlaintextRecords(bytes))
      /\ FindFirst(messages, "server_hello") # 0
      /\ ServerHello(bytes).fault # "unparsable"

\* The shared secret needs the server's key share.
SharedSecretOK(bytes) == ServerHello(bytes).fault # "no_share"

HelloTranscript == <<"client_hello", "server_hello">>

ServerHandshakeKey == [epoch |-> "handshake", transcript |-> HelloTranscript]

-----------------------------------------------------------------------------
\* The messages of the encrypted part of the flight.
FlightRecords(bytes)  == Decoded(CiphertextRecords(bytes))
FlightMessages(bytes) == Messages(FlightRecords(bytes))

ParsedTypes ==
  {"encrypted_extensions", "certificate", "certificate_verify", "finished"}

\* ParseServerTLS13HandshakeMessages: each of the four messages parses and
\* comes once at most.  Their order is not looked at, a missing one is nil,
\* and messages of other types are passed over.
ParsesServerMessages(records) ==
  LET messages == Messages(records)
  IN  /\ CollectOK(records)
      /\ \A i \in 1 .. Len(messages) :
           messages[i].type \in ParsedTypes =>
             /\ messages[i].fault # "unparsable"
             /\ Occurrences(messages, messages[i].type) = {i}

\* The decode starts at one, not at zero.
DecodeFlightFromOneOK(bytes) ==
  /\ Decodes(bytes.recs, ServerHandshakeKey, 1)
  /\ ParsesServerMessages(FlightRecords(bytes))

\* DecodeAndParseServerTLS13HandshakeMessagesWithChaCha20Poly1305, from zero.
DecodeFlightOK(bytes) ==
  /\ Decodes(bytes.recs, ServerHandshakeKey, 0)
  /\ ParsesServerMessages(FlightRecords(bytes))

\* The pointer the parser returns for a message type.
Parsed(bytes, type) ==
  {FlightMessages(bytes)[i] : i \in Occurrences(FlightMessages(bytes), type)}

-----------------------------------------------------------------------------
\* A predicate that opens the records from the wrong sequence number.
FlightCompleteFromOne(bytes) ==
  /\ ParseRecordsOK(bytes)
  /\ ParseServerHelloOK(bytes)
  /\ SharedSecretOK(bytes)
  /\ DecodeFlightFromOneOK(bytes)
  /\ Parsed(bytes, "finished") # {}

\* ServerHandshakeFlightComplete: the whole buffer parses, opens and holds
\* the server's Finished.  An error of any step is "not complete yet".
ServerHandshakeFlightComplete(bytes) ==
  /\ ParseRecordsOK(bytes)
  /\ ParseServerHelloOK(bytes)
  /\ SharedSecretOK(bytes)
  /\ DecodeFlightOK(bytes)
  /\ Parsed(bytes, "finished") # {}

-----------------------------------------------------------------------------
\* The chain is there and verifies up to a trusted root.
ChainOK(bytes) ==
  \E certificate \in Parsed(bytes, "certificate") :
    certificate.fault = "none"

\* A transcript builder that does not mind the stop message being absent.
TranscriptAlwaysFound(bytes, stop) == TRUE

\* BuildTLS13HandshakeTranscriptBeforeMessageType finds its stop message, and
\* then returns what comes before it.
TranscriptFound(bytes, stop) == Occurrences(FlightMessages(bytes), stop) # {}

TranscriptBefore(bytes, stop) ==
  LET messages == FlightMessages(bytes)
  IN  HelloTranscript
        \o TypesOf(SubSeq(messages, 1, FindFirst(messages, stop) - 1))

\* The signature of the CertificateVerify is over the transcript before it.
SignatureVerifies(bytes) ==
  \E msg \in Parsed(bytes, "certificate_verify") :
    /\ msg.fault = "none"
    /\ msg.covers = TranscriptBefore(bytes, "certificate_verify")

\* A check of the Finished that does not look at the transcript.
FinishedVerifiesAnything(bytes) ==
  \E msg \in Parsed(bytes, "finished") : msg.fault = "none"

\* The MAC of the server's Finished is over the transcript before it.
FinishedVerifies(bytes) ==
  \E msg \in Parsed(bytes, "finished") :
    /\ msg.fault = "none"
    /\ msg.covers = TranscriptBefore(bytes, "finished")

\* concatTLS13HandshakeMessages: the key schedule has its own copy of the
\* reassembly, which fails when CollectHandshakeMessages does.
ConcatOK(records) == CollectOK(records)

\* A key schedule that stops before the server's Finished.
SessionTranscriptBeforeFinished(bytes) == TranscriptBefore(bytes, "finished")

\* The transcript of the client's Finished and of the application keys is
\* every handshake message in the decrypted records.
SessionTranscript(bytes) == HelloTranscript \o TypesOf(FlightMessages(bytes))
=============================================================================
