----------------------------- MODULE KeySchedule -----------------------------
(***************************************************************************)
(* The key schedule of internal/key/key.go over symbolic hashes: a secret  *)
(* is the term that computes it, and two secrets are equal when they are   *)
(* computed in the same way from the same inputs.  A transcript is the     *)
(* sequence of the messages in it.                                         *)
(***************************************************************************)
EXTENDS Naturals, Sequences

Zero             == [op |-> "zero"]       \* TLS13HashLenSHA256 zero bytes
NoContext        == [op |-> "nil"]
Hash(transcript) == [op |-> "sha256", of |-> transcript]
Hmac(key, data)  == [op |-> "hmac", key |-> key, data |-> data]

\* A private key is its name, and so is the public key that goes with it.
ComputeSharedKey(privateKey, peerPublicKey) ==
  [op |-> "x25519", of |-> {privateKey, peerPublicKey}]

HkdfExtract(salt, ikm) == [op |-> "extract", salt |-> salt, ikm |-> ikm]

HkdfExpandLabel(secret, label, context) ==
  [op |-> "expand", secret |-> secret, label |-> label, context |-> context]

\* The key and the IV of a traffic secret.
TrafficKey(secret) ==
  [key |-> HkdfExpandLabel(secret, "key", NoContext),
   iv  |-> HkdfExpandLabel(secret, "iv", NoContext)]

HandshakeTrafficSecrets(handshakeSecret, hash) ==
  [client |-> HkdfExpandLabel(handshakeSecret, "c hs traffic", hash),
   server |-> HkdfExpandLabel(handshakeSecret, "s hs traffic", hash)]

EarlySecret == HkdfExtract(Zero, Zero)

\* The salt of the next stage.
Derived(secret) == HkdfExpandLabel(secret, "derived", Hash(<<>>))

DeriveTLS13ChaCha20HandshakeSecrets(sharedSecret, clientHello, serverHello) ==
  LET handshakeSecret == HkdfExtract(Derived(EarlySecret), sharedSecret)
      secrets == HandshakeTrafficSecrets(handshakeSecret,
                                         Hash(clientHello \o serverHello))
  IN  [handshakeSecret       |-> handshakeSecret,
       clientHandshakeSecret |-> secrets.client,
       serverHandshakeSecret |-> secrets.server,
       clientHandshake       |-> TrafficKey(secrets.client),
       serverHandshake       |-> TrafficKey(secrets.server)]

\* The MAC of a Finished message.
FinishedVerifyData(trafficSecret, transcript) ==
  Hmac(HkdfExpandLabel(trafficSecret, "finished", NoContext), Hash(transcript))

VerifyTLS13ServerFinished(serverHandshakeSecret, transcript, verifyData) ==
  verifyData = FinishedVerifyData(serverHandshakeSecret, transcript)

\* Where the first message of a type is.
FirstOfType(flight, type) ==
  CHOOSE i \in 1 .. Len(flight) :
    flight[i] = type /\ \A j \in 1 .. i - 1 : flight[j] # type

\* A builder that appends the message it looks for before it stops.
TranscriptThroughMessageType(clientHello, serverHello, flight, stop) ==
  clientHello \o serverHello \o SubSeq(flight, 1, FirstOfType(flight, stop))

\* BuildTLS13HandshakeTranscriptBeforeMessageType, of a flight that has the
\* message: it stops in front of the first one.
TranscriptBeforeMessageType(clientHello, serverHello, flight, stop) ==
  clientHello \o serverHello \o SubSeq(flight, 1, FirstOfType(flight, stop) - 1)

\* A schedule that hashes the server's messages without the two hellos.
TranscriptOfFlight(clientHello, serverHello, flight) == flight

\* The transcript up to the server's Finished: `flight' is the concatenation
\* of the messages in the decrypted records.
TranscriptAfterServerFinished(clientHello, serverHello, flight) ==
  clientHello \o serverHello \o flight

DeriveTLS13ChaCha20ClientSessionKeys(shared, clientHello, serverHello, flight) ==
  LET secrets == DeriveTLS13ChaCha20HandshakeSecrets(shared, clientHello,
                                                     serverHello)
      transcript == TranscriptAfterServerFinished(clientHello, serverHello,
                                                  flight)
      masterSecret == HkdfExtract(Derived(secrets.handshakeSecret), Zero)
      client == HkdfExpandLabel(masterSecret, "c ap traffic", Hash(transcript))
      server == HkdfExpandLabel(masterSecret, "s ap traffic", Hash(transcript))
  IN  [clientFinishedVerifyData |->
         FinishedVerifyData(secrets.clientHandshakeSecret, transcript),
       clientHandshake   |-> secrets.clientHandshake,
       serverHandshake   |-> secrets.serverHandshake,
       clientApplication |-> TrafficKey(client),
       serverApplication |-> TrafficKey(server)]
=============================================================================
