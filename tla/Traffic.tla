------------------------------- MODULE Traffic -------------------------------
(***************************************************************************)
(* The records the client seals and those it opens, with the keys that the *)
(* key schedule gives to it and to the server: the client's Finished under *)
(* its handshake key, its request and the server's answer under the        *)
(* application keys.  Both sides derive their keys from what they have     *)
(* seen of the handshake, which need not be the same.  A client that has   *)
(* not verified the server's Finished ends before its first record; here   *)
(* it goes on, so that the keys alone must keep it from being served.      *)
(***************************************************************************)
EXTENDS KeySchedule, RecordProtection

CONSTANTS
  Views,       \* what a side may have seen of the handshake
  Requests,    \* what the client is given to send
  Answers,     \* what the server may seal: see Plain
  MaxRecords   \* bounds the records the server sends

\* The key of the other side, the hellos, each one message, and the server's
\* flight, which has one Finished: the parser of the client turns down a
\* second one, and the transcript builder a flight without (utils.go 213-222,
\* client_flow.go 141-143).
OneMessage == [1 .. 1 -> STRING]

Flight ==
  {messages \in Seq(STRING) :
     \E i \in 1 .. Len(messages) :
       /\ messages[i] = "finished"
       /\ \A j \in 1 .. Len(messages) : messages[j] = "finished" => j = i}

View == [peer : STRING, clientHello : OneMessage, serverHello : OneMessage,
         flight : Flight]

\* A server ends its flight with its Finished (RFC 8446, section 4.4.4).
ServerView == {view \in View : view.flight[Len(view.flight)] = "finished"}

\* A plaintext and its padding.
Plain == [type : Byte, content : Text, zeros : Nat]

ASSUME TrafficAssumption ==
  /\ Views \subseteq View
  /\ Requests \subseteq Text
  /\ Answers \subseteq Plain
  /\ MaxRecords \in Nat

VARIABLES
  clientView, serverView,   \* what the two have seen
  pc,                       \* where the client is
  requested,                \* what the client was asked to seal
  written,                  \* the records it has written
  answered,                 \* what the server has sealed
  sent,                     \* the records it has sent
  serverSecret, serverSeq,  \* the server's traffic secret and sequence number
  opened,                   \* what the client has opened
  failure                   \* why it stopped

clientVars == <<pc, requested, written, opened, failure>>
serverVars == <<answered, sent, serverSecret, serverSeq>>
views      == <<clientView, serverView>>
vars       == <<views, clientVars, serverVars>>

-----------------------------------------------------------------------------
\* The client's secrets and keys.
ClientSecrets ==
  DeriveTLS13ChaCha20HandshakeSecrets(
    ComputeSharedKey("client", clientView.peer),
    clientView.clientHello, clientView.serverHello)

SessionKeys ==
  DeriveTLS13ChaCha20ClientSessionKeys(
    ComputeSharedKey("client", clientView.peer),
    clientView.clientHello, clientView.serverHello, clientView.flight)

(***************************************************************************)
(* The server's keys, from section 7.1 of RFC 8446: three stages, each     *)
(* with the input of its own, and the secrets of a stage over the          *)
(* transcript up to it.                                                    *)
(***************************************************************************)
Stage ==
  LET inputs == <<Zero, ComputeSharedKey("server", serverView.peer), Zero>>
      Secret[i \in 1 .. 3] ==
        HkdfExtract(
          IF i = 1 THEN Zero
          ELSE HkdfExpandLabel(Secret[i - 1], "derived", Hash(<<>>)), inputs[i])
  IN  Secret

ServerTranscript(i) ==
  serverView.clientHello \o serverView.serverHello
    \o (IF i = 3 THEN serverView.flight ELSE <<>>)

ServerSecret(i, label) ==
  HkdfExpandLabel(Stage[i], label, Hash(ServerTranscript(i)))

\* The key of the server's secret, which is another one after an update.
ServerSealingKey == TrafficKey(serverSecret)

\* The key under which the server opens the client's records.
ServerOpeningKey(type) ==
  TrafficKey(IF type = Handshake THEN ServerSecret(2, "c hs traffic")
                                 ELSE ServerSecret(3, "c ap traffic"))

\* The server's Finished, over the messages it has sent before it.
ServerFinishedVerifyData ==
  FinishedVerifyData(
    ServerSecret(2, "s hs traffic"),
    serverView.clientHello \o serverView.serverHello
      \o SubSeq(serverView.flight, 1, Len(serverView.flight) - 1))

\* Each side looks at the other's Finished with the messages it has seen: the
\* server with its whole flight, the client with what comes before the Finished.
ServerTakesFinished ==
  SessionKeys.clientFinishedVerifyData
    = FinishedVerifyData(ServerSecret(2, "c hs traffic"), ServerTranscript(3))

ClientTakesFinished ==
  VerifyTLS13ServerFinished(
    ClientSecrets.serverHandshakeSecret,
    TranscriptBeforeMessageType(clientView.clientHello, clientView.serverHello,
                                clientView.flight, "finished"),
    ServerFinishedVerifyData)

-----------------------------------------------------------------------------
Init ==
  /\ clientView \in Views /\ serverView \in Views \intersect ServerView
  /\ pc = "finished"
  /\ requested = <<>> /\ written = <<>>
  /\ answered = <<>> /\ sent = <<>> /\ serverSeq = 0
  /\ serverSecret = ServerSecret(3, "s ap traffic")
  /\ opened = <<>> /\ failure = "none"

\* A handshake message of 36 bytes: the header and the MAC.
FinishedMessage == [fill |-> 36, tail |-> <<>>]

\* The client writes a record.
WriteRecord(keys, seq, type, content) ==
  /\ written' = Append(written, EncryptTLS13Record(keys, seq, type, content))
  /\ requested' = Append(requested, [type |-> type, content |-> content])
  /\ UNCHANGED <<views, serverVars, opened, failure>>

\* BuildClientFinishedRecord, and the write.
SendFinished ==
  /\ pc = "finished"
  /\ pc' = "request"
  /\ WriteRecord(SessionKeys.clientHandshake, 0, Handshake, FinishedMessage)

\* A request under the key the Finished went under.
SendRequestUnderHandshakeKey ==
  /\ pc = "request"
  /\ pc' = "response"
  /\ \E content \in Requests :
       WriteRecord(SessionKeys.clientHandshake, 0, ApplicationData, content)

\* BuildApplicationDataRecord, and the write: a new key, and zero again.
SendRequest ==
  /\ pc = "request"
  /\ pc' = "response"
  /\ \E content \in Requests :
       WriteRecord(SessionKeys.clientApplication, 0, ApplicationData, content)

\* The server seals a plaintext with its padding and sends it.
SendAnswer(plain) ==
  /\ Len(sent) < MaxRecords
  /\ LET inner == InnerMarshal(plain.content, plain.type, plain.zeros)
     IN  sent' = Append(sent,
                   Sealed(ServerSealingKey.key,
                          Nonce(ServerSealingKey.iv, serverSeq),
                          Header(TextLen(inner) + TagSize), inner))
  /\ answered' = Append(answered, plain)
  /\ UNCHANGED <<views, clientVars>>

\* A KeyUpdate of five bytes, the last record under the old key.
KeyUpdateMessage ==
  [type |-> Handshake, content |-> [fill |-> 5, tail |-> <<>>], zeros |-> 0]

\* All it seals but a KeyUpdate, which is sent with a change of the key only.
ServerSeals ==
  /\ \E plain \in Answers \ {KeyUpdateMessage} : SendAnswer(plain)
  /\ serverSeq' = serverSeq + 1
  /\ UNCHANGED serverSecret

\* The next secret is derived from the last (RFC 8446, section 7.2).
ServerUpdatesKey ==
  /\ SendAnswer(KeyUpdateMessage)
  /\ serverSeq' = 0
  /\ serverSecret' = HkdfExpandLabel(serverSecret, "traffic upd", NoContext)

\* A reader that counts the data records only.
OpenCountingData ==
  LET rec == Received(sent[Len(opened) + 1])
      seq == Len(SelectSeq(opened, LAMBDA p : p.type = ApplicationData))
  IN  /\ pc = "response"
      /\ Len(opened) < Len(sent)
      /\ LET error == DecodeError(rec, SessionKeys.serverApplication, seq)
         IN  IF error = "none"
             THEN /\ opened' = Append(opened, ParseTLSInnerPlaintext(rec.inner))
                  /\ UNCHANGED <<pc, failure>>
             ELSE /\ pc' = "failed" /\ failure' = error
                  /\ UNCHANGED opened
      /\ UNCHANGED <<views, serverVars, requested, written>>

\* The client opens the next record of the answer, with the number of those
\* it has opened for the sequence number.  It stops at the first error.
OpenAnswer ==
  LET rec == Received(sent[Len(opened) + 1])
      seq == Len(opened)
  IN  /\ pc = "response"
      /\ Len(opened) < Len(sent)
      /\ LET error == DecodeError(rec, SessionKeys.serverApplication, seq)
         IN  IF error = "none"
             THEN /\ opened' = Append(opened, ParseTLSInnerPlaintext(rec.inner))
                  /\ UNCHANGED <<pc, failure>>
             ELSE /\ pc' = "failed" /\ failure' = error
                  /\ UNCHANGED opened
      /\ UNCHANGED <<views, serverVars, requested, written>>

Next ==
  \/ SendFinished \/ SendRequest \/ OpenAnswer
  \/ pc # "finished" /\ (ServerSeals \/ ServerUpdatesKey)

Spec == Init /\ [][Next]_vars

-----------------------------------------------------------------------------
(***************************************************************************)
(* The client never uses a nonce twice under one key, although every key   *)
(* starts its own count at zero and the sequence numbers are constants of  *)
(* the callers (handshake.go 152-156, main.go 33, transport.go 124-134).   *)
(***************************************************************************)
NonceUsedOnce ==
  \A i, j \in 1 .. Len(written) :
    written[i].key = written[j].key /\ written[i].nonce = written[j].nonce
      => i = j

\* The two have each other's key, and the same messages up to a stage.
SecretsAgreed == clientView.peer = "server" /\ serverView.peer = "client"

HelloAgreed ==
  /\ SecretsAgreed
  /\ clientView.clientHello \o clientView.serverHello
       = serverView.clientHello \o serverView.serverHello

FlightAgreed ==
  /\ HelloAgreed
  /\ clientView.flight = serverView.flight

\* What the client has seen up to the Finished is what the server has sent.
FinishedAgreed ==
  /\ HelloAgreed
  /\ SubSeq(clientView.flight, 1, FirstOfType(clientView.flight, "finished"))
       = serverView.flight

Agreed(type) == IF type = Handshake THEN HelloAgreed ELSE FlightAgreed

\* The longest content whose ciphertext fits the length field.
MaxSealed == 65535 - TagSize - 1

(***************************************************************************)
(* The client takes the server's Finished exactly when both have seen the  *)
(* same messages up to it, whatever the client has seen behind it.  The    *)
(* server takes the client's exactly when the client has seen nothing      *)
(* more: a message behind the server's Finished is in the client's MAC     *)
(* only.  The server opens a record of the client exactly when the two     *)
(* agree up to its epoch and the content is at most MaxSealed long, and    *)
(* finds in it the type and the content the client was asked to send.      *)
(* Beyond MaxSealed the length field wraps and the record is lost          *)
(* (handshake.go 121-139, transport.go 104-148, key.go 148-322).           *)
(***************************************************************************)
ServerReadsTheClient ==
  /\ ServerTakesFinished <=> FlightAgreed
  /\ ClientTakesFinished <=> FinishedAgreed
  /\ \A i \in 1 .. Len(written) :
       LET rec  == Received(written[i])
           asked == requested[i]
       IN  /\ Opens(rec, ServerOpeningKey(asked.type), 0) <=>
                Agreed(asked.type) /\ TextLen(asked.content) <= MaxSealed
           /\ Opens(rec, ServerOpeningKey(asked.type), 0) =>
                ParseTLSInnerPlaintext(rec.inner) = asked

\* The number of records the server has sealed under its first key.
BeforeUpdate ==
  IF \E i \in 1 .. Len(answered) : answered[i] = KeyUpdateMessage
  THEN CHOOSE i \in 1 .. Len(answered) :
         /\ answered[i] = KeyUpdateMessage
         /\ \A j \in 1 .. i - 1 : answered[j] # KeyUpdateMessage
  ELSE Len(answered)

\* A plaintext of the server that a client must take.
Acceptable(plain) == plain.type # 0 /\ TextLen(plain.content) <= MaxPayloadLen

(***************************************************************************)
(* What the client has opened is what the server sealed, in order, the     *)
(* padding gone and contents that end in zeros kept.  It stops only where  *)
(* the handshakes differ, the server changed its key, which this client    *)
(* does not follow, or the plaintext is not acceptable (record.go 75-103,  *)
(* utils.go 72-133).                                                       *)
(***************************************************************************)
ClientReadsTheServer ==
  /\ \A i \in 1 .. Len(opened) :
       answered[i].type # 0 =>
         opened[i] = [type |-> answered[i].type, content |-> answered[i].content]
  /\ opened # <<>> => FlightAgreed /\ Len(opened) <= BeforeUpdate
  /\ pc = "failed" =>
       \/ ~FlightAgreed
       \/ Len(opened) >= BeforeUpdate
       \/ ~Acceptable(answered[Len(opened) + 1])

\* The bytes of a plaintext that are not zero.
HasNonZero(plain) ==
  \/ plain.type # 0
  \/ plain.content.fill > 0
  \/ \E i \in 1 .. Len(plain.content.tail) : plain.content.tail[i] # 0

(***************************************************************************)
(* The client gives up for the right reason: a plaintext of zeros is the   *)
(* only one without a type, a content is too long when it has more than    *)
(* MaxPayloadLen bytes, however much padding follows it, and a record that *)
(* was not sealed for this place is neither.  No content that is too long  *)
(* gets past (record.go 88-90, utils.go 85-101).                           *)
(***************************************************************************)
FailureIsTheCause ==
  /\ \A i \in 1 .. Len(opened) : TextLen(opened[i].content) <= MaxPayloadLen
  /\ pc = "failed" =>
       LET plain == answered[Len(opened) + 1]
           ours  == FlightAgreed /\ Len(opened) < BeforeUpdate
       IN  /\ failure = "bad record MAC" <=> ~ours
           /\ failure = "unexpected message" <=> ours /\ ~HasNonZero(plain)
           /\ failure = "record overflow" =>
                TextLen(plain.content) > MaxPayloadLen
=============================================================================
