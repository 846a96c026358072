------------------------------- MODULE Messages -------------------------------
(***************************************************************************)
(* One message each way through the codecs: the client's hello, which the  *)
(* server reads, and a message of the server, which may be damaged on its  *)
(* way but is framed as the collector of handshake messages leaves it (see *)
(* Reassembly), and which the client unmarshals and uses.                  *)
(***************************************************************************)
EXTENDS MessageCodecs

CONSTANTS
  Offers,     \* the extensions a hello is made with
  Random,     \* the random bytes of the hello
  Answers,    \* what the server may send
  KeyKinds,   \* the kinds of key the server's certificate may have
  Damages,    \* what may happen to the body of a message
  Parseable   \* the certificates that x509.ParseCertificate parses

-----------------------------------------------------------------------------
(***************************************************************************)
(* What the messages are made of.  A field behind a length is as short as  *)
(* its length can say.                                                     *)
(***************************************************************************)
Uint16 == 0 .. 65535

Sized(width) == {bytes \in Seq(Byte) : Len(bytes) < 256 ^ width}

ExtensionList ==
  {exts \in Seq([type : Uint16, payload : Sized(2)]) :
     MarshalExtensions(exts) \in Sized(2)}

EncodeEntry(entry) == Vector(3, entry.cert) \o Vector(2, entry.exts)

EncodeEntries(entries) ==
  FlattenSeq([i \in 1 .. Len(entries) |-> EncodeEntry(entries[i])])

CertificateList ==
  {entries \in Seq([cert : Sized(3), exts : Sized(2)]) :
     EncodeEntries(entries) \in Sized(3)}

ServerHelloFields ==
  [version     : Uint16, random : {b \in Seq(Byte) : Len(b) = 32},
   sessionID   : Sized(1), cipherSuite : Uint16, compression : Byte,
   extensions  : ExtensionList]

CertificateVerifyFields == [scheme : Uint16, signature : Sized(2)]

AnswerType == Range(HandshakeType) \ {HandshakeType.ClientHello}

\* The messages of a type that a server sends.
MessageOf(type) ==
  CASE type = HandshakeType.ServerHello -> ServerHelloFields
    [] type \in {HandshakeType.EncryptedExtensions,
                 HandshakeType.CertificateRequest} -> ExtensionList
    [] type = HandshakeType.Certificate -> CertificateList
    [] type = HandshakeType.CertificateVerify -> CertificateVerifyFields
    [] type = HandshakeType.Finished -> Seq(Byte)
    [] type = HandshakeType.KeyUpdate -> BOOLEAN

\* The extensions a client makes, with the lists that may not be empty.
KeyShareEntry == [group : Uint16, data : Seq(Byte)]

OfferedExtension ==
  [type : {ExtensionType.ServerName}, data : Seq(Byte)]
    \union [type : {ExtensionType.SupportedVersions},
            data : {list \in Seq(Uint16) : Len(list) \in 1 .. 127}]
    \union [type : {ExtensionType.SupportedCurves, ExtensionType.SignatureAlgorithms},
            data : {list \in Seq(Uint16) : list # <<>>}]
    \union [type : {ExtensionType.Cookie},
            data : {bytes \in Seq(Byte) : bytes # <<>>}]
    \union [type : {ExtensionType.PSKKeyExchangeModes},
            data : {list \in Seq(Byte) : Len(list) \in 1 .. 255}]
    \union [type : {ExtensionType.KeyShare}, data : Seq(KeyShareEntry)]

ASSUME MessagesAssumption ==
  /\ Random \in Seq(Byte) /\ Len(Random) = 32
  /\ Offers \subseteq Seq(OfferedExtension)
  /\ \A exts \in Offers : ~Duplicate(exts)
  /\ \A answer \in Answers :
       answer.type \in AnswerType /\ answer.message \in MessageOf(answer.type)
  /\ Damages \subseteq [kind : {"none", "cut", "extended", "changed", "dropped"},
                        at : Nat]

-----------------------------------------------------------------------------

VARIABLES
  pc,        \* what happens next
  offer,     \* the extensions of the hello
  kind,      \* the kind of the server's key
  hello,     \* the client's record
  sender,    \* who marshalled the message that is read
  sent,      \* that message
  wire,      \* its bytes as they arrive
  read,      \* what Unmarshal has made of it
  accepted   \* what the client has gone on with: nothing, or one of the values

vars == <<pc, offer, kind, hello, sender, sent, wire, read, accepted>>

Nothing == <<>>

-----------------------------------------------------------------------------
(***************************************************************************)
(* The server: its encoders, and its parser of the hello, after RFC 8446.  *)
(***************************************************************************)
EncodeServerHello(m) ==
  Number(2, m.version) \o m.random \o Vector(1, m.sessionID)
    \o Number(2, m.cipherSuite) \o <<m.compression>>
    \o Vector(2, MarshalExtensions(m.extensions))

Encode(type, m) ==
  CASE type = HandshakeType.ServerHello -> EncodeServerHello(m)
    [] type = HandshakeType.EncryptedExtensions ->
         Vector(2, MarshalExtensions(m))
    [] type = HandshakeType.Certificate ->
         <<0>> \o Vector(3, EncodeEntries(m))
    [] type = HandshakeType.CertificateRequest ->
         <<0>> \o Vector(2, MarshalExtensions(m))
    [] type = HandshakeType.CertificateVerify ->
         Number(2, m.scheme) \o Vector(2, m.signature)
    [] type = HandshakeType.Finished  -> m
    [] type = HandshakeType.KeyUpdate -> <<IF m THEN 1 ELSE 0>>

Damaged(body, damage) ==
  CASE damage.kind = "none"     -> body
    [] damage.kind = "cut"      -> SubSeq(body, 1, Len(body) - 1)
    [] damage.kind = "extended" -> Append(body, 0)
    [] damage.kind = "changed"  -> [body EXCEPT ![damage.at] = (@ + 1) % 256]
    [] damage.kind = "dropped"  -> RemoveAt(body, damage.at)

\* The suites and the extensions of a hello.
ReadClientHello(fragment) ==
  LET sessionID == ReadVector(1, SubSeq(fragment, HandshakeHeaderLen + 35, Len(fragment)))
      suites    == ReadVector(2, sessionID.rest)
      methods   == ReadVector(1, suites.rest)
      extData   == ReadVector(2, methods.rest)
  IN  [suites |-> suites.value, rest |-> extData.rest,
       exts   |-> UnmarshalExtensions(extData.value)]

\* Unmarshal of the extension of a type.
ParsePayload(type, payload) ==
  CASE type = ExtensionType.ServerName -> ParseServerName(payload)
    [] type = ExtensionType.SupportedVersions ->
         ParseSupportedVersionsClient(payload)
    [] type = ExtensionType.SupportedCurves -> ParseSupportedCurves(payload)
    [] type = ExtensionType.SignatureAlgorithms ->
         ParseSignatureAlgorithms(payload)
    [] type = ExtensionType.Cookie -> ParseCookie(payload)
    [] type = ExtensionType.PSKKeyExchangeModes ->
         ParsePSKKeyExchangeModes(payload)
    [] type = ExtensionType.KeyShare -> ParseKeyShareClient(payload)

\* The key that can sign with a scheme.
SigningKey ==
  [scheme \in Range(SignatureScheme) |->
     CASE scheme = SignatureScheme.Ed25519 -> "ed25519"
       [] scheme = SignatureScheme.ECDSAWithP256AndSHA256 -> "ecdsa"
       [] OTHER -> "rsa"]

\* A signature is genuine as the server has made it, under its own key.
Genuine(scheme, signature) ==
  /\ scheme = sent.message.scheme /\ signature = sent.message.signature
  /\ scheme \in DOMAIN SigningKey /\ SigningKey[scheme] = kind

-----------------------------------------------------------------------------
Init ==
  /\ pc = "hello"
  /\ offer \in Offers /\ kind \in KeyKinds
  /\ hello = Nothing /\ sender = "none" /\ sent = Nothing /\ wire = <<>>
  /\ read = Nothing /\ accepted = Nothing

SendClientHello ==
  /\ pc = "hello"
  /\ hello' = NewClientHelloRecord(Random, offer)
  /\ pc' = IF hello'.ok THEN "answer" ELSE "done"
  /\ UNCHANGED <<offer, kind, sender, sent, wire, read, accepted>>

\* The collector lets no message through that has no body, or more of one
\* than the length in the header can say.
MaxBodyLen == 16777215

ServerAnswers ==
  /\ pc = "answer"
  /\ \E answer \in Answers, damage \in Damages :
       LET body == Encode(answer.type, answer.message)
           arrived == Damaged(body, damage)
       IN  /\ damage.kind \in {"changed", "dropped"} => damage.at \in 1 .. Len(body)
           /\ Len(arrived) \in 1 .. MaxBodyLen
           /\ wire' = Framed(answer.type, arrived)
           /\ sent' = [type    |-> answer.type, message |-> answer.message,
                       whole   |-> arrived = body]
  /\ sender' = "server"
  /\ pc' = "unmarshal"
  /\ UNCHANGED <<offer, kind, hello, read, accepted>>

\* NewHandshake of a message the client can marshal, and Marshal.
ClientFrames(type, message, body) ==
  /\ pc = "answer"
  /\ wire' = Framed(type, body)
  /\ sent' = [type |-> type, message |-> message, whole |-> TRUE]
  /\ sender' = "client"
  /\ pc' = "unmarshal"
  /\ UNCHANGED <<offer, kind, hello, read, accepted>>

FrameFinished ==
  ClientFrames(HandshakeType.Finished, <<7, 8>>, MarshalFinished(<<7, 8>>))

FrameKeyUpdate ==
  \E requested \in BOOLEAN :
    ClientFrames(HandshakeType.KeyUpdate, requested, MarshalKeyUpdate(requested))

UnmarshalMessage ==
  /\ pc = "unmarshal"
  /\ read' = Unmarshal(sent.type, wire)
  /\ pc' = IF read'.outcome = "ok" THEN "use" ELSE "done"
  /\ UNCHANGED <<offer, kind, hello, sender, sent, wire, accepted>>

\* The client goes on with a value, or returns an error.
GoOn(value) ==
  /\ pc = "use"
  /\ accepted' = value
  /\ pc' = "done"
  /\ UNCHANGED <<offer, kind, hello, sender, sent, wire, read>>

DeriveSharedSecret ==
  /\ pc = "use" /\ sent.type = HandshakeType.ServerHello
  /\ GoOn(IF DerivesSharedSecret(read.value)
          THEN ServerShare(read.value).data ELSE Nothing)

VerifyChain ==
  /\ pc = "use" /\ sent.type = HandshakeType.Certificate
  /\ GoOn(LeafCertificate(read.value, Parseable))

VerifyCertificateVerify ==
  /\ pc = "use" /\ sent.type = HandshakeType.CertificateVerify
  /\ LET genuine == Genuine(read.value.scheme, read.value.signature)
     IN  GoOn(IF VerifiesSignature(kind, read.value, genuine)
              THEN read.value.signature ELSE Nothing)

Next ==
  \/ SendClientHello \/ ServerAnswers \/ FrameFinished \/ FrameKeyUpdate
  \/ UnmarshalMessage
  \/ DeriveSharedSecret \/ VerifyChain \/ VerifyCertificateVerify

Spec == Init /\ [][Next]_vars

-----------------------------------------------------------------------------
EndsInDot(ext) ==
  /\ ext.type = ExtensionType.ServerName
  /\ ext.data # <<>> /\ Last(ext.data) = Dot

(***************************************************************************)
(* The server finds in the hello what the client has put there, extension  *)
(* by extension and with nothing behind them, when it reads it with the    *)
(* parsers of this repository.  They refuse one thing the client can send: *)
(* a name that ends in a dot (client_hello.go 41-67, server_name 73-76).   *)
(***************************************************************************)
OfferSurvives ==
  pc = "answer" =>
    LET seen == ReadClientHello(hello.fragment)
    IN  /\ seen.suites = Number(2, TLS_CHACHA20_POLY1305_SHA256)
        /\ seen.exts.ok /\ seen.rest = <<>>
        /\ Len(seen.exts.value) = Len(offer)
        /\ \A i \in 1 .. Len(offer) :
             LET ext    == seen.exts.value[i]
                 parsed == ParsePayload(offer[i].type, ext.payload)
             IN  /\ ext.type = offer[i].type
                 /\ parsed.ok <=> ~EndsInDot(offer[i])
                 /\ parsed.ok => parsed.value = offer[i].data

FromServer == sender = "server" /\ pc \in {"use", "done"}

\* A ServerHello may leave the list of its extensions out.
Encodings(type, value) ==
  LET body == Encode(type, value)
  IN  IF type = HandshakeType.ServerHello /\ value.extensions = <<>>
      THEN {body, SubSeq(body, 1, Len(body) - 2)} ELSE {body}

\* The cookie of a payload, and the key share: all of it, behind its length.
SpellsCookie(payload) ==
  Len(payload) > 2 /\ payload = Vector(2, SubSeq(payload, 3, Len(payload)))

SpellsShare(payload) ==
  /\ Len(payload) >= 4
  /\ payload = SubSeq(payload, 1, 2) \o Vector(2, SubSeq(payload, 5, Len(payload)))

\* A list of schemes that is not empty; there may be bytes behind it.
SpellsSchemes(payload) ==
  \E n \in 1 .. Len(payload) - 2 :
    n % 2 = 0 /\ SubSeq(payload, 1, 2) = Number(2, n)

LegalInServerHello(ext) ==
  CASE ext.type = ExtensionType.SupportedVersions -> Len(ext.payload) = 2
    [] ext.type = ExtensionType.Cookie   -> SpellsCookie(ext.payload)
    [] ext.type = ExtensionType.KeyShare ->
         Len(ext.payload) = 2 \/ SpellsShare(ext.payload)
    [] OTHER -> TRUE

LegalInRequest(ext) ==
  CASE ext.type \in {ExtensionType.SignatureAlgorithms,
                     ExtensionType.SignatureAlgorithmsCert} ->
         SpellsSchemes(ext.payload)
    [] ext.type = ExtensionType.CertificateAuthorities ->
         ParseCertificateAuthorities(ext.payload).ok
    [] OTHER -> TRUE

\* Whether a client should take a message: its extensions are those a server
\* may send.
Legal(type, m) ==
  CASE type = HandshakeType.ServerHello ->
         /\ ~Duplicate(m.extensions)
         /\ \A i \in 1 .. Len(m.extensions) : LegalInServerHello(m.extensions[i])
    [] type = HandshakeType.EncryptedExtensions ->
         /\ ~Duplicate(m)
         /\ \A i \in 1 .. Len(m) :
              m[i].type = ExtensionType.ServerName => m[i].payload = <<>>
    [] type = HandshakeType.CertificateRequest ->
         \A i \in 1 .. Len(m) : LegalInRequest(m[i])
    [] OTHER -> TRUE

(***************************************************************************)
(* A parser takes a whole message exactly when it should, as it was sent,  *)
(* and takes no damaged one for something it does not spell out: the       *)
(* fields it has read are all of the bytes.  Only EncryptedExtensions may  *)
(* have bytes behind its list (server_hello.go 25-105, certificate.go      *)
(* 17-53, encrypted_extensions.go 36-45).                                  *)
(***************************************************************************)
ReadingIsExact ==
  FromServer =>
    /\ sent.whole => (read.outcome = "ok" <=> Legal(sent.type, sent.message))
    /\ read.outcome = "ok" =>
         /\ sent.whole => read.value = sent.message
         /\ \E body \in Encodings(sent.type, read.value) :
              wire = Framed(sent.type, body \o read.rest)
         /\ read.rest # <<>> => sent.type = HandshakeType.EncryptedExtensions

(***************************************************************************)
(* No message the collector passes on makes a parser slice out of range,   *)
(* although EncryptedExtensions slices by the length in the header without *)
(* a look at the bytes there are (encrypted_extensions.go 23-30).          *)
(***************************************************************************)
SlicesInRange == read # Nothing => read.outcome # "panic"

\* The schemes that the server has found in the hello.
SchemesSeen ==
  LET exts  == ReadClientHello(hello.fragment).exts.value
      lists == {i \in 1 .. Len(exts) :
                  exts[i].type = ExtensionType.SignatureAlgorithms}
  IN  UNION {Range(ParseSignatureAlgorithms(exts[i].payload).value) : i \in lists}

(***************************************************************************)
(* What the client goes on with is the server's: a secret only from the    *)
(* one key share of 32 bytes the hello has, never from a HelloRetryRequest *)
(* (whatever group it selects, zero included); the first certificate of    *)
(* the list, if all of them parse; and a signature exactly when it is      *)
(* genuine under a scheme the server has found in the client's offer       *)
(* (server_hello.go 121-136, verify.go 76-140).                            *)
(***************************************************************************)
GoesOnWithTheServers ==
  FromServer /\ pc = "done" /\ read.outcome = "ok" =>
    CASE sent.type = HandshakeType.ServerHello ->
           accepted # Nothing =>
             \E i \in Shares(read.value.extensions) :
               /\ Shares(read.value.extensions) = {i}
               /\ Len(accepted) = X25519KeyLen
               /\ \E group \in Uint16 :
                    read.value.extensions[i].payload
                      = Number(2, group) \o Vector(2, accepted)
      [] sent.type = HandshakeType.Certificate /\ sent.whole ->
           accepted =
             IF sent.message # <<>>
                /\ {sent.message[i].cert : i \in 1 .. Len(sent.message)}
                     \subseteq Parseable
             THEN Head(sent.message).cert ELSE Nothing
      [] sent.type = HandshakeType.CertificateVerify
         /\ NewSignatureAlgorithmsExtension \in Range(offer) ->
           accepted # Nothing <=>
             /\ Genuine(read.value.scheme, read.value.signature)
             /\ read.value.signature # <<>>
             /\ read.value.scheme \in SchemesSeen
      [] OTHER -> TRUE

(***************************************************************************)
(* A message the client frames is read back by the parser of its type, the *)
(* body behind one header of four bytes (handshake.go 12-17).              *)
(***************************************************************************)
FramedReadsBack ==
  sender = "client" /\ pc \in {"use", "done"} =>
    read.outcome = "ok" /\ read.value = sent.message
=============================================================================
