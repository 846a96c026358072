---------------------------- MODULE MessageCodecs ----------------------------
(***************************************************************************)
(* The handshake messages as bytes (internal/messages/record/handshake)    *)
(* and what the client makes of them: its hello, the parsers of the        *)
(* server's messages, and the checks behind them that look into a message  *)
(* (internal/utils/client_flow.go, internal/cert).                         *)
(*                                                                         *)
(* What an Unmarshal returns is its outcome, the fields it has read and    *)
(* the bytes it leaves behind them.  A slice out of range is a panic.      *)
(***************************************************************************)
EXTENDS Extensions

HandshakeHeaderLen == 4
MaxPayloadLen      == 16384

HandshakeType ==
  [ClientHello |-> 1, ServerHello |-> 2, EncryptedExtensions |-> 8,
   Certificate |-> 11, CertificateRequest |-> 13, CertificateVerify |-> 15,
   Finished |-> 20, KeyUpdate |-> 24]

TLSVersion == [TLS12 |-> 771, TLS13 |-> 772]

TLS_CHACHA20_POLY1305_SHA256 == 4867   \* 0x1303

CurveID == [P256 |-> 23, X25519 |-> 29]

SignatureScheme ==
  [PKCS1WithSHA256 |-> 1025, ECDSAWithP256AndSHA256 |-> 1027,
   PSSWithSHA256 |-> 2052, Ed25519 |-> 2055, PKCS1WithSHA384 |-> 1281]

-----------------------------------------------------------------------------
\* NewHandshake and Marshal: a body behind its header.
Framed(type, body) == <<type>> \o Vector(3, body)

\* The extensions of NewClientHelloRecord, before they are bytes.
NewServerNameExtension(name) ==
  [type |-> ExtensionType.ServerName, data |-> name]

NewSupportedVersionsExtension ==
  [type |-> ExtensionType.SupportedVersions, data |-> <<TLSVersion.TLS13>>]

NewSupportedGroupsExtension ==
  [type |-> ExtensionType.SupportedCurves, data |-> <<CurveID.X25519>>]

\* A list with a scheme that the verifier has no case for.
OfferedSchemesWide ==
  <<SignatureScheme.ECDSAWithP256AndSHA256, SignatureScheme.PSSWithSHA256,
    SignatureScheme.PKCS1WithSHA384, SignatureScheme.Ed25519>>

OfferedSchemes ==
  <<SignatureScheme.ECDSAWithP256AndSHA256, SignatureScheme.PSSWithSHA256,
    SignatureScheme.PKCS1WithSHA256, SignatureScheme.Ed25519>>

NewSignatureAlgorithmsExtension ==
  [type |-> ExtensionType.SignatureAlgorithms, data |-> OfferedSchemes]

NewKeyShareExtension(publicKey) ==
  [type |-> ExtensionType.KeyShare,
   data |-> <<[group |-> CurveID.X25519, data |-> publicKey]>>]

NewPskKeyExchangeModesExtension ==
  [type |-> ExtensionType.PSKKeyExchangeModes, data |-> <<1>>]

ClientExtensions(name, publicKey) ==
  <<NewServerNameExtension(name), NewSupportedVersionsExtension,
    NewSupportedGroupsExtension, NewSignatureAlgorithmsExtension,
    NewKeyShareExtension(publicKey)>>

\* No session ID and the one compression method.
MarshalClientHello(random, exts) ==
  LET payloads == [i \in 1 .. Len(exts) |-> NewExtension(exts[i].type, exts[i].data)]
  IN  Number(2, TLSVersion.TLS12) \o random \o Vector(1, <<>>)
        \o Vector(2, Number(2, TLS_CHACHA20_POLY1305_SHA256)) \o Vector(1, <<0>>)
        \o (IF exts = <<>> THEN <<>> ELSE Vector(2, MarshalExtensions(payloads)))

\* NewTLSPlaintext takes a fragment of at most MaxPayloadLen bytes.
NewClientHelloRecord(random, exts) ==
  LET fragment == Framed(HandshakeType.ClientHello,
                         MarshalClientHello(random, exts))
  IN  [ok |-> Len(fragment) <= MaxPayloadLen, fragment |-> fragment]

-----------------------------------------------------------------------------
Result(ok, value, rest) ==
  [outcome |-> IF ok THEN "ok" ELSE "error", value |-> value, rest |-> rest]

Panic == [outcome |-> "panic", value |-> <<>>, rest |-> <<>>]

\* A message without its header, and bytes that have none as they are.
HasHeader(type, data) ==
  Len(data) >= HandshakeHeaderLen /\ data[1] = type

Body(type, data) ==
  IF HasHeader(type, data)
  THEN SubSeq(data, HandshakeHeaderLen + 1, Len(data)) ELSE data

Duplicate(exts) ==
  \E i, j \in 1 .. Len(exts) : i # j /\ exts[i].type = exts[j].type

\* The extensions a ServerHello may have are parsed, and then dropped.
ServerExtensionParses(ext) ==
  CASE ext.type = ExtensionType.SupportedVersions ->
         ParseSupportedVersionsServer(ext.payload).ok
    [] ext.type = ExtensionType.Cookie   -> ParseCookie(ext.payload).ok
    [] ext.type = ExtensionType.KeyShare -> ParseKeyShareServer(ext.payload).ok
    [] OTHER -> TRUE

ServerExtensionsOK(exts) ==
  /\ ~Duplicate(exts)
  /\ \A i \in 1 .. Len(exts) : ServerExtensionParses(exts[i])

UnmarshalServerHello(data) ==
  LET version   == Read(2, Body(HandshakeType.ServerHello, data))
      random    == Read(32, version.rest)
      sessionID == ReadVector(1, random.rest)
      suite     == Read(2, sessionID.rest)
      method    == Read(1, suite.rest)
      extData   == ReadVector(2, method.rest)
      exts      == UnmarshalExtensions(extData.value)
      fields    ==
        [version     |-> Value(version.value), random |-> random.value,
         sessionID   |-> sessionID.value, cipherSuite |-> Value(suite.value),
         compression |-> Value(method.value),
         extensions  |-> IF method.rest = <<>> THEN <<>> ELSE exts.value]
  IN  IF ~(version.ok /\ random.ok /\ sessionID.ok /\ suite.ok /\ method.ok)
      THEN Result(FALSE, <<>>, <<>>)
      ELSE IF method.rest = <<>> THEN Result(TRUE, fields, <<>>)
      ELSE Result(/\ extData.ok /\ extData.rest = <<>>
                  /\ exts.ok /\ ServerExtensionsOK(exts.value), fields, <<>>)

\* The length from the bytes one too early.
ShiftedLength(data) == Value(SubSeq(data, 1, 3))

MessageLength(data) == Value(SubSeq(data, 2, HandshakeHeaderLen))

\* The one parser that slices by the length in the header, and does not ask
\* whether there are bytes behind its list.
UnmarshalEncryptedExtensions(data) ==
  LET type == HandshakeType.EncryptedExtensions
      end  == HandshakeHeaderLen + MessageLength(data)
      body == IF HasHeader(type, data) THEN SubSeq(data, HandshakeHeaderLen + 1, end)
              ELSE data
      extData == ReadVector(2, body)
      exts    == UnmarshalExtensions(extData.value)
  IN  IF HasHeader(type, data) /\ end > Len(data) THEN Panic
      ELSE Result(/\ extData.ok /\ exts.ok /\ ~Duplicate(exts.value)
                  /\ \A i \in 1 .. Len(exts.value) :
                       exts.value[i].type = ExtensionType.ServerName
                         => exts.value[i].payload = <<>>,
                  exts.value, extData.rest)

ReadCertificateEntry(bytes) ==
  LET cert == ReadVector(3, bytes)
      exts == ReadVector(2, cert.rest)
  IN  [ok    |-> cert.ok /\ exts.ok,
       value |-> [cert |-> cert.value, exts |-> exts.value],
       rest  |-> exts.rest]

UnmarshalCertificate(data) ==
  LET context == ReadVector(1, Body(HandshakeType.Certificate, data))
      list    == ReadVector(3, context.rest)
      entries == ReadAll(ReadCertificateEntry, list.value)
  IN  Result(/\ context.ok /\ context.value = <<>>
             /\ list.ok /\ list.rest = <<>>
             /\ entries.ok, entries.value, <<>>)

\* A parser that does not look behind the signature.
UnmarshalCertificateVerifyLoose(data) ==
  LET scheme    == Read(2, Body(HandshakeType.CertificateVerify, data))
      signature == ReadVector(2, scheme.rest)
  IN  Result(scheme.ok /\ signature.ok,
             [scheme |-> Value(scheme.value), signature |-> signature.value],
             <<>>)

UnmarshalCertificateVerify(data) ==
  LET scheme    == Read(2, Body(HandshakeType.CertificateVerify, data))
      signature == ReadVector(2, scheme.rest)
  IN  Result(scheme.ok /\ signature.ok /\ signature.rest = <<>>,
             [scheme |-> Value(scheme.value), signature |-> signature.value],
             <<>>)

\* The authorities are not empty, and neither is their list.
ReadAuthority(bytes) ==
  LET ca == ReadVector(2, bytes)
  IN  [ca EXCEPT !.ok = @ /\ ca.value # <<>>]

ParseCertificateAuthorities(payload) ==
  LET list == ReadVector(2, payload)
      cas  == ReadAll(ReadAuthority, list.value)
  IN  [ok    |-> list.ok /\ list.value # <<>> /\ list.rest = <<>> /\ cas.ok,
       value |-> cas.value]

RequestExtensionParses(ext) ==
  CASE ext.type \in {ExtensionType.SignatureAlgorithms,
                     ExtensionType.SignatureAlgorithmsCert} ->
         ParseSignatureAlgorithms(ext.payload).ok
    [] ext.type = ExtensionType.CertificateAuthorities ->
         ParseCertificateAuthorities(ext.payload).ok
    [] OTHER -> TRUE

UnmarshalCertificateRequest(data) ==
  LET context == ReadVector(1, Body(HandshakeType.CertificateRequest, data))
      extData == ReadVector(2, context.rest)
      exts    == UnmarshalExtensions(extData.value)
  IN  Result(/\ context.ok /\ context.value = <<>>
             /\ extData.ok /\ extData.rest = <<>> /\ exts.ok
             /\ \A i \in 1 .. Len(exts.value) :
                  RequestExtensionParses(exts.value[i]), exts.value, <<>>)

\* Finished is never without its header, whatever the type in it.
UnmarshalFinished(data) ==
  LET type       == Read(1, data)
      verifyData == ReadVector(3, type.rest)
  IN  Result(type.ok /\ verifyData.ok /\ verifyData.rest = <<>>,
             verifyData.value, <<>>)

UnmarshalKeyUpdate(data) ==
  LET body == Body(HandshakeType.KeyUpdate, data)
  IN  Result(body \in {<<0>>, <<1>>}, body = <<1>>, <<>>)

Unmarshal(type, data) ==
  CASE type = HandshakeType.ServerHello -> UnmarshalServerHello(data)
    [] type = HandshakeType.EncryptedExtensions ->
         UnmarshalEncryptedExtensions(data)
    [] type = HandshakeType.Certificate -> UnmarshalCertificate(data)
    [] type = HandshakeType.CertificateRequest ->
         UnmarshalCertificateRequest(data)
    [] type = HandshakeType.CertificateVerify -> UnmarshalCertificateVerify(data)
    [] type = HandshakeType.Finished -> UnmarshalFinished(data)
    [] type = HandshakeType.KeyUpdate -> UnmarshalKeyUpdate(data)

-----------------------------------------------------------------------------
\* The messages the client can marshal besides its hello: a Finished is its
\* data, a KeyUpdate a header and a byte.
MarshalFinished(verifyData) == verifyData

MarshalKeyUpdate(requested) ==
  <<HandshakeType.KeyUpdate>> \o Number(3, 1) \o <<IF requested THEN 1 ELSE 0>>

-----------------------------------------------------------------------------
(***************************************************************************)
(* What is done with the fields.                                           *)
(***************************************************************************)
X25519KeyLen == 32

\* The places of the key shares in a list.
Shares(exts) ==
  {i \in 1 .. Len(exts) : exts[i].type = ExtensionType.KeyShare}

\* ServerShare, before it is known to be a key: the first of the list.
ServerShare(serverHello) ==
  LET exts  == serverHello.extensions
      first == ParseKeyShareServer(exts[Min(Shares(exts))].payload)
  IN  IF Shares(exts) = {} THEN [ok |-> FALSE, data |-> <<>>]
      ELSE [ok   |-> first.ok /\ first.selectedGroup = 0,
            data |-> first.share.data]

\* DeriveTLS13SharedSecretFromServerHello: the share has the length of a key
\* of X25519, whichever group it is under.
DerivesSharedSecret(serverHello) ==
  LET share == ServerShare(serverHello)
  IN  share.ok /\ Len(share.data) = X25519KeyLen

\* The kinds of public key that a scheme is verified with.
KeyKind(scheme) ==
  CASE scheme = SignatureScheme.Ed25519 -> {"ed25519"}
    [] scheme = SignatureScheme.ECDSAWithP256AndSHA256 -> {"ecdsa"}
    [] scheme \in {SignatureScheme.PSSWithSHA256,
                   SignatureScheme.PKCS1WithSHA256} -> {"rsa"}
    [] OTHER -> {}

(***************************************************************************)
(* VerifyTLS13ServerCertificateVerify, under the key of the leaf:          *)
(* `genuine' is whether the signature is one of that key and scheme over   *)
(* the transcript.                                                         *)
(***************************************************************************)
VerifiesSignature(kind, message, genuine) ==
  /\ message.signature # <<>>
  /\ kind \in KeyKind(message.scheme)
  /\ genuine

\* ParseX509CertificatesFromDER and FirstCertificate: the leaf is the first
\* of the list, and all of it must parse.
LeafCertificate(entries, parseable) ==
  IF entries # <<>> /\ \A i \in 1 .. Len(entries) : entries[i].cert \in parseable
  THEN entries[1].cert ELSE <<>>
=============================================================================
