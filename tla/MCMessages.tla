------------------------------ MODULE MCMessages ------------------------------
(***************************************************************************)
(* A small instance of Messages for TLC: the hello of the program and two  *)
(* of the library, and messages of every type, sound and not, with every   *)
(* byte of them changed or dropped.                                        *)
(***************************************************************************)
EXTENDS Messages

Bytes(n, byte) == [i \in 1 .. n |-> byte]

SomeRandom == Bytes(32, 9)
ShareBytes == Bytes(X25519KeyLen, 5)

SomeOffers ==
  {ClientExtensions(Bytes(300, 97), ShareBytes),
   ClientExtensions(<<97, Dot>>, ShareBytes),
   <<NewPskKeyExchangeModesExtension,
     [type |-> ExtensionType.Cookie, data |-> <<1, 2>>],
     [type |-> ExtensionType.SupportedVersions,
      data |-> <<TLSVersion.TLS13, TLSVersion.TLS12>>],
     [type |-> ExtensionType.KeyShare,
      data |-> <<[group |-> CurveID.P256, data |-> <<>>],
                 [group |-> CurveID.X25519, data |-> ShareBytes]>>]>>,
   <<>>,
   ClientExtensions(Bytes(MaxPayloadLen, 97), ShareBytes)}

A(type, message) == [type |-> type, message |-> message]

E(type, payload) == [type |-> type, payload |-> payload]

AHello(exts) ==
  A(HandshakeType.ServerHello,
    [version |-> TLSVersion.TLS12, random |-> SomeRandom, sessionID |-> <<>>,
     cipherSuite |-> TLS_CHACHA20_POLY1305_SHA256, compression |-> 0,
     extensions |-> exts])

AShare(group, data) ==
  E(ExtensionType.KeyShare, MarshalKeyShare([group |-> group, data |-> data]))

Version13 == E(ExtensionType.SupportedVersions, Number(2, TLSVersion.TLS13))

SomeHellos ==
  {AHello(<<>>),
   AHello(<<Version13, AShare(CurveID.X25519, ShareBytes)>>),
   AHello(<<AShare(CurveID.P256, Bytes(33, 4)), Version13>>),
   AHello(<<E(ExtensionType.KeyShare, Number(2, CurveID.P256))>>),
   AHello(<<E(ExtensionType.KeyShare, <<0, 0>>)>>),
   AHello(<<Version13, Version13>>),
   AHello(<<E(ExtensionType.Cookie, <<0, 0>>)>>),
   AHello(<<E(ExtensionType.SupportedVersions, <<3>>)>>)}

SomeExtensions ==
  {A(HandshakeType.EncryptedExtensions, <<>>),
   A(HandshakeType.EncryptedExtensions,
     <<E(ExtensionType.ServerName, <<>>), E(ExtensionType.SupportedCurves, <<0, 0>>)>>),
   A(HandshakeType.EncryptedExtensions,
     <<E(ExtensionType.ServerName, <<1>>)>>),
   A(HandshakeType.EncryptedExtensions,
     <<E(ExtensionType.Cookie, <<>>), E(ExtensionType.Cookie, <<>>)>>),
   A(HandshakeType.CertificateRequest,
     <<E(ExtensionType.SignatureAlgorithms, Vector(2, <<4, 3>>)),
       E(ExtensionType.CertificateAuthorities, Vector(2, Vector(2, <<1>>)))>>),
   A(HandshakeType.CertificateRequest,
     <<E(ExtensionType.SignatureAlgorithmsCert, Vector(2, <<>>))>>),
   A(HandshakeType.CertificateRequest,
     <<E(ExtensionType.CertificateAuthorities, Vector(2, Vector(2, <<>>)))>>)}

Entry(cert) == [cert |-> cert, exts |-> <<>>]

SomeParseable == {<<48, 1>>, <<48, 2>>}

SomeCertificates ==
  {A(HandshakeType.Certificate, <<>>),
   A(HandshakeType.Certificate, <<Entry(<<48, 1>>), Entry(<<48, 2>>)>>),
   A(HandshakeType.Certificate, <<Entry(<<48, 2>>), Entry(<<9>>)>>),
   A(HandshakeType.Certificate, <<[cert |-> <<48, 2>>, exts |-> <<3>>]>>)}

SomeSignatures ==
  {A(HandshakeType.CertificateVerify,
     [scheme |-> scheme, signature |-> signature]) :
     scheme \in Range(SignatureScheme), signature \in {<<>>, <<7, 7, 7>>}}

SomeAnswers ==
  SomeHellos \union SomeExtensions \union SomeCertificates \union SomeSignatures
    \union {A(HandshakeType.Finished, <<1, 2, 3>>)}
    \union {A(HandshakeType.KeyUpdate, b) : b \in BOOLEAN}

SomeDamages ==
  [kind : {"none", "cut", "extended"}, at : {0}]
    \union [kind : {"changed", "dropped"}, at : 1 .. 90]

SomeKeyKinds == {"ed25519", "ecdsa", "rsa"}
=============================================================================
