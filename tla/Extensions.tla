------------------------------ MODULE Extensions ------------------------------
(***************************************************************************)
(* The TLS extensions as bytes: how internal/messages/record/handshake/    *)
(* extensions writes and parses them.  The readers and the writers of      *)
(* vectors are those of golang.org/x/crypto/cryptobyte.                    *)
(***************************************************************************)
EXTENDS Integers, SequencesExt

Byte == 0 .. 255

-----------------------------------------------------------------------------
\* A number in `width' bytes, and back.
Number(width, n) == [i \in 1 .. width |-> (n \div 256 ^ (width - i)) % 256]

Value(bytes) == FoldLeft(LAMBDA n, byte : 256 * n + byte, 0, bytes)

\* Bytes behind their length.
Vector(width, bytes) == Number(width, Len(bytes)) \o bytes

Numbers(width, ns) == FlattenSeq([i \in 1 .. Len(ns) |-> Number(width, ns[i])])

(***************************************************************************)
(* A reader returns whether there was something to read, what it is, and   *)
(* the bytes behind it.                                                    *)
(***************************************************************************)
Read(width, bytes) ==
  IF Len(bytes) < width THEN [ok |-> FALSE, value |-> <<>>, rest |-> bytes]
  ELSE [ok    |-> TRUE,
        value |-> SubSeq(bytes, 1, width),
        rest  |-> SubSeq(bytes, width + 1, Len(bytes))]

ReadVector(width, bytes) ==
  LET length == Read(width, bytes)
  IN  IF length.ok THEN Read(Value(length.value), length.rest) ELSE length

\* The elements that bytes consist of.
ReadAll(ReadOne(_), bytes) ==
  LET From[i \in 1 .. Len(bytes) + 1] ==
        IF i > Len(bytes) THEN [ok |-> TRUE, value |-> <<>>]
        ELSE LET one    == ReadOne(SubSeq(bytes, i, Len(bytes)))
                 others == From[Len(bytes) + 1 - Len(one.rest)]
             IN  IF ~one.ok THEN [ok |-> FALSE, value |-> <<>>]
                 ELSE [ok |-> others.ok, value |-> <<one.value>> \o others.value]
  IN  From[1]

\* A list of numbers that is not empty and has no part of one.
ReadNumbers(prefix, width, payload) ==
  LET list == ReadVector(prefix, payload)
  IN  [ok    |-> list.ok /\ list.value # <<>> /\ Len(list.value) % width = 0,
       value |-> [i \in 1 .. Len(list.value) \div width |->
                    Value(SubSeq(list.value, width * (i - 1) + 1, width * i))]]

-----------------------------------------------------------------------------
ExtensionType ==
  [ServerName |-> 0, SupportedCurves |-> 10, SignatureAlgorithms |-> 13,
   SupportedVersions |-> 43, Cookie |-> 44, PSKKeyExchangeModes |-> 45,
   CertificateAuthorities |-> 47, SignatureAlgorithmsCert |-> 50,
   KeyShare |-> 51]

HostName == 0
Dot      == 46

MarshalKeyShare(share) == Number(2, share.group) \o Vector(2, share.data)

\* A list of modes under a length of two bytes.
MarshalModesWide(modes) == Vector(2, Numbers(1, modes))

MarshalModes(modes) == Vector(1, Numbers(1, modes))

\* MarshalPayload of the extension of a type.
MarshalPayload(type, data) ==
  CASE type = ExtensionType.ServerName ->
         Vector(2, <<HostName>> \o Vector(2, data))
    [] type = ExtensionType.SupportedVersions -> Vector(1, Numbers(2, data))
    [] type \in {ExtensionType.SupportedCurves,
                 ExtensionType.SignatureAlgorithms} -> Vector(2, Numbers(2, data))
    [] type = ExtensionType.Cookie -> Vector(2, data)
    [] type = ExtensionType.PSKKeyExchangeModes -> MarshalModes(data)
    [] type = ExtensionType.KeyShare ->
         Vector(2, FlattenSeq([i \in 1 .. Len(data) |-> MarshalKeyShare(data[i])]))

NewExtension(type, data) ==
  [type |-> type, payload |-> MarshalPayload(type, data)]

\* Extension.Marshal
MarshalExtension(ext) == Number(2, ext.type) \o Vector(2, ext.payload)

MarshalExtensions(exts) ==
  FlattenSeq([i \in 1 .. Len(exts) |-> MarshalExtension(exts[i])])

ReadExtension(bytes) ==
  LET type    == Read(2, bytes)
      payload == ReadVector(2, type.rest)
  IN  [ok    |-> type.ok /\ payload.ok,
       value |-> [type |-> Value(type.value), payload |-> payload.value],
       rest  |-> payload.rest]

UnmarshalExtensions(bytes) == ReadAll(ReadExtension, bytes)

-----------------------------------------------------------------------------
\* The parsers of the payloads.  Bytes behind a list are not looked at,
\* except where a parser says so.
ReadName(bytes) ==
  LET type == Read(1, bytes)
      name == ReadVector(2, type.rest)
  IN  [ok    |-> type.ok /\ name.ok,
       value |-> [type |-> Value(type.value), name |-> name.value],
       rest  |-> name.rest]

\* The first host name of the list, if the list is sound up to there.
ParseServerName(payload) ==
  LET list == ReadVector(2, payload)
      First[i \in 1 .. Len(list.value) + 1] ==
        LET one == ReadName(SubSeq(list.value, i, Len(list.value)))
        IN  IF i > Len(list.value) THEN [ok |-> TRUE, value |-> <<>>]
            ELSE IF ~one.ok THEN [ok |-> FALSE, value |-> <<>>]
            ELSE IF one.value.type = HostName
                 THEN [ok    |-> \/ one.value.name = <<>>
                                 \/ Last(one.value.name) # Dot,
                       value |-> one.value.name]
            ELSE First[Len(list.value) + 1 - Len(one.rest)]
  IN  IF list.ok THEN First[1] ELSE [ok |-> FALSE, value |-> <<>>]

ParseSupportedVersionsClient(payload) == ReadNumbers(1, 2, payload)

ParseSupportedVersionsServer(payload) ==
  [ok |-> Len(payload) = 2, value |-> Value(payload)]

ParseSupportedCurves(payload) == ReadNumbers(2, 2, payload)

ParseSignatureAlgorithms(payload) == ReadNumbers(2, 2, payload)

ParsePSKKeyExchangeModes(payload) == ReadNumbers(1, 1, payload)

ParseCookie(payload) ==
  LET cookie == ReadVector(2, payload)
  IN  [ok    |-> cookie.ok /\ cookie.value # <<>> /\ cookie.rest = <<>>,
       value |-> cookie.value]

ReadKeyShare(bytes) ==
  LET group == Read(2, bytes)
      data  == ReadVector(2, group.rest)
  IN  [ok    |-> group.ok /\ data.ok,
       value |-> [group |-> Value(group.value), data |-> data.value],
       rest  |-> data.rest]

ParseKeyShareClient(payload) ==
  LET list == ReadVector(2, payload)
  IN  IF list.ok THEN ReadAll(ReadKeyShare, list.value)
      ELSE [ok |-> FALSE, value |-> <<>>]

\* A payload of two bytes is a HelloRetryRequest that selects a group.
NoShare == [group |-> 0, data |-> <<>>]

ParseKeyShareServer(payload) ==
  LET share == ReadKeyShare(payload)
  IN  IF Len(payload) = 2
      THEN [ok |-> TRUE, share |-> NoShare, selectedGroup |-> Value(payload)]
      ELSE [ok            |-> share.ok /\ share.rest = <<>>,
            share         |-> share.value,
            selectedGroup |-> 0]
=============================================================================
