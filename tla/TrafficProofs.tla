---------------------------- MODULE TrafficProofs ----------------------------
(***************************************************************************)
(* Proofs about Traffic, for every set of views, requests and answers.     *)
(* Secrets are terms, so that two of them are equal exactly when they are  *)
(* made of the same parts; from this the keys of the two sides are shown   *)
(* to agree when their handshakes do, and from the keys and the round trip *)
(* of the inner plaintext what each side finds in the other's records.     *)
(***************************************************************************)
EXTENDS Traffic, SequenceTheorems, WellFoundedInduction, TLAPS

-----------------------------------------------------------------------------
(* Numbers.                                                                *)

\* A set of numbers that is not empty has a least element.
LEMMA LeastNumber ==
  ASSUME NEW T \in SUBSET Nat, T # {}
  PROVE  \E x \in T : \A y \in T : ~(y < x)
<1> DEFINE Less == OpToRel(<, Nat)
<1>1. IsWellFoundedOn(Less, Nat)
  BY NatLessThanWellFounded
<1>2. \A a, b \in Nat : <<a, b>> \in Less <=> a < b
  BY DEF OpToRel
<1> HIDE DEF Less
<1>3. \E x \in T : \A y \in T : ~(<<y, x>> \in Less)
  BY <1>1, WFMin
<1>4. QED
  BY <1>2, <1>3

\* A set of numbers that has a bound and is not empty has a largest element.
LEMMA LargestNumber ==
  ASSUME NEW n \in Nat, NEW S \in SUBSET (1 .. n), S # {}
  PROVE  \E m \in S : \A k \in S : k <= m
<1> DEFINE T == {b \in Nat : \A k \in S : k <= b}
<1>1. n \in T
  OBVIOUS
<1>2. PICK m \in T : \A b \in T : ~(b < m)
  BY <1>1, LeastNumber
<1>3. m \in S
  <2> SUFFICES ASSUME m \notin S PROVE FALSE
    OBVIOUS
  <2>1. \A k \in S : k \in Nat /\ k # 0 /\ k <= m /\ k # m
    BY <1>2
  <2>2. m \in Nat /\ \A k \in S : k <= m - 1
    BY <1>2, <2>1
  <2>3. m - 1 \in Nat
    <3>1. PICK k \in S : k \in Nat /\ k # 0 /\ k <= m - 1
      BY <2>1, <2>2
    <3>2. QED
      BY <2>2, <3>1
  <2>4. m - 1 \in T
    BY <2>2, <2>3
  <2>5. QED
    BY <1>2, <2>2, <2>4
<1>4. QED
  BY <1>2, <1>3

-----------------------------------------------------------------------------
(* Terms.                                                                  *)

\* An operation gives the same term for the same parts only.
LEMMA ExpandParts ==
  ASSUME NEW s, NEW l, NEW c, NEW t, NEW m, NEW d
  PROVE  HkdfExpandLabel(s, l, c) = HkdfExpandLabel(t, m, d)
           <=> s = t /\ l = m /\ c = d
<1> DEFINE a == HkdfExpandLabel(s, l, c)
           b == HkdfExpandLabel(t, m, d)
<1>1. /\ a.secret = s /\ a.label = l /\ a.context = c
      /\ b.secret = t /\ b.label = m /\ b.context = d
  BY DEF HkdfExpandLabel
<1> HIDE DEF a, b
<1>2. a = b => s = t /\ l = m /\ c = d
  BY <1>1
<1>3. QED
  BY <1>2, Zenon DEF a, b

LEMMA ExtractParts ==
  ASSUME NEW s, NEW i, NEW t, NEW j
  PROVE  HkdfExtract(s, i) = HkdfExtract(t, j) <=> s = t /\ i = j
<1> DEFINE a == HkdfExtract(s, i)
           b == HkdfExtract(t, j)
<1>1. a.salt = s /\ a.ikm = i /\ b.salt = t /\ b.ikm = j
  BY DEF HkdfExtract
<1> HIDE DEF a, b
<1>2. a = b => s = t /\ i = j
  BY <1>1
<1>3. QED
  BY <1>2, Zenon DEF a, b

LEMMA HashParts ==
  ASSUME NEW t, NEW u PROVE Hash(t) = Hash(u) <=> t = u
<1> DEFINE a == Hash(t)
           b == Hash(u)
<1>1. a.of = t /\ b.of = u
  BY DEF Hash
<1> HIDE DEF a, b
<1>2. a = b => t = u
  BY <1>1
<1>3. QED
  BY <1>2, Zenon DEF a, b

LEMMA HmacParts ==
  ASSUME NEW k, NEW d, NEW l, NEW e
  PROVE  Hmac(k, d) = Hmac(l, e) <=> k = l /\ d = e
<1> DEFINE a == Hmac(k, d)
           b == Hmac(l, e)
<1>1. a.key = k /\ a.data = d /\ b.key = l /\ b.data = e
  BY DEF Hmac
<1> HIDE DEF a, b
<1>2. a = b => k = l /\ d = e
  BY <1>1
<1>3. QED
  BY <1>2, Zenon DEF a, b

\* Two secrets have the same key, or the same IV, when they are the same.
LEMMA TrafficKeyParts ==
  ASSUME NEW s, NEW t
  PROVE  /\ TrafficKey(s).key = HkdfExpandLabel(s, "key", NoContext)
         /\ TrafficKey(s).key = TrafficKey(t).key <=> s = t
         /\ TrafficKey(s).iv = TrafficKey(t).iv <=> s = t
<1>1. /\ TrafficKey(s).key = HkdfExpandLabel(s, "key", NoContext)
      /\ TrafficKey(t).key = HkdfExpandLabel(t, "key", NoContext)
      /\ TrafficKey(s).iv = HkdfExpandLabel(s, "iv", NoContext)
      /\ TrafficKey(t).iv = HkdfExpandLabel(t, "iv", NoContext)
  BY DEF TrafficKey
<1>2. /\ HkdfExpandLabel(s, "key", NoContext) = HkdfExpandLabel(t, "key", NoContext)
           <=> s = t
      /\ HkdfExpandLabel(s, "iv", NoContext) = HkdfExpandLabel(t, "iv", NoContext)
           <=> s = t
  BY ExpandParts
<1>3. QED
  BY <1>1, <1>2

\* A shared key is that of the two who have each other's public key.
LEMMA SharedKeyParts ==
  ASSUME NEW c, NEW s
  PROVE  ComputeSharedKey("client", c) = ComputeSharedKey("server", s)
           <=> c = "server" /\ s = "client"
<1> DEFINE a == ComputeSharedKey("client", c)
           b == ComputeSharedKey("server", s)
<1>1. a.of = {"client", c} /\ b.of = {"server", s}
  BY DEF ComputeSharedKey
<1>2. {"client", c} = {"server", s} <=> c = "server" /\ s = "client"
  OBVIOUS
<1>3. a.of = b.of => a = b
  BY <1>1, Zenon DEF ComputeSharedKey
<1> HIDE DEF a, b
<1>4. a = b <=> c = "server" /\ s = "client"
  BY <1>1, <1>2, <1>3
<1>5. QED
  BY <1>4 DEF a, b

-----------------------------------------------------------------------------
(* The key schedule of the two sides.                                      *)

ClientHellos == clientView.clientHello \o clientView.serverHello
ServerHellos == serverView.clientHello \o serverView.serverHello

ClientHandshakeSecret ==
  HkdfExtract(Derived(EarlySecret), ComputeSharedKey("client", clientView.peer))

ServerHandshakeSecret ==
  HkdfExtract(Derived(EarlySecret), ComputeSharedKey("server", serverView.peer))

\* A secret of the client's handshake stage and of its application stage.
HandshakeSecret(label) ==
  HkdfExpandLabel(ClientHandshakeSecret, label, Hash(ClientHellos))

ApplicationSecret(label) ==
  HkdfExpandLabel(HkdfExtract(Derived(ClientHandshakeSecret), Zero), label,
                  Hash(ClientHellos \o clientView.flight))

\* What key.go derives for the client.
LEMMA ClientKeys ==
  /\ SessionKeys.clientFinishedVerifyData
       = FinishedVerifyData(HandshakeSecret("c hs traffic"),
                            ClientHellos \o clientView.flight)
  /\ SessionKeys.clientHandshake = TrafficKey(HandshakeSecret("c hs traffic"))
  /\ SessionKeys.clientApplication = TrafficKey(ApplicationSecret("c ap traffic"))
  /\ SessionKeys.serverApplication = TrafficKey(ApplicationSecret("s ap traffic"))
  /\ ClientSecrets.serverHandshakeSecret = HandshakeSecret("s hs traffic")
BY DEF SessionKeys, ClientSecrets, DeriveTLS13ChaCha20ClientSessionKeys,
   DeriveTLS13ChaCha20HandshakeSecrets, HandshakeTrafficSecrets,
   TranscriptAfterServerFinished, HandshakeSecret, ApplicationSecret,
   ClientHandshakeSecret, ClientHellos

\* The three stages of the server: the recursion of Stage has a solution, and
\* these are its values.
LEMMA ServerStages ==
  /\ Stage[2] = ServerHandshakeSecret
  /\ Stage[3] = HkdfExtract(Derived(ServerHandshakeSecret), Zero)
<1> DEFINE inputs == <<Zero, ComputeSharedKey("server", serverView.peer), Zero>>
           Next3(S) ==
             [i \in 1 .. 3 |->
                HkdfExtract(
                  IF i = 1 THEN Zero
                  ELSE HkdfExpandLabel(S[i - 1], "derived", Hash(<<>>)),
                  inputs[i])]
           one   == EarlySecret
           two   == ServerHandshakeSecret
           three == HkdfExtract(Derived(ServerHandshakeSecret), Zero)
           W == [i \in 1 .. 3 |-> IF i = 1 THEN one ELSE IF i = 2 THEN two ELSE three]
<1>1. /\ inputs[1] = Zero /\ inputs[3] = Zero
      /\ inputs[2] = ComputeSharedKey("server", serverView.peer)
  OBVIOUS
<1> HIDE DEF inputs
<1>2. ASSUME NEW S, S = Next3(S)
      PROVE  S[2] = two /\ S[3] = three
  <2>1. /\ S[1] = HkdfExtract(Zero, inputs[1])
        /\ S[2] = HkdfExtract(Derived(S[1]), inputs[2])
        /\ S[3] = HkdfExtract(Derived(S[2]), inputs[3])
    BY <1>2 DEF Derived
  <2>2. QED
    BY <1>1, <2>1 DEF EarlySecret, ServerHandshakeSecret
<1>3. W = Next3(W)
  <2>1. ASSUME NEW i \in 1 .. 3 PROVE W[i] = Next3(W)[i]
    <3>1. CASE i = 1
      BY <1>1, <3>1 DEF EarlySecret
    <3>2. CASE i = 2
      <4>1. W[2 - 1] = one
        OBVIOUS
      <4>2. QED
        BY <1>1, <3>2, <4>1 DEF ServerHandshakeSecret, Derived
    <3>3. CASE i = 3
      <4>1. W[3 - 1] = two
        OBVIOUS
      <4>2. QED
        BY <1>1, <3>3, <4>1 DEF Derived
    <3>4. QED
      BY <3>1, <3>2, <3>3
  <2>2. QED
    BY <2>1
<1>4. Stage = Next3(Stage)
  BY <1>3 DEF Stage, inputs
<1>5. QED
  BY <1>2, <1>4

\* The hellos are two messages, so that transcripts that are equal are equal in
\* their parts.
LEMMA HellosApart ==
  ASSUME clientView \in View, serverView \in View
  PROVE  /\ ClientHellos \in Seq(STRING) /\ clientView.flight \in Seq(STRING)
         /\ ServerHellos \in Seq(STRING) /\ serverView.flight \in Seq(STRING)
         /\ \A f, g \in Seq(STRING) :
              ClientHellos \o f = ServerHellos \o g
                <=> ClientHellos = ServerHellos /\ f = g
<1>1. ASSUME NEW hello \in OneMessage
      PROVE  hello \in Seq(STRING) /\ Len(hello) = 1
  <2>1. PICK one \in Nat : one = 1
    OBVIOUS
  <2>2. hello \in [1 .. one -> STRING]
    BY <1>1, <2>1 DEF OneMessage
  <2>3. hello \in Seq(STRING)
    BY <2>2, SeqDef
  <2>4. Len(hello) \in Nat /\ DOMAIN hello = 1 .. Len(hello)
    BY <2>3, LenProperties
  <2>5. 1 .. one = 1 .. Len(hello)
    BY <2>2, <2>4
  <2>6. Len(hello) = one
    BY <2>1, <2>4, <2>5
  <2>7. QED
    BY <2>1, <2>3, <2>6
<1>2. ASSUME NEW view \in View
      PROVE  /\ view.clientHello \o view.serverHello \in Seq(STRING)
             /\ Len(view.clientHello \o view.serverHello) = 1 + 1
             /\ view.flight \in Seq(STRING)
  <2>1. /\ view.clientHello \in OneMessage /\ view.serverHello \in OneMessage
        /\ view.flight \in Seq(STRING)
    BY DEF View, Flight
  <2> DEFINE a == view.clientHello
             b == view.serverHello
  <2>2. a \in Seq(STRING) /\ b \in Seq(STRING) /\ Len(a) = 1 /\ Len(b) = 1
    BY <1>1, <2>1
  <2> HIDE DEF a, b
  <2>3. a \o b \in Seq(STRING) /\ Len(a \o b) = Len(a) + Len(b)
    BY <2>2, ConcatProperties
  <2>4. QED
    BY <2>1, <2>2, <2>3 DEF a, b
<1> DEFINE c == ClientHellos
           s == ServerHellos
<1>3. /\ c \in Seq(STRING) /\ Len(c) = 1 + 1
      /\ s \in Seq(STRING) /\ Len(s) = 1 + 1
      /\ clientView.flight \in Seq(STRING) /\ serverView.flight \in Seq(STRING)
  BY <1>2 DEF ClientHellos, ServerHellos
<1> HIDE DEF c, s
<1>4. ASSUME NEW f \in Seq(STRING), NEW g \in Seq(STRING)
      PROVE  c \o f = s \o g => c = s
  <2> SUFFICES ASSUME c \o f = s \o g PROVE c = s
    OBVIOUS
  <2>1. /\ \A i \in 1 .. Len(c) + Len(f) :
             (c \o f)[i] = IF i <= Len(c) THEN c[i] ELSE f[i - Len(c)]
        /\ \A i \in 1 .. Len(s) + Len(g) :
             (s \o g)[i] = IF i <= Len(s) THEN s[i] ELSE g[i - Len(s)]
        /\ Len(f) \in Nat /\ Len(g) \in Nat /\ Len(c) \in Nat
    BY <1>3, ConcatProperties, LenProperties
  <2>2. ASSUME NEW i \in 1 .. Len(c) PROVE c[i] = s[i]
    <3>1. /\ i <= Len(c) /\ i <= Len(s)
          /\ i \in 1 .. Len(c) + Len(f) /\ i \in 1 .. Len(s) + Len(g)
      BY <1>3, <2>1
    <3>2. (c \o f)[i] = c[i] /\ (s \o g)[i] = s[i]
      BY <2>1, <3>1
    <3>3. QED
      BY <3>2
  <2>3. QED
    BY <1>3, <2>2, SeqEqual
<1>5. ASSUME NEW f \in Seq(STRING), NEW g \in Seq(STRING)
      PROVE  c \o f = s \o g <=> c = s /\ f = g
  <2>1. c = s => (c \o f = s \o g <=> f = g)
    BY <1>3, <1>5, ConcatSimplifications
  <2> QED
    BY <2>1, <1>4, <1>5
<1>6. QED
  BY <1>3, <1>5 DEF c, s

\* The sides have agreed on the secrets of the hellos, and on those of the
\* whole handshake, exactly when they have seen the same up to there.
LEMMA SecretsAgree ==
  ASSUME clientView \in View, serverView \in View, NEW label
  PROVE  /\ HandshakeSecret(label) = ServerSecret(2, label) <=> HelloAgreed
         /\ ApplicationSecret(label) = ServerSecret(3, label) <=> FlightAgreed
         /\ HelloAgreed => ClientHellos = ServerHellos
         /\ ServerTranscript(3) = ServerHellos \o serverView.flight
         /\ ClientHellos \o clientView.flight = ServerTranscript(3) /\ HelloAgreed
              <=> FlightAgreed
<1>1. /\ ClientHellos \in Seq(STRING) /\ clientView.flight \in Seq(STRING)
      /\ ServerHellos \in Seq(STRING) /\ serverView.flight \in Seq(STRING)
  BY HellosApart
<1>2. ServerTranscript(2) = ServerHellos
  BY <1>1, ConcatEmptySeq DEF ServerTranscript, ServerHellos
<1>3. ServerTranscript(3) = ServerHellos \o serverView.flight
  BY DEF ServerTranscript, ServerHellos
<1>4. ClientHandshakeSecret = ServerHandshakeSecret <=> SecretsAgreed
  BY ExtractParts, SharedKeyParts
     DEF ClientHandshakeSecret, ServerHandshakeSecret, SecretsAgreed
<1>5. HelloAgreed <=> SecretsAgreed /\ ClientHellos = ServerHellos
  BY DEF HelloAgreed, ClientHellos, ServerHellos
<1>6. ClientHellos = ServerHellos =>
        (ClientHellos \o clientView.flight = ServerTranscript(3)
           <=> clientView.flight = serverView.flight)
  BY <1>1, <1>3, HellosApart
<1>7. HkdfExtract(Derived(ClientHandshakeSecret), Zero)
        = HkdfExtract(Derived(ServerHandshakeSecret), Zero)
        <=> SecretsAgreed
  BY <1>4, ExtractParts, ExpandParts DEF Derived
<1>8. HandshakeSecret(label) = ServerSecret(2, label) <=> HelloAgreed
  <2>1. ServerSecret(2, label)
          = HkdfExpandLabel(ServerHandshakeSecret, label, Hash(ServerHellos))
    BY <1>2, ServerStages DEF ServerSecret
  <2>2. HandshakeSecret(label) = ServerSecret(2, label)
          <=> /\ ClientHandshakeSecret = ServerHandshakeSecret
              /\ Hash(ClientHellos) = Hash(ServerHellos)
    BY <2>1, ExpandParts DEF HandshakeSecret
  <2>3. QED
    BY <1>4, <1>5, <2>2, HashParts
<1>9. ClientHellos \o clientView.flight = ServerTranscript(3) /\ HelloAgreed
        <=> FlightAgreed
  BY <1>5, <1>6 DEF FlightAgreed
<1>10. ApplicationSecret(label) = ServerSecret(3, label)
         <=> /\ SecretsAgreed
             /\ ClientHellos \o clientView.flight = ServerTranscript(3)
  <2>1. ServerSecret(3, label)
          = HkdfExpandLabel(HkdfExtract(Derived(ServerHandshakeSecret), Zero),
                            label, Hash(ServerTranscript(3)))
    BY ServerStages DEF ServerSecret
  <2>2. ApplicationSecret(label) = ServerSecret(3, label)
          <=> /\ HkdfExtract(Derived(ClientHandshakeSecret), Zero)
                   = HkdfExtract(Derived(ServerHandshakeSecret), Zero)
              /\ Hash(ClientHellos \o clientView.flight)
                   = Hash(ServerTranscript(3))
    BY <2>1, ExpandParts DEF ApplicationSecret
  <2>3. QED
    BY <1>7, <2>2, HashParts
<1>11. QED
  BY <1>3, <1>5, <1>8, <1>9, <1>10, HellosApart

-----------------------------------------------------------------------------
(* The inner plaintext.                                                    *)

\* What InnerMarshal makes: the content, the type, and zeros.
IsInner(text, c, t, z, n) ==
  /\ text \in Text /\ text.tail \in Seq(Byte)
  /\ text.fill = c.fill /\ text.fill \in Nat
  /\ n = Len(c.tail) /\ n \in Nat
  /\ TextLen(c) = text.fill + n
  /\ Len(text.tail) = n + 1 + z
  /\ TextLen(text) = TextLen(c) + 1 + z
  /\ TextLen(text) \in Nat /\ TextLen(c) \in Nat
  /\ \A i \in 1 .. n : text.tail[i] = c.tail[i]
  /\ text.tail[n + 1] = t
  /\ \A i \in n + 2 .. n + 1 + z : text.tail[i] = 0

LEMMA InnerParts ==
  ASSUME NEW c \in Text, NEW t \in Byte, NEW z \in Nat
  PROVE  IsInner(InnerMarshal(c, t, z), c, t, z, Len(c.tail))
<1> DEFINE text  == InnerMarshal(c, t, z)
           a     == c.tail
           b     == <<t>>
           zeros == [i \in 1 .. z |-> 0]
           n     == Len(a)
           ab    == a \o b
<1>1. /\ c.fill \in Nat /\ a \in Seq(Byte) /\ n \in Nat
      /\ b \in Seq(Byte) /\ Len(b) = 1 /\ b[1] = t
      /\ zeros \in Seq(Byte)
  <2>1. c.fill \in Nat /\ a \in Seq(Byte)
    BY DEF Text
  <2>2. b \in Seq(Byte) /\ Len(b) = 1 /\ b[1] = t
    OBVIOUS
  <2>3. zeros \in [1 .. z -> Byte]
    BY DEF Byte
  <2>4. zeros \in Seq(Byte)
    BY <2>3, SeqDef
  <2>5. QED
    BY <2>1, <2>2, <2>4, LenProperties
<1>2. Len(zeros) = z
  BY <1>1, LenProperties
<1>3. \A i \in 1 .. z : zeros[i] = 0
  OBVIOUS
<1>4. /\ text = [c EXCEPT !.tail = ab \o zeros]
      /\ text.fill = c.fill /\ text.tail = ab \o zeros
      /\ ab \o zeros \in Seq(Byte) => text \in Text
  BY DEF Text, InnerMarshal
<1> HIDE DEF text, b, zeros, a
<1>5. /\ ab \in Seq(Byte) /\ Len(ab) = n + 1
      /\ \A i \in 1 .. n : ab[i] = a[i]
      /\ ab[n + 1] = t
  <2>1. /\ ab \in Seq(Byte) /\ Len(ab) = Len(a) + Len(b)
        /\ \A i \in 1 .. Len(a) + Len(b) :
             ab[i] = IF i <= Len(a) THEN a[i] ELSE b[i - Len(a)]
    BY <1>1, ConcatProperties
  <2>2. (n + 1) - Len(a) = 1
    BY <1>1
  <2>3. QED
    BY <1>1, <2>1, <2>2
<1> DEFINE all == ab \o zeros
<1> HIDE DEF ab
<1>6. /\ all \in Seq(Byte) /\ Len(all) = Len(ab) + Len(zeros)
      /\ \A i \in 1 .. Len(ab) + Len(zeros) :
           all[i] = IF i <= Len(ab) THEN ab[i] ELSE zeros[i - Len(ab)]
  BY <1>1, <1>5, ConcatProperties
<1> HIDE DEF all
<1>7. /\ Len(all) = n + 1 + z
      /\ \A i \in 1 .. n : all[i] = a[i]
      /\ all[n + 1] = t
      /\ \A i \in n + 2 .. n + 1 + z : all[i] = 0
  BY <1>1, <1>2, <1>3, <1>5, <1>6
<1>8. text.tail = all /\ text \in Text /\ text.fill = c.fill
  BY <1>4, <1>6 DEF all
<1>9. TextLen(text) = TextLen(c) + 1 + z /\ TextLen(c) = c.fill + n
  <2>1. TextLen(c) = c.fill + n
    BY DEF TextLen, a
  <2>2. TextLen(text) = text.fill + Len(text.tail)
    BY Zenon DEF TextLen
  <2>3. TextLen(text) = c.fill + (n + 1 + z)
    BY <1>7, <1>8, <2>2, Zenon
  <2> HIDE DEF n
  <2>4. QED
    BY <1>1, <2>1, <2>3
<1>10. IsInner(text, c, t, z, n)
  <2>1. TextLen(c) \in Nat /\ TextLen(text) \in Nat
    <3> HIDE DEF n
    <3>1. QED
      BY <1>1, <1>9
  <2>2. c.tail = a
    BY DEF a
  <2> HIDE DEF n
  <2>3. text.tail \in Seq(Byte) /\ text.fill \in Nat
    BY <1>1, <1>6, <1>8
  <2>4. n = Len(c.tail)
    BY <2>2 DEF n
  <2>5. QED
    BY <1>1, <1>7, <1>8, <1>9, <2>1, <2>2, <2>3, <2>4 DEF IsInner
<1>11. QED
  BY <1>10 DEF text, a

\* The type is at the last byte that is not zero.
LEMMA TypeIndexIs ==
  ASSUME NEW text \in Text, NEW i \in 1 .. Len(text.tail), text.tail[i] # 0,
         \A j \in i + 1 .. Len(text.tail) : text.tail[j] = 0
  PROVE  TypeIndex(text) = i
<1> DEFINE n == Len(text.tail)
           P(k) == /\ text.tail[k] # 0
                   /\ \A j \in k + 1 .. n : text.tail[j] = 0
           chosen == CHOOSE k \in 1 .. n : P(k)
<1>1. n \in Nat
  BY LenProperties DEF Text
<1>2. TypeIndex(text) = chosen
  BY DEF TypeIndex
<1>3. chosen \in 1 .. n /\ P(chosen)
  <2>1. \E k \in 1 .. n : P(k)
    OBVIOUS
  <2>2. QED
    BY <2>1
<1> HIDE DEF chosen
<1>4. chosen = i
  BY <1>1, <1>3
<1>5. QED
  BY <1>2, <1>4

\* There is one unless all bytes of the tail are zero.
LEMMA TypeIndexRange ==
  ASSUME NEW text \in Text
  PROVE  \/ /\ TypeIndex(text) = 0
            /\ \A j \in 1 .. Len(text.tail) : text.tail[j] = 0
         \/ /\ TypeIndex(text) \in 1 .. Len(text.tail)
            /\ text.tail[TypeIndex(text)] # 0
<1> DEFINE n == Len(text.tail)
<1> SUFFICES ASSUME ~ \A j \in 1 .. n : text.tail[j] = 0
             PROVE  TypeIndex(text) \in 1 .. n /\ text.tail[TypeIndex(text)] # 0
  BY DEF TypeIndex
<1>1. n \in Nat
  BY LenProperties DEF Text
<1> DEFINE S == {j \in 1 .. n : text.tail[j] # 0}
<1>2. PICK m \in S : \A k \in S : k <= m
  <2>1. S \in SUBSET (1 .. n) /\ S # {}
    OBVIOUS
  <2> HIDE DEF S
  <2>2. QED
    BY <1>1, <2>1, LargestNumber
<1>3. TypeIndex(text) = m
  BY <1>1, <1>2, TypeIndexIs
<1>4. QED
  BY <1>2, <1>3

\* A plaintext that has a type reads back, whatever its padding and however
\* many zeros its content ends in.
LEMMA RoundTrip ==
  ASSUME NEW c \in Text, NEW t \in Byte, NEW z \in Nat, t # 0
  PROVE  /\ ParseTLSInnerPlaintext(InnerMarshal(c, t, z)) = [type |-> t, content |-> c]
         /\ ~NoType(InnerMarshal(c, t, z))
<1> DEFINE text == InnerMarshal(c, t, z)
           n    == Len(c.tail)
<1>1. /\ text \in Text /\ text.fill = c.fill /\ Len(text.tail) = n + 1 + z
      /\ \A i \in 1 .. n : text.tail[i] = c.tail[i]
      /\ text.tail[n + 1] = t
      /\ \A i \in n + 2 .. n + 1 + z : text.tail[i] = 0
  <2>1. IsInner(text, c, t, z, n)
    BY InnerParts
  <2> HIDE DEF text, n
  <2>2. QED
    BY <2>1 DEF IsInner
<1>2. n \in Nat /\ c.tail \in Seq(Byte)
  BY LenProperties DEF Text
<1> HIDE DEF text
<1>3. TypeIndex(text) = n + 1
  <2>1. n + 1 \in 1 .. Len(text.tail) /\ (n + 1) + 1 = n + 2
    BY <1>1, <1>2
  <2>2. QED
    BY <1>1, <2>1, TypeIndexIs
<1>4. SubSeq(text.tail, 1, n) = c.tail
  <2> DEFINE s == SubSeq(text.tail, 1, n)
             a == c.tail
  <2>1. text.tail \in Seq(Byte)
    BY <1>1 DEF Text
  <2>2. /\ s \in Seq(Byte) /\ Len(s) = n
        /\ \A i \in 1 .. n : s[i] = text.tail[i]
    BY <1>1, <1>2, <2>1, SubSeqProperties
  <2> HIDE DEF s
  <2>3. /\ a \in Seq(Byte) /\ Len(a) = n
        /\ \A i \in 1 .. n : a[i] = s[i]
    BY <1>1, <1>2, <2>2
  <2> HIDE DEF a
  <2>4. s = a
    BY <2>2, <2>3, SeqEqual
  <2>5. QED
    BY <2>4 DEF s, a
<1>5. [text EXCEPT !.tail = c.tail] = c
  BY <1>1 DEF Text
<1>6. ParseTLSInnerPlaintext(text)
        = [type |-> text.tail[n + 1],
           content |-> [text EXCEPT !.tail = SubSeq(text.tail, 1, (n + 1) - 1)]]
  <2>1. n + 1 # 0
    BY <1>2
  <2>2. QED
    BY <1>3, <2>1 DEF ParseTLSInnerPlaintext
<1>7. (n + 1) - 1 = n /\ n + 1 # 0
  BY <1>2
<1>8. QED
  BY <1>1, <1>3, <1>4, <1>5, <1>6, <1>7 DEF NoType, text

\* The plaintext of the server that InnerMarshal makes a text of.
Inner(plain) == InnerMarshal(plain.content, plain.type, plain.zeros)

LEMMA PlainParts ==
  ASSUME NEW plain \in Plain
  PROVE  /\ IsInner(Inner(plain), plain.content, plain.type, plain.zeros,
                    Len(plain.content.tail))
         /\ plain.content \in Text /\ plain.type \in Byte /\ plain.zeros \in Nat
<1>1. plain.content \in Text /\ plain.type \in Byte /\ plain.zeros \in Nat
  BY DEF Plain
<1>2. QED
  BY <1>1, InnerParts DEF Inner

\* A plaintext has no type when all of its bytes are zero, and only then.
LEMMA NoTypeIsZeros ==
  ASSUME NEW plain \in Plain
  PROVE  NoType(Inner(plain)) <=> ~HasNonZero(plain)
<1>1. PICK c, t, z : c = plain.content /\ t = plain.type /\ z = plain.zeros
  OBVIOUS
<1>2. PICK text, n : text = Inner(plain) /\ n = Len(c.tail)
  OBVIOUS
<1>3. IsInner(text, c, t, z, n) /\ c \in Text /\ t \in Byte /\ z \in Nat
  BY <1>1, <1>2, PlainParts
<1>4. /\ text \in Text /\ text.fill = c.fill /\ text.fill \in Nat
      /\ n = Len(c.tail) /\ n \in Nat /\ z \in Nat
      /\ Len(text.tail) = n + 1 + z
      /\ \A i \in 1 .. n : text.tail[i] = c.tail[i]
      /\ text.tail[n + 1] = t
      /\ \A i \in n + 2 .. n + 1 + z : text.tail[i] = 0
  BY <1>3 DEF IsInner
<1>5. TypeIndex(text) = 0
        <=> \A i \in 1 .. n + 1 + z : text.tail[i] = 0
  <2>1. PICK k : k = TypeIndex(text)
    OBVIOUS
  <2>2. \/ k = 0 /\ \A j \in 1 .. n + 1 + z : text.tail[j] = 0
        \/ k \in 1 .. n + 1 + z /\ text.tail[k] # 0 /\ k # 0
    <3>1. PICK m : m = Len(text.tail)
      OBVIOUS
    <3>2. \/ k = 0 /\ \A j \in 1 .. m : text.tail[j] = 0
          \/ k \in 1 .. m /\ text.tail[k] # 0
      BY <1>4, <2>1, <3>1, TypeIndexRange
    <3>3. m = n + 1 + z /\ m \in Nat
      BY <1>4, <3>1
    <3>4. k \in 1 .. m => k # 0
      BY <3>3
    <3>5. QED
      BY <3>2, <3>3, <3>4, Zenon
  <2>3. QED
    BY <2>1, <2>2, Zenon
<1>6. (\A i \in 1 .. n + 1 + z : text.tail[i] = 0)
        <=> t = 0 /\ \A i \in 1 .. n : c.tail[i] = 0
  <2>1. \A i \in 1 .. n + 1 + z :
          i \in 1 .. n \/ i = n + 1 \/ i \in n + 2 .. n + 1 + z
    BY <1>4
  <2>2. n + 1 \in 1 .. n + 1 + z /\ \A i \in 1 .. n : i \in 1 .. n + 1 + z
    BY <1>4
  <2>3. QED
    BY <1>4, <2>1, <2>2
<1>7. NoType(text) <=> TypeIndex(text) = 0 /\ c.fill = 0
  BY <1>4 DEF NoType
<1>8. HasNonZero(plain) <=> t # 0 \/ c.fill # 0 \/ \E i \in 1 .. n : c.tail[i] # 0
  BY <1>1, <1>4 DEF HasNonZero
<1>9. QED
  BY <1>2, <1>5, <1>6, <1>7, <1>8

\* What is read is no longer than the content, and is a content.
LEMMA ParsedParts ==
  ASSUME NEW plain \in Plain, ~NoType(Inner(plain))
  PROVE  /\ ParseTLSInnerPlaintext(Inner(plain)) \in [type : Byte, content : Text]
         /\ TextLen(ParseTLSInnerPlaintext(Inner(plain)).content)
              <= TextLen(plain.content)
<1>1. PICK c, t, z : c = plain.content /\ t = plain.type /\ z = plain.zeros
  OBVIOUS
<1>2. PICK text, n : text = Inner(plain) /\ n = Len(c.tail)
  OBVIOUS
<1>3. IsInner(text, c, t, z, n) /\ c \in Text /\ t \in Byte /\ z \in Nat
  BY <1>1, <1>2, PlainParts
<1>4. /\ text \in Text /\ text.tail \in Seq(Byte) /\ text.fill = c.fill
      /\ text.fill \in Nat /\ n \in Nat
      /\ c \in Text /\ t \in Byte /\ z \in Nat
      /\ TextLen(c) = text.fill + n
      /\ Len(text.tail) = n + 1 + z
      /\ text.tail[n + 1] = t
      /\ \A i \in n + 2 .. n + 1 + z : text.tail[i] = 0
  BY <1>3 DEF IsInner
<1>5. ~NoType(text)
  BY <1>2
<1>6. PICK parsed : parsed = ParseTLSInnerPlaintext(text)
  OBVIOUS
<1>7. SUFFICES /\ parsed \in [type : Byte, content : Text]
               /\ TextLen(parsed.content) <= TextLen(c)
  BY <1>1, <1>2, <1>6
<1>8. CASE t # 0
  <2>1. text = InnerMarshal(c, t, z)
    BY <1>1, <1>2, Zenon DEF Inner
  <2>2. parsed = [type |-> t, content |-> c]
    BY <1>4, <1>6, <1>8, <2>1, RoundTrip
  <2>3. TextLen(c) \in Nat
    BY <1>4
  <2>4. QED
    BY <1>4, <2>2, <2>3
<1>9. CASE t = 0
  <2>1. PICK k : k = TypeIndex(text)
    OBVIOUS
  <2>2. CASE k = 0
    <3>1. text.fill # 0
      BY <1>5, <2>1, <2>2 DEF NoType
    <3>2. PICK m : m = text.fill - 1
      OBVIOUS
    <3>3. PICK content : content = [fill |-> m, tail |-> <<>>]
      OBVIOUS
    <3>4. parsed = [type |-> Filler, content |-> content]
      BY <1>6, <2>1, <2>2, <3>2, <3>3 DEF ParseTLSInnerPlaintext
    <3>5. m \in Nat /\ m <= text.fill
      BY <1>4, <3>1, <3>2
    <3>6. content.fill = m /\ content.tail = <<>> /\ content \in Text
      BY <3>3, <3>5, EmptySeq DEF Text
    <3>7. TextLen(content) = m + 0
      BY <3>6, EmptySeq DEF TextLen
    <3>8. Filler \in Byte
      BY DEF Filler, Byte
    <3>9. TextLen(content) <= TextLen(c)
      BY <1>4, <3>5, <3>7
    <3>10. parsed.content = content /\ parsed \in [type : Byte, content : Text]
      BY <3>4, <3>6, <3>8
    <3>11. QED
      BY <3>9, <3>10
  <2>3. CASE k # 0
    <3>1. k \in 1 .. n + 1 + z /\ text.tail[k] # 0
      BY <1>4, <2>1, <2>3, TypeIndexRange
    <3>2. k \in 1 .. n
      BY <1>4, <1>9, <3>1
    <3>3. PICK s : s = SubSeq(text.tail, 1, k - 1)
      OBVIOUS
    <3>4. PICK content : content = [text EXCEPT !.tail = s]
      OBVIOUS
    <3>5. parsed = [type |-> text.tail[k], content |-> content]
      BY <1>6, <2>1, <2>3, <3>3, <3>4 DEF ParseTLSInnerPlaintext
    <3>6. s \in Seq(Byte) /\ Len(s) = k - 1
      <4>1. \A i \in 1 .. k - 1 : i \in 1 .. Len(text.tail)
        BY <1>4, <3>2
      <4>2. QED
        BY <1>4, <3>2, <3>3, <4>1
    <3>7. text.tail[k] \in Byte
      <4>1. k \in 1 .. Len(text.tail)
        BY <1>4, <3>2
      <4>2. QED
        BY <1>4, <4>1, ElementOfSeq
    <3>8. content.fill = text.fill /\ content.tail = s /\ content \in Text
      BY <1>4, <3>4, <3>6 DEF Text
    <3>9. TextLen(content) = text.fill + (k - 1)
      BY <3>6, <3>8 DEF TextLen
    <3>10. TextLen(content) <= TextLen(c)
      BY <1>4, <3>2, <3>9
    <3>11. parsed.content = content /\ parsed \in [type : Byte, content : Text]
      BY <3>5, <3>7, <3>8
    <3>12. QED
      BY <3>10, <3>11
  <2>4. QED
    BY <2>2, <2>3
<1>10. QED
  BY <1>8, <1>9

-----------------------------------------------------------------------------
(* Records.                                                                *)

\* A record that was received opens when all of it is there and it was sealed
\* under the key and the nonce of the reader, and shows what was sealed.
LEMMA OpensSealed ==
  ASSUME NEW key, NEW nonce, NEW n \in Nat, NEW inner, TextLen(inner) \in Nat,
         NEW keys, NEW seq
  PROVE  LET rec == Received(Sealed(key, nonce, Header(n), inner))
         IN  /\ Opens(rec, keys, seq) <=>
                  /\ n = TextLen(inner) + TagSize
                  /\ key = keys.key
                  /\ nonce = Nonce(keys.iv, seq)
             /\ rec.inner = inner
<1> DEFINE sealed == Sealed(key, nonce, Header(n), inner)
           rec    == Received(sealed)
           h      == Header(n)
           l      == TextLen(inner) + TagSize
<1>1. h.length = n
  BY DEF Header
<1> HIDE DEF h
<1>2. sealed = [header |-> h, key |-> key, nonce |-> nonce, aad |-> h,
                inner |-> inner, len |-> l, whole |-> TRUE]
  BY Zenon DEF Sealed, h
<1> HIDE DEF l
<1>3. sealed.header = h /\ sealed.len = l
  BY <1>2
<1>4. rec = [header |-> h, key |-> key, nonce |-> nonce, aad |-> h,
             inner |-> inner, len |-> n, whole |-> n = l]
  <2>1. rec = [sealed EXCEPT !.len = sealed.header.length,
                             !.whole = sealed.header.length = sealed.len]
    BY Zenon DEF Received
  <2> HIDE DEF sealed
  <2> DEFINE equal == n = l
  <2>2. sealed.header.length = n /\ (sealed.header.length = sealed.len) = equal
    BY <1>1, <1>3
  <2> HIDE DEF equal
  <2>3. rec = [sealed EXCEPT !.len = n, !.whole = equal]
    BY <2>1, <2>2
  <2>4. rec = [header |-> h, key |-> key, nonce |-> nonce, aad |-> h,
               inner |-> inner, len |-> n, whole |-> equal]
    BY <1>2, <2>3
  <2>5. QED
    BY <2>4, Zenon DEF equal
<1> HIDE DEF rec
<1>5. /\ rec.header = h /\ rec.key = key /\ rec.nonce = nonce /\ rec.aad = h
      /\ rec.inner = inner /\ rec.len = n
  BY <1>4
<1>6. rec.whole <=> n = l
  BY <1>4, Zenon
<1>7. n = l => n >= TagSize
  BY DEF l, TagSize
<1>8. Opens(rec, keys, seq)
        <=> n = l /\ key = keys.key /\ nonce = Nonce(keys.iv, seq)
  BY <1>5, <1>6, <1>7, Zenon DEF Opens
<1>9. QED
  BY <1>5, <1>8 DEF rec, l

LEMMA NonceParts ==
  ASSUME NEW iv, NEW seq, NEW other, NEW number
  PROVE  Nonce(iv, seq) = Nonce(other, number) <=> iv = other /\ seq = number
<1> DEFINE a == Nonce(iv, seq)
           b == Nonce(other, number)
<1>1. a.iv = iv /\ a.seq = seq /\ b.iv = other /\ b.seq = number
  BY DEF Nonce
<1> HIDE DEF a, b
<1>2. a = b => iv = other /\ seq = number
  BY <1>1
<1>3. QED
  BY <1>2, Zenon DEF a, b

-----------------------------------------------------------------------------
(* The invariant.                                                          *)

\* A sequence, of whatever it may be.
IsSeq(s) == \E S : s \in Seq(S)

Extends(t, s, e) ==
  /\ IsSeq(t) /\ Len(s) \in Nat /\ Len(t) = Len(s) + 1
  /\ \A i \in 1 .. Len(s) : t[i] = s[i]
  /\ t[Len(s) + 1] = e

LEMMA AppendAny ==
  ASSUME NEW s, IsSeq(s), NEW e PROVE Extends(Append(s, e), s, e)
<1>1. PICK S : s \in Seq(S)
  BY DEF IsSeq
<1>2. s \in Seq(S \union {e}) /\ e \in S \union {e}
  <2>1. Len(s) \in Nat /\ s \in [1 .. Len(s) -> S \union {e}]
    BY <1>1, LenProperties
  <2>2. QED
    BY <2>1, SeqDef
<1> DEFINE T == S \union {e}
<1> HIDE DEF T
<1>3. s \in Seq(T) /\ e \in T
  BY <1>2 DEF T
<1>4. /\ Append(s, e) \in Seq(T) /\ Len(Append(s, e)) = Len(s) + 1
      /\ \A i \in 1 .. Len(s) : Append(s, e)[i] = s[i]
      /\ Append(s, e)[Len(s) + 1] = e
  BY <1>3, AppendProperties
<1>5. Len(s) \in Nat
  BY <1>3, LenProperties
<1>6. QED
  BY <1>4, <1>5 DEF Extends, IsSeq

Viewed == clientView \in View /\ serverView \in ServerView

\* The key the client seals a record of a type under.
ClientSealingKey(type) ==
  IF type = Handshake THEN SessionKeys.clientHandshake
                      ELSE SessionKeys.clientApplication

\* The i-th record the client wrote, for what it was asked to seal.
WroteRecord(rec, asked, i) ==
  /\ asked.content \in Text
  /\ asked = [type |-> IF i = 1 THEN Handshake ELSE ApplicationData,
              content |-> asked.content]
  /\ rec = EncryptTLS13Record(ClientSealingKey(asked.type), 0, asked.type,
                              asked.content)

\* The Finished first and the request behind it, and nothing more.
ClientWrote ==
  /\ IsSeq(written) /\ IsSeq(requested) /\ Len(requested) = Len(written)
  /\ pc \in {"finished", "request", "response", "failed"}
  /\ Len(written) = CASE pc = "finished" -> 0
                      [] pc = "request"  -> 1
                      [] OTHER           -> 2
  /\ \A i \in 1 .. Len(written) : WroteRecord(written[i], requested[i], i)

\* The server has not changed its key before the i-th record.
NoUpdate(i) == \A j \in 1 .. i - 1 : answered[j] # KeyUpdateMessage

\* Its secret and number for that record: the first secret and the number of
\* those before, or a secret made by an update.
Numbered(secret, seq, i) ==
  IF NoUpdate(i)
  THEN secret = ServerSecret(3, "s ap traffic") /\ seq = i - 1
  ELSE \E last : secret = HkdfExpandLabel(last, "traffic upd", NoContext)

SealedAs(rec, plain, secret, seq) ==
  rec = Sealed(TrafficKey(secret).key, Nonce(TrafficKey(secret).iv, seq),
               Header(TextLen(Inner(plain)) + TagSize), Inner(plain))

ServerSealed ==
  /\ answered \in Seq(Plain) /\ IsSeq(sent) /\ Len(sent) = Len(answered)
  /\ serverSeq \in Nat
  /\ Numbered(serverSecret, serverSeq, Len(answered) + 1)
  /\ \A i \in 1 .. Len(sent) :
       \E secret, seq : /\ Numbered(secret, seq, i)
                        /\ SealedAs(sent[i], answered[i], secret, seq)

\* The i-th record of the server is one the client can open.
Ours(i) == FlightAgreed /\ NoUpdate(i)

\* Why the client does not take the i-th record, if it does not.
Verdict(i) ==
  CASE ~Ours(i) -> "bad record MAC"
    [] Ours(i) /\ NoType(Inner(answered[i])) -> "unexpected message"
    [] /\ Ours(i) /\ ~NoType(Inner(answered[i]))
       /\ TextLen(ParseTLSInnerPlaintext(Inner(answered[i])).content)
            > MaxPayloadLen -> "record overflow"
    [] OTHER -> "none"

ClientOpened ==
  /\ opened \in Seq([type : Byte, content : Text])
  /\ Len(opened) <= Len(answered)
  /\ \A i \in 1 .. Len(opened) :
       Ours(i) /\ opened[i] = ParseTLSInnerPlaintext(Inner(answered[i]))
  /\ \A i \in 1 .. Len(opened) : TextLen(opened[i].content) <= MaxPayloadLen
  /\ pc = "failed" =>
       /\ Len(opened) < Len(answered)
       /\ failure = Verdict(Len(opened) + 1) /\ failure # "none"

TrafficInv == Viewed /\ ClientWrote /\ ServerSealed /\ ClientOpened

-----------------------------------------------------------------------------
(* What the invariant says of the other side's records.                    *)

LEMMA TextBound ==
  ASSUME NEW n \in Nat
  PROVE  Uint16(n + 1 + TagSize) = n + 1 + TagSize <=> n <= MaxSealed
BY DEF Uint16, TagSize, MaxSealed

\* The server's opening key is the client's sealing key, where they agree.
LEMMA SealingKeys ==
  ASSUME Viewed, NEW type
  PROVE  /\ ClientSealingKey(type).key = ServerOpeningKey(type).key
              <=> Agreed(type)
         /\ ClientSealingKey(type).iv = ServerOpeningKey(type).iv
              <=> Agreed(type)
<1>1. clientView \in View /\ serverView \in View
  BY DEF Viewed, ServerView
<1>2. CASE type = Handshake
  <2>1. ClientSealingKey(type) = TrafficKey(HandshakeSecret("c hs traffic"))
    BY <1>2, ClientKeys DEF ClientSealingKey
  <2>2. ServerOpeningKey(type) = TrafficKey(ServerSecret(2, "c hs traffic"))
    BY <1>2 DEF ServerOpeningKey
  <2>3. HandshakeSecret("c hs traffic") = ServerSecret(2, "c hs traffic")
          <=> HelloAgreed
    BY <1>1, SecretsAgree
  <2>4. Agreed(type) <=> HelloAgreed
    BY <1>2 DEF Agreed
  <2>5. QED
    BY <2>1, <2>2, <2>3, <2>4, TrafficKeyParts
<1>3. CASE type # Handshake
  <2>1. ClientSealingKey(type) = TrafficKey(ApplicationSecret("c ap traffic"))
    BY <1>3, ClientKeys DEF ClientSealingKey
  <2>2. ServerOpeningKey(type) = TrafficKey(ServerSecret(3, "c ap traffic"))
    BY <1>3 DEF ServerOpeningKey
  <2>3. ApplicationSecret("c ap traffic") = ServerSecret(3, "c ap traffic")
          <=> FlightAgreed
    BY <1>1, SecretsAgree
  <2>4. Agreed(type) <=> FlightAgreed
    BY <1>3 DEF Agreed
  <2>5. QED
    BY <2>1, <2>2, <2>3, <2>4, TrafficKeyParts
<1>4. QED
  BY <1>2, <1>3

\* A record of the client, as the server opens it.
LEMMA ServerOpens ==
  ASSUME Viewed, NEW rec, NEW asked, NEW i, WroteRecord(rec, asked, i)
  PROVE  /\ Opens(Received(rec), ServerOpeningKey(asked.type), 0) <=>
              Agreed(asked.type) /\ TextLen(asked.content) <= MaxSealed
         /\ ParseTLSInnerPlaintext(Received(rec).inner) = asked
<1>1. PICK type, content : type = asked.type /\ content = asked.content
  OBVIOUS
<1>2. /\ content \in Text /\ asked = [type |-> type, content |-> content]
      /\ type \in Byte /\ type # 0
  BY <1>1 DEF WroteRecord, Handshake, ApplicationData, Byte
<1>3. PICK keys : keys = ClientSealingKey(type)
  OBVIOUS
<1>4. PICK inner : inner = InnerMarshal(content, type, 0)
  OBVIOUS
<1>5. rec = Sealed(keys.key, Nonce(keys.iv, 0),
                   Header(Uint16(TextLen(inner) + TagSize)), inner)
  <2>1. rec = EncryptTLS13Record(keys, 0, type, content)
    BY <1>1, <1>3 DEF WroteRecord
  <2>2. QED
    BY <1>4, <2>1, Zenon DEF EncryptTLS13Record, CiphertextLength
<1>6. TextLen(inner) \in Nat /\ TextLen(content) \in Nat
      /\ TextLen(inner) = TextLen(content) + 1
  <2>1. PICK zero \in Nat : zero = 0
    OBVIOUS
  <2>2. IsInner(inner, content, type, zero, Len(content.tail))
    BY <1>2, <1>4, <2>1, InnerParts
  <2>3. TextLen(inner) = TextLen(content) + 1 + zero
        /\ TextLen(inner) \in Nat /\ TextLen(content) \in Nat
    BY <2>2 DEF IsInner
  <2>4. QED
    BY <2>1, <2>3
<1>7. PICK n \in Nat : n = Uint16(TextLen(inner) + TagSize)
  BY <1>6 DEF Uint16, TagSize
<1>8. PICK theirs : theirs = ServerOpeningKey(type)
  OBVIOUS
<1>9. /\ Opens(Received(rec), theirs, 0) <=>
           /\ n = TextLen(inner) + TagSize
           /\ keys.key = theirs.key
           /\ Nonce(keys.iv, 0) = Nonce(theirs.iv, 0)
      /\ Received(rec).inner = inner
  BY <1>5, <1>6, <1>7, OpensSealed
<1>10. n = TextLen(inner) + TagSize <=> TextLen(content) <= MaxSealed
  BY <1>6, <1>7, TextBound
<1>11. keys.key = theirs.key /\ Nonce(keys.iv, 0) = Nonce(theirs.iv, 0)
         <=> Agreed(type)
  BY <1>3, <1>8, SealingKeys, NonceParts
<1>12. ParseTLSInnerPlaintext(inner) = [type |-> type, content |-> content]
  <2>1. PICK zero \in Nat : zero = 0
    OBVIOUS
  <2>2. QED
    BY <1>2, <1>4, <2>1, RoundTrip
<1>13. QED
  BY <1>1, <1>2, <1>8, <1>9, <1>10, <1>11, <1>12

\* A record of the server, as the client opens it.
LEMMA ClientOpens ==
  ASSUME Viewed, ServerSealed, NEW i \in 1 .. Len(sent)
  PROVE  /\ Opens(Received(sent[i]), SessionKeys.serverApplication, i - 1)
              <=> Ours(i)
         /\ Received(sent[i]).inner = Inner(answered[i])
<1>1. clientView \in View /\ serverView \in View
  BY DEF Viewed, ServerView
<1>2. PICK secret, seq : /\ Numbered(secret, seq, i)
                         /\ SealedAs(sent[i], answered[i], secret, seq)
  BY DEF ServerSealed
<1>3. answered[i] \in Plain
  BY ElementOfSeq DEF ServerSealed
<1>4. PICK inner : inner = Inner(answered[i])
  OBVIOUS
<1>5. TextLen(inner) \in Nat
  BY <1>3, <1>4, PlainParts DEF IsInner
<1>6. PICK n \in Nat : n = TextLen(inner) + TagSize
  BY <1>5 DEF TagSize
<1>7. sent[i] = Sealed(TrafficKey(secret).key, Nonce(TrafficKey(secret).iv, seq),
                       Header(n), inner)
  BY <1>2, <1>4, <1>6 DEF SealedAs
<1>8. PICK ours : ours = ApplicationSecret("s ap traffic")
  OBVIOUS
<1>9. SessionKeys.serverApplication = TrafficKey(ours)
  BY <1>8, ClientKeys
<1>10. /\ Opens(Received(sent[i]), TrafficKey(ours), i - 1) <=>
            /\ n = TextLen(inner) + TagSize
            /\ TrafficKey(secret).key = TrafficKey(ours).key
            /\ Nonce(TrafficKey(secret).iv, seq)
                 = Nonce(TrafficKey(ours).iv, i - 1)
       /\ Received(sent[i]).inner = inner
  BY <1>5, <1>7, OpensSealed
<1>11. Opens(Received(sent[i]), TrafficKey(ours), i - 1)
         <=> secret = ours /\ seq = i - 1
  BY <1>6, <1>10, NonceParts, TrafficKeyParts
<1>12. secret = ours /\ seq = i - 1 <=> Ours(i)
  <2>1. CASE NoUpdate(i)
    <3>1. secret = ServerSecret(3, "s ap traffic") /\ seq = i - 1
      BY <1>2, <2>1 DEF Numbered
    <3>2. ours = ServerSecret(3, "s ap traffic") <=> FlightAgreed
      BY <1>1, <1>8, SecretsAgree
    <3>3. QED
      BY <2>1, <3>1, <3>2 DEF Ours
  <2>2. CASE ~NoUpdate(i)
    <3>1. PICK last : secret = HkdfExpandLabel(last, "traffic upd", NoContext)
      BY <1>2, <2>2 DEF Numbered
    <3>2. secret.label = "traffic upd" /\ ours.label = "s ap traffic"
      BY <1>8, <3>1 DEF ApplicationSecret, HkdfExpandLabel
    <3>3. QED
      BY <2>2, <3>2 DEF Ours
  <2>3. QED
    BY <2>1, <2>2
<1>13. QED
  BY <1>4, <1>9, <1>10, <1>11, <1>12

\* What the client makes of it.
LEMMA ClientDecodes ==
  ASSUME Viewed, ServerSealed, NEW i \in 1 .. Len(sent)
  PROVE  DecodeError(Received(sent[i]), SessionKeys.serverApplication, i - 1)
           = Verdict(i)
<1>1. PICK rec : rec = Received(sent[i])
  OBVIOUS
<1>2. /\ Opens(rec, SessionKeys.serverApplication, i - 1) <=> Ours(i)
      /\ rec.inner = Inner(answered[i])
  BY <1>1, ClientOpens
<1>3. Overflows(rec) <=>
        TextLen(ParseTLSInnerPlaintext(Inner(answered[i])).content)
          > MaxPayloadLen
  BY <1>2 DEF Overflows
<1>4. DecodeError(rec, SessionKeys.serverApplication, i - 1) = Verdict(i)
  BY <1>2, <1>3 DEF DecodeError, Verdict
<1>5. QED
  BY <1>1, <1>4

\* The records under the server's first key are those up to BeforeUpdate.
LEMMA BeforeUpdateIs ==
  ASSUME answered \in Seq(Plain)
  PROVE  /\ BeforeUpdate \in Nat
         /\ \A i \in 1 .. Len(answered) : NoUpdate(i) <=> i <= BeforeUpdate
<1> DEFINE n == Len(answered)
           U(i) == answered[i] = KeyUpdateMessage
           F(i) == U(i) /\ \A j \in 1 .. i - 1 : ~U(j)
           first == CHOOSE i \in 1 .. n : F(i)
<1>1. n \in Nat
  BY LenProperties
<1>2. \A i : NoUpdate(i) <=> \A j \in 1 .. i - 1 : ~U(j)
  BY DEF NoUpdate
<1>3. CASE \E i \in 1 .. n : U(i)
  <2>1. BeforeUpdate = first
    BY <1>3 DEF BeforeUpdate
  <2>2. \E i \in 1 .. n : F(i)
    <3> DEFINE T == {i \in 1 .. n : U(i)}
    <3>1. T \in SUBSET Nat /\ T # {}
      BY <1>1, <1>3
    <3> HIDE DEF T
    <3>2. PICK x \in T : \A y \in T : ~(y < x)
      BY <3>1, LeastNumber
    <3> USE DEF T
    <3>3. x \in 1 .. n /\ U(x) /\ x \in Nat
      BY <3>1, <3>2
    <3>4. ASSUME NEW j \in 1 .. x - 1 PROVE ~U(j)
      <4>1. j \in 1 .. n /\ j < x
        BY <1>1, <3>3
      <4>2. QED
        BY <3>2, <4>1
    <3>5. QED
      BY <3>3, <3>4
  <2>3. first \in 1 .. n /\ F(first)
    BY <2>2
  <2>4. PICK b \in 1 .. n : b = BeforeUpdate /\ U(b) /\ \A j \in 1 .. b - 1 : ~U(j)
    BY <2>1, <2>3
  <2> HIDE DEF n, U
  <2>5. \A i \in 1 .. n : (\A j \in 1 .. i - 1 : ~U(j)) <=> i <= b
    BY <1>1, <2>4
  <2>6. QED
    BY <1>1, <1>2, <2>4, <2>5 DEF n
<1>4. CASE ~ \E i \in 1 .. n : U(i)
  <2>1. BeforeUpdate = n
    BY <1>4 DEF BeforeUpdate
  <2>2. \A i \in 1 .. n : \A j \in 1 .. i - 1 : ~U(j)
    BY <1>1, <1>4
  <2>3. QED
    BY <1>1, <1>2, <2>1, <2>2
<1>5. QED
  BY <1>3, <1>4

-----------------------------------------------------------------------------
(* The properties, from the invariant.                                     *)

LEMMA NonceFollows ==
  ASSUME ClientWrote PROVE NonceUsedOnce
<1> SUFFICES ASSUME NEW i \in 1 .. Len(written), NEW j \in 1 .. Len(written),
                    i # j, written[i].key = written[j].key
             PROVE  FALSE
  BY DEF NonceUsedOnce
<1>1. Len(written) \in Nat /\ Len(written) <= 2
  BY DEF ClientWrote
<1>2. ASSUME NEW k \in 1 .. Len(written)
      PROVE  written[k].key
               = TrafficKey(IF k = 1 THEN HandshakeSecret("c hs traffic")
                            ELSE ApplicationSecret("c ap traffic")).key
  <2>1. WroteRecord(written[k], requested[k], k)
    BY DEF ClientWrote
  <2>2. /\ requested[k].type = IF k = 1 THEN Handshake ELSE ApplicationData
        /\ written[k] = EncryptTLS13Record(ClientSealingKey(requested[k].type), 0,
                                           requested[k].type,
                                           requested[k].content)
    BY <2>1 DEF WroteRecord
  <2>3. written[k].key = ClientSealingKey(requested[k].type).key
    BY <2>2 DEF EncryptTLS13Record, Sealed
  <2>4. ClientSealingKey(requested[k].type)
          = TrafficKey(IF k = 1 THEN HandshakeSecret("c hs traffic")
                       ELSE ApplicationSecret("c ap traffic"))
    <3>1. requested[k].type = Handshake <=> k = 1
      BY <2>2 DEF Handshake, ApplicationData
    <3>2. CASE k = 1
      <4>1. ClientSealingKey(requested[k].type) = SessionKeys.clientHandshake
        BY <3>1, <3>2 DEF ClientSealingKey
      <4>2. QED
        BY <3>2, <4>1, ClientKeys
    <3>3. CASE k # 1
      <4>1. ClientSealingKey(requested[k].type) = SessionKeys.clientApplication
        BY <3>1, <3>3 DEF ClientSealingKey
      <4>2. QED
        BY <3>3, <4>1, ClientKeys
    <3>4. QED
      BY <3>2, <3>3
  <2>5. QED
    BY <2>3, <2>4
<1>3. PICK k \in {i, j} : k = 1
  BY <1>1
<1>4. PICK l \in {i, j} : l # 1
  BY <1>1
<1>5. written[k].key = written[l].key
  OBVIOUS
<1>6. HandshakeSecret("c hs traffic") = ApplicationSecret("c ap traffic")
  <2>1. PICK a, b : /\ a = HandshakeSecret("c hs traffic")
                    /\ b = ApplicationSecret("c ap traffic")
    OBVIOUS
  <2>2. TrafficKey(a).key = TrafficKey(b).key
    BY <1>2, <1>3, <1>4, <1>5, <2>1
  <2>3. a = b
    BY <2>2, TrafficKeyParts
  <2>4. QED
    BY <2>1, <2>3
<1>7. /\ HandshakeSecret("c hs traffic").label = "c hs traffic"
      /\ ApplicationSecret("c ap traffic").label = "c ap traffic"
  BY DEF HandshakeSecret, ApplicationSecret, HkdfExpandLabel
<1>8. QED
  BY <1>6, <1>7

\* Each side takes the other's Finished when both have seen the same.
\* The Finished of the server is the last of its messages and the first of its
\* type, so that flights agree in front of it when they agree up to it.
LEMMA FrontsAgree ==
  ASSUME NEW f \in Flight, NEW g \in Flight, g[Len(g)] = "finished"
  PROVE  /\ SubSeq(f, 1, FirstOfType(f, "finished") - 1) \in Seq(STRING)
         /\ SubSeq(g, 1, Len(g) - 1) \in Seq(STRING)
         /\ SubSeq(f, 1, FirstOfType(f, "finished") - 1)
               = SubSeq(g, 1, Len(g) - 1)
              <=> SubSeq(f, 1, FirstOfType(f, "finished")) = g
<1>1. /\ f \in Seq(STRING) /\ g \in Seq(STRING)
      /\ Len(f) \in Nat /\ Len(g) \in Nat
  BY LenProperties DEF Flight
<1>2. PICK n : n = FirstOfType(f, "finished")
  OBVIOUS
<1>3. n \in 1 .. Len(f) /\ f[n] = "finished"
  <2>1. PICK i \in 1 .. Len(f) :
          /\ f[i] = "finished"
          /\ \A j \in 1 .. Len(f) : f[j] = "finished" => j = i
    BY DEF Flight
  <2>2. \A j \in 1 .. i - 1 : f[j] # "finished"
    BY <1>1, <2>1
  <2> QED
    BY <1>2, <2>1, <2>2 DEF FirstOfType
<1>4. PICK m : m = Len(g)
  OBVIOUS
<1>5. m \in Nat /\ m >= 1 /\ g[m] = "finished"
  BY <1>1, <1>4 DEF Flight
<1>6. PICK a, b, c :
        a = SubSeq(f, 1, n - 1) /\ b = SubSeq(g, 1, m - 1) /\ c = SubSeq(f, 1, n)
  OBVIOUS
<1>7. /\ a \in Seq(STRING) /\ Len(a) = n - 1
      /\ \A k \in 1 .. n - 1 : a[k] = f[k]
  BY <1>1, <1>3, <1>6, SubSeqProperties
<1>8. /\ b \in Seq(STRING) /\ Len(b) = m - 1
      /\ \A k \in 1 .. m - 1 : b[k] = g[k]
  BY <1>1, <1>4, <1>5, <1>6, SubSeqProperties
<1>9. /\ c \in Seq(STRING) /\ Len(c) = n
      /\ \A k \in 1 .. n : c[k] = f[k]
  BY <1>1, <1>3, <1>6, SubSeqProperties
<1>10. ASSUME a = b PROVE c = g
  <2>1. n = m
    BY <1>3, <1>5, <1>7, <1>8, <1>10
  <2>2. ASSUME NEW k \in 1 .. n PROVE c[k] = g[k]
    <3>1. CASE k = n
      BY <1>3, <1>5, <1>9, <2>1, <3>1
    <3>2. CASE k # n
      <4>1. k \in 1 .. n - 1 /\ k \in 1 .. m - 1
        BY <1>3, <2>1, <3>2
      <4> QED
        BY <1>7, <1>8, <1>9, <1>10, <4>1
    <3> QED
      BY <3>1, <3>2
  <2> QED
    BY <1>1, <1>4, <1>9, <2>1, <2>2, SeqEqual
<1>11. ASSUME c = g PROVE a = b
  <2>1. n = m
    BY <1>4, <1>9, <1>11
  <2>2. ASSUME NEW k \in 1 .. n - 1 PROVE a[k] = b[k]
    <3>1. k \in 1 .. n /\ k \in 1 .. m - 1
      BY <1>3, <2>1
    <3> QED
      BY <1>7, <1>8, <1>9, <1>11, <3>1
  <2> QED
    BY <1>7, <1>8, <2>1, <2>2, SeqEqual
<1> QED
  BY <1>2, <1>4, <1>6, <1>7, <1>8, <1>10, <1>11

LEMMA FinishedTaken ==
  ASSUME Viewed
  PROVE  /\ ServerTakesFinished <=> FlightAgreed
         /\ ClientTakesFinished <=> FinishedAgreed
<1>1. clientView \in View /\ serverView \in View
  BY DEF Viewed, ServerView
<1>2. PICK ours, theirs, before, sentBefore :
        /\ ours = ClientHellos \o clientView.flight
        /\ theirs = ServerTranscript(3)
        /\ before = SubSeq(clientView.flight, 1,
                            FirstOfType(clientView.flight, "finished") - 1)
        /\ sentBefore = SubSeq(serverView.flight, 1, Len(serverView.flight) - 1)
  OBVIOUS
<1>3. ASSUME NEW label, NEW x, NEW y
      PROVE  FinishedVerifyData(HandshakeSecret(label), x)
               = FinishedVerifyData(ServerSecret(2, label), y)
               <=> HelloAgreed /\ x = y
  <2>1. PICK a, b : a = HandshakeSecret(label) /\ b = ServerSecret(2, label)
    OBVIOUS
  <2>2. a = b <=> HelloAgreed
    BY <1>1, <2>1, SecretsAgree
  <2>3. FinishedVerifyData(a, x) = FinishedVerifyData(b, y)
          <=> /\ HkdfExpandLabel(a, "finished", NoContext)
                   = HkdfExpandLabel(b, "finished", NoContext)
              /\ Hash(x) = Hash(y)
    BY HmacParts DEF FinishedVerifyData
  <2>4. FinishedVerifyData(a, x) = FinishedVerifyData(b, y)
          <=> a = b /\ x = y
    BY <2>3, ExpandParts, HashParts
  <2>5. QED
    BY <2>1, <2>2, <2>4
<1>4. ServerTakesFinished <=> FlightAgreed
  <2>1. FinishedVerifyData(HandshakeSecret("c hs traffic"), ours)
          = FinishedVerifyData(ServerSecret(2, "c hs traffic"), theirs)
          <=> HelloAgreed /\ ours = theirs
    BY <1>3, Zenon
  <2>2. ServerTakesFinished <=> HelloAgreed /\ ours = theirs
    BY <1>2, <2>1, ClientKeys DEF ServerTakesFinished
  <2> QED
    BY <1>1, <1>2, <2>2, SecretsAgree
<1>5. ClientTakesFinished <=> FinishedAgreed
  <2> DEFINE x == ClientHellos \o before
             y == ServerHellos \o sentBefore
  <2>1. ClientTakesFinished
          <=> FinishedVerifyData(ServerSecret(2, "s hs traffic"), y)
                = FinishedVerifyData(HandshakeSecret("s hs traffic"), x)
    BY <1>2, ClientKeys
       DEF ClientTakesFinished, VerifyTLS13ServerFinished, ClientHellos,
           ServerHellos, ServerFinishedVerifyData, TranscriptBeforeMessageType
  <2>2. ClientTakesFinished <=> HelloAgreed /\ x = y
    <3> HIDE DEF x, y
    <3>1. FinishedVerifyData(HandshakeSecret("s hs traffic"), x)
            = FinishedVerifyData(ServerSecret(2, "s hs traffic"), y)
            <=> HelloAgreed /\ x = y
      BY <1>3, Zenon
    <3> QED
      BY <2>1, <3>1
  <2>3. /\ clientView.flight \in Flight /\ serverView.flight \in Flight
        /\ serverView.flight[Len(serverView.flight)] = "finished"
    BY DEF Viewed, ServerView, View
  <2>4. /\ before \in Seq(STRING) /\ sentBefore \in Seq(STRING)
        /\ before = sentBefore
             <=> SubSeq(clientView.flight, 1,
                        FirstOfType(clientView.flight, "finished"))
                   = serverView.flight
    BY <1>2, <2>3, FrontsAgree
  <2>5. ClientHellos \o before = ServerHellos \o sentBefore
          <=> ClientHellos = ServerHellos /\ before = sentBefore
    BY <1>1, <2>4, HellosApart
  <2>6. HelloAgreed => ClientHellos = ServerHellos
    BY <1>1, SecretsAgree
  <2> QED
    BY <2>2, <2>4, <2>5, <2>6 DEF FinishedAgreed
<1>6. QED
  BY <1>4, <1>5

LEMMA ServerReadsFollows ==
  ASSUME Viewed, ClientWrote PROVE ServerReadsTheClient
<1>1. ASSUME NEW i \in 1 .. Len(written)
      PROVE  /\ Opens(Received(written[i]), ServerOpeningKey(requested[i].type), 0)
                  <=> /\ Agreed(requested[i].type)
                      /\ TextLen(requested[i].content) <= MaxSealed
             /\ Opens(Received(written[i]), ServerOpeningKey(requested[i].type), 0)
                  => ParseTLSInnerPlaintext(Received(written[i]).inner) = requested[i]
  <2>1. WroteRecord(written[i], requested[i], i)
    BY DEF ClientWrote
  <2>2. QED
    BY <2>1, ServerOpens
<1>2. QED
  BY <1>1, FinishedTaken DEF ServerReadsTheClient

LEMMA ClientReadsFollows ==
  ASSUME ServerSealed, ClientOpened PROVE ClientReadsTheServer
<1>1. answered \in Seq(Plain) /\ Len(answered) \in Nat
  BY LenProperties DEF ServerSealed
<1>2. /\ opened \in Seq([type : Byte, content : Text]) /\ Len(opened) \in Nat
      /\ Len(opened) <= Len(answered)
  BY LenProperties DEF ClientOpened
<1>3. ASSUME NEW i \in 1 .. Len(opened), answered[i].type # 0
      PROVE  opened[i] = [type |-> answered[i].type, content |-> answered[i].content]
  <2>1. answered[i] \in Plain
    <3>1. i \in 1 .. Len(answered)
      BY <1>1, <1>2
    <3>2. QED
      BY <1>1, <3>1, ElementOfSeq
  <2>2. opened[i] = ParseTLSInnerPlaintext(Inner(answered[i]))
    BY DEF ClientOpened
  <2>3. PICK c, t, z : /\ c = answered[i].content /\ t = answered[i].type
                       /\ z = answered[i].zeros
    OBVIOUS
  <2>4. c \in Text /\ t \in Byte /\ z \in Nat
    BY <2>1, <2>3, PlainParts
  <2>5. opened[i] = ParseTLSInnerPlaintext(InnerMarshal(c, t, z))
    BY <2>2, <2>3 DEF Inner
  <2>6. QED
    BY <1>3, <2>3, <2>4, <2>5, RoundTrip
<1>4. opened # <<>> => FlightAgreed /\ Len(opened) <= BeforeUpdate
  <2> SUFFICES ASSUME opened # <<>>
               PROVE  FlightAgreed /\ Len(opened) <= BeforeUpdate
    OBVIOUS
  <2>1. Len(opened) # 0
    BY <1>2, EmptySeq
  <2>2. Len(opened) \in 1 .. Len(opened) /\ Len(opened) \in 1 .. Len(answered)
    BY <1>1, <1>2, <2>1
  <2>3. Ours(Len(opened))
    BY <2>2 DEF ClientOpened
  <2>4. QED
    BY <1>1, <2>2, <2>3, BeforeUpdateIs DEF Ours
<1>5. ASSUME pc = "failed", FlightAgreed, ~(Len(opened) >= BeforeUpdate),
             Acceptable(answered[Len(opened) + 1])
      PROVE  FALSE
  <2>1. PICK i : i = Len(opened) + 1
    OBVIOUS
  <2>2. /\ Len(opened) < Len(answered)
        /\ failure = Verdict(i) /\ failure # "none"
    BY <1>5, <2>1 DEF ClientOpened
  <2>3. i \in 1 .. Len(answered)
    BY <1>1, <1>2, <2>1, <2>2
  <2>4. Ours(i)
    <3>1. BeforeUpdate \in Nat /\ (NoUpdate(i) <=> i <= BeforeUpdate)
      BY <1>1, <2>3, BeforeUpdateIs
    <3>2. i <= BeforeUpdate
      BY <1>2, <1>5, <2>1, <3>1
    <3>3. QED
      BY <1>5, <3>1, <3>2 DEF Ours
  <2>5. PICK c, t, z : /\ c = answered[i].content /\ t = answered[i].type
                       /\ z = answered[i].zeros
    OBVIOUS
  <2>6. c \in Text /\ t \in Byte /\ z \in Nat
    <3>1. answered[i] \in Plain
      BY <1>1, <2>3, ElementOfSeq
    <3>2. QED
      BY <2>5, <3>1, PlainParts
  <2>7. t # 0 /\ TextLen(c) <= MaxPayloadLen
    BY <1>5, <2>1, <2>5 DEF Acceptable
  <2>8. /\ ParseTLSInnerPlaintext(Inner(answered[i])) = [type |-> t, content |-> c]
        /\ ~NoType(Inner(answered[i]))
    BY <2>5, <2>6, <2>7, RoundTrip DEF Inner
  <2>9. TextLen(c) \in Nat
    BY <2>6, LenProperties DEF TextLen, Text
  <2>10. ~(TextLen(c) > MaxPayloadLen)
    BY <2>7, <2>9 DEF MaxPayloadLen
  <2>11. ParseTLSInnerPlaintext(Inner(answered[i])).content = c
    BY <2>8
  <2>12. Verdict(i) = "none"
    BY <2>4, <2>8, <2>10, <2>11 DEF Verdict
  <2>13. QED
    BY <2>2, <2>12
<1>6. QED
  BY <1>3, <1>4, <1>5 DEF ClientReadsTheServer

LEMMA FailureFollows ==
  ASSUME ServerSealed, ClientOpened PROVE FailureIsTheCause
<1> SUFFICES ASSUME pc = "failed",
                    NEW i, i = Len(opened) + 1,
                    NEW plain, plain = answered[i],
                    NEW ours, ours = (FlightAgreed /\ Len(opened) < BeforeUpdate)
             PROVE  /\ failure = "bad record MAC" <=> ~ours
                    /\ failure = "unexpected message" <=> ours /\ ~HasNonZero(plain)
                    /\ failure = "record overflow" =>
                         TextLen(plain.content) > MaxPayloadLen
  BY DEF FailureIsTheCause, ClientOpened
<1>1. answered \in Seq(Plain) /\ Len(answered) \in Nat
  BY LenProperties DEF ServerSealed
<1>2. /\ Len(opened) \in Nat /\ Len(opened) < Len(answered)
      /\ failure = Verdict(i) /\ failure # "none"
  BY LenProperties DEF ClientOpened
<1>3. i \in 1 .. Len(answered)
  BY <1>1, <1>2
<1>4. plain \in Plain
  BY <1>1, <1>3, ElementOfSeq
<1>5. Ours(i) <=> FlightAgreed /\ Len(opened) < BeforeUpdate
  <2>1. BeforeUpdate \in Nat /\ (NoUpdate(i) <=> i <= BeforeUpdate)
    BY <1>1, <1>3, BeforeUpdateIs
  <2>2. i <= BeforeUpdate <=> Len(opened) < BeforeUpdate
    BY <1>2, <2>1
  <2>3. QED
    BY <2>1, <2>2 DEF Ours
<1>6. NoType(Inner(plain)) <=> ~HasNonZero(plain)
  BY <1>4, NoTypeIsZeros
<1>7. PICK length : length
        = TextLen(ParseTLSInnerPlaintext(Inner(plain)).content)
  OBVIOUS
<1>8. /\ ~Ours(i) => failure = "bad record MAC"
      /\ Ours(i) /\ NoType(Inner(plain)) => failure = "unexpected message"
      /\ Ours(i) /\ ~NoType(Inner(plain)) /\ length > MaxPayloadLen
           => failure = "record overflow"
      /\ Ours(i) /\ ~NoType(Inner(plain)) /\ ~(length > MaxPayloadLen)
           => failure = "none"
  BY <1>2, <1>7 DEF Verdict
<1>9. ~NoType(Inner(plain)) /\ length > MaxPayloadLen
        => TextLen(plain.content) > MaxPayloadLen
  <2> SUFFICES ASSUME ~NoType(Inner(plain)), length > MaxPayloadLen
               PROVE  TextLen(plain.content) > MaxPayloadLen
    OBVIOUS
  <2>1. /\ ParseTLSInnerPlaintext(Inner(plain)) \in [type : Byte, content : Text]
        /\ length <= TextLen(plain.content)
    BY <1>4, <1>7, ParsedParts
  <2>2. PICK content \in Text : length = TextLen(content)
    BY <1>7, <2>1
  <2>3. length \in Nat
    BY <2>2, LenProperties DEF TextLen, Text
  <2>4. TextLen(plain.content) \in Nat
    BY <1>4, PlainParts DEF IsInner
  <2>5. QED
    BY <2>1, <2>3, <2>4 DEF MaxPayloadLen
<1>10. QED
  BY <1>2, <1>5, <1>6, <1>8, <1>9

-----------------------------------------------------------------------------
(* The invariant is one.                                                   *)

LEMMA InvHoldsFirst == Init => TrafficInv
<1> SUFFICES ASSUME Init PROVE TrafficInv
  OBVIOUS
<1>1. Viewed
  BY TrafficAssumption DEF Init, Viewed
<1>2. PICK empty : empty = <<>>
  OBVIOUS
<1>3. PICK zero \in Nat : zero = 0
  OBVIOUS
<1>4. /\ Len(empty) = zero
      /\ empty \in Seq(Plain) /\ empty \in Seq([type : Byte, content : Text])
  BY <1>2, <1>3, EmptySeq
<1>5. IsSeq(empty)
  BY <1>4 DEF IsSeq
<1>6. /\ pc = "finished" /\ requested = empty /\ written = empty
      /\ answered = empty /\ sent = empty /\ serverSeq = zero /\ opened = empty
      /\ serverSecret = ServerSecret(3, "s ap traffic")
  BY <1>2, <1>3 DEF Init
<1>7. \A i : i \notin 1 .. zero
  BY <1>3
<1>8. ClientWrote
  <2>1. Len(written) = zero /\ Len(requested) = zero
    BY <1>4, <1>6
  <2>2. Len(written) = CASE pc = "finished" -> 0
                         [] pc = "request"  -> 1
                         [] OTHER           -> 2
    BY <1>3, <1>6, <2>1
  <2>3. QED
    BY <1>5, <1>6, <1>7, <2>1, <2>2 DEF ClientWrote
<1>9. ServerSealed
  <2>1. PICK next : next = zero + 1 /\ next - 1 = zero
    BY <1>3
  <2>2. Len(sent) = zero /\ Len(answered) = zero
    BY <1>4, <1>6, Zenon
  <2>3. NoUpdate(next)
    BY <1>7, <2>1 DEF NoUpdate
  <2>4. Numbered(serverSecret, serverSeq, next)
    BY <1>6, <2>1, <2>3 DEF Numbered
  <2>5. Numbered(serverSecret, serverSeq, Len(answered) + 1)
    BY <2>1, <2>2, <2>4, Zenon
  <2>6. zero \in Nat
    BY <1>3
  <2>7. QED
    BY <1>4, <1>5, <1>6, <1>7, <2>2, <2>5, <2>6, Zenon DEF ServerSealed
<1>10. ClientOpened
  <2>1. Len(opened) = zero /\ Len(answered) = zero /\ pc # "failed"
    BY <1>4, <1>6
  <2>2. zero <= zero
    BY <1>3
  <2>3. QED
    BY <1>4, <1>6, <1>7, <2>1, <2>2, Zenon DEF ClientOpened
<1>11. QED
  BY <1>1, <1>8, <1>9, <1>10 DEF TrafficInv

\* What the client writes, it was asked to.
LEMMA WriteKeeps ==
  ASSUME TrafficInv, NEW keys, NEW type, NEW content \in Text,
         WriteRecord(keys, 0, type, content),
         keys = ClientSealingKey(type),
         \/ pc = "finished" /\ pc' = "request" /\ type = Handshake
         \/ pc = "request" /\ pc' = "response" /\ type = ApplicationData
  PROVE  ClientWrote'
<1>1. PICK asked, rec :
        /\ asked = [type |-> type, content |-> content]
        /\ rec = EncryptTLS13Record(keys, 0, type, content)
  OBVIOUS
<1>2. written' = Append(written, rec) /\ requested' = Append(requested, asked)
  BY <1>1 DEF WriteRecord
<1>3. /\ IsSeq(written) /\ IsSeq(requested) /\ Len(requested) = Len(written)
      /\ Len(written) = CASE pc = "finished" -> 0
                          [] pc = "request"  -> 1
                          [] OTHER           -> 2
      /\ \A i \in 1 .. Len(written) : WroteRecord(written[i], requested[i], i)
  BY DEF TrafficInv, ClientWrote
<1>4. Extends(written', written, rec) /\ Extends(requested', requested, asked)
  BY <1>2, <1>3, AppendAny
<1>5. PICK n \in Nat : n = Len(written)
  BY <1>4 DEF Extends
<1>6. /\ IsSeq(written') /\ IsSeq(requested')
      /\ Len(written') = n + 1 /\ Len(requested') = n + 1
      /\ \A i \in 1 .. n : written'[i] = written[i] /\ requested'[i] = requested[i]
      /\ written'[n + 1] = rec /\ requested'[n + 1] = asked
  BY <1>3, <1>4, <1>5 DEF Extends
<1>7. /\ pc' \in {"request", "response"}
      /\ n = IF pc' = "request" THEN 0 ELSE 1
      /\ type = IF n = 0 THEN Handshake ELSE ApplicationData
  BY <1>3, <1>5
<1>8. ASSUME NEW i \in 1 .. n + 1
      PROVE  WroteRecord(written[i], requested[i], i)'
  <2>1. UNCHANGED views /\ SessionKeys' = SessionKeys
    BY DEF WriteRecord, views, SessionKeys
  <2>2. \A t : ClientSealingKey(t)' = ClientSealingKey(t)
    BY <2>1 DEF ClientSealingKey
  <2>3. CASE i \in 1 .. n
    <3>1. WroteRecord(written[i], requested[i], i)
      BY <1>3, <1>5, <2>3
    <3>2. written'[i] = written[i] /\ requested'[i] = requested[i]
      BY <1>6, <2>3
    <3>3. QED
      BY <2>2, <3>1, <3>2 DEF WroteRecord
  <2>4. CASE i = n + 1
    <3>1. asked.content = content /\ asked.type = type
      BY <1>1
    <3>2. type = IF i = 1 THEN Handshake ELSE ApplicationData
      BY <1>7, <2>4
    <3>3. written'[i] = rec /\ requested'[i] = asked
      BY <1>6, <2>4
    <3>4. QED
      BY <1>1, <2>2, <3>1, <3>2, <3>3 DEF WroteRecord
  <2>5. QED
    BY <1>5, <2>3, <2>4
<1>9. Len(written') = CASE pc' = "finished" -> 0
                        [] pc' = "request"  -> 1
                        [] OTHER            -> 2
  BY <1>6, <1>7
<1>10. QED
  BY <1>6, <1>7, <1>8, <1>9 DEF ClientWrote

\* Nothing of the server's part and of what was opened depends on the rest.
LEMMA SameServer ==
  ASSUME ServerSealed, UNCHANGED <<views, serverVars>>
  PROVE  ServerSealed' /\ \A i : (NoUpdate(i)' <=> NoUpdate(i))
<1>1. /\ answered' = answered /\ sent' = sent /\ serverSeq' = serverSeq
      /\ serverSecret' = serverSecret
      /\ clientView' = clientView /\ serverView' = serverView
  BY DEF serverVars, views
<1>2. ASSUME NEW i PROVE NoUpdate(i)' <=> NoUpdate(i)
  BY <1>1 DEF NoUpdate
<1>3. ServerSecret(3, "s ap traffic")' = ServerSecret(3, "s ap traffic")
  BY <1>1 DEF ServerSecret, Stage, ServerTranscript
<1>4. ASSUME NEW secret, NEW seq, NEW i
      PROVE  Numbered(secret, seq, i)' <=> Numbered(secret, seq, i)
  BY <1>2, <1>3 DEF Numbered
<1>5. QED
  BY <1>1, <1>2, <1>4 DEF ServerSealed

LEMMA SameFlight ==
  ASSUME UNCHANGED views PROVE FlightAgreed' <=> FlightAgreed
BY DEF views, FlightAgreed, HelloAgreed, SecretsAgreed

LEMMA SameViewed ==
  ASSUME Viewed, UNCHANGED views PROVE Viewed'
BY DEF Viewed, views

LEMMA SameWritten ==
  ASSUME ClientWrote, UNCHANGED <<views, requested, written>>,
         pc' = pc \/ (pc = "response" /\ pc' = "failed")
  PROVE  ClientWrote'
<1>1. SessionKeys' = SessionKeys
  BY DEF views, SessionKeys
<1>2. \A t : ClientSealingKey(t)' = ClientSealingKey(t)
  BY <1>1 DEF ClientSealingKey
<1>3. ASSUME NEW rec, NEW asked, NEW i
      PROVE  WroteRecord(rec, asked, i)' <=> WroteRecord(rec, asked, i)
  BY <1>2 DEF WroteRecord
<1>4. QED
  BY <1>3 DEF ClientWrote

\* What was opened stays that, when the server goes on.
LEMMA SameOpened ==
  ASSUME ClientOpened, UNCHANGED <<views, opened, failure>>,
         pc' = pc \/ (pc # "failed" /\ pc' # "failed"),
         Len(answered) \in Nat, Len(answered') \in Nat,
         Len(answered) <= Len(answered'),
         \A i \in 1 .. Len(answered) : answered'[i] = answered[i]
  PROVE  ClientOpened'
<1>1. ASSUME NEW i \in 1 .. Len(answered)
      PROVE  /\ Ours(i)' <=> Ours(i)
             /\ Verdict(i)' = Verdict(i)
             /\ answered'[i] = answered[i]
  <2>1. answered'[i] = answered[i]
    OBVIOUS
  <2>2. NoUpdate(i)' <=> NoUpdate(i)
    <3>1. \A j \in 1 .. i - 1 : answered'[j] = answered[j]
      OBVIOUS
    <3>2. QED
      BY <3>1 DEF NoUpdate, KeyUpdateMessage
  <2>3. Ours(i)' <=> Ours(i)
    BY <2>2, SameFlight DEF Ours
  <2>4. Verdict(i)' = Verdict(i)
    BY <2>1, <2>3 DEF Verdict, Inner
  <2>5. QED
    BY <2>1, <2>3, <2>4
<1>2. /\ opened \in Seq([type : Byte, content : Text]) /\ Len(opened) \in Nat
      /\ Len(opened) <= Len(answered)
  BY LenProperties DEF ClientOpened
<1>3. ASSUME NEW i \in 1 .. Len(opened)
      PROVE  (Ours(i) /\ opened[i] = ParseTLSInnerPlaintext(Inner(answered[i])))'
  <2>1. i \in 1 .. Len(answered)
    BY <1>2
  <2>2. Ours(i) /\ opened[i] = ParseTLSInnerPlaintext(Inner(answered[i]))
    BY DEF ClientOpened
  <2>3. QED
    BY <1>1, <2>1, <2>2 DEF Inner
<1>4. ASSUME pc' = "failed"
      PROVE  /\ Len(opened') < Len(answered')
             /\ failure' = Verdict(Len(opened) + 1)' /\ failure' # "none"
  <2>1. /\ Len(opened) < Len(answered)
        /\ failure = Verdict(Len(opened) + 1) /\ failure # "none"
    BY <1>4 DEF ClientOpened
  <2>2. Len(opened) + 1 \in 1 .. Len(answered)
    BY <1>2, <2>1
  <2>3. PICK i \in 1 .. Len(answered) : i = Len(opened) + 1
    BY <2>2
  <2>4. Verdict(i)' = Verdict(i)
    BY <1>1
  <2>5. Verdict(Len(opened) + 1)' = Verdict(i)'
    BY <2>3 DEF Verdict, Ours, NoUpdate
  <2>6. QED
    BY <1>2, <2>1, <2>3, <2>4, <2>5
<1>5. QED
  BY <1>2, <1>3, <1>4 DEF ClientOpened

\* A record the client writes leaves the rest of the invariant.
LEMMA WriteLeaves ==
  ASSUME TrafficInv, ClientWrote', NEW keys, NEW seq, NEW type, NEW content,
         WriteRecord(keys, seq, type, content),
         pc # "failed", pc' # "failed"
  PROVE  TrafficInv'
<1>1. /\ UNCHANGED <<views, serverVars>> /\ UNCHANGED <<views, opened, failure>>
      /\ answered' = answered
  BY DEF WriteRecord, serverVars
<1>2. Viewed /\ ServerSealed /\ ClientOpened
  BY DEF TrafficInv
<1>3. Len(answered) \in Nat
  BY <1>2, LenProperties DEF ServerSealed
<1>4. Viewed' /\ ServerSealed'
  BY <1>1, <1>2, SameViewed, SameServer
<1>5. ClientOpened'
  BY <1>1, <1>2, <1>3, SameOpened
<1>6. QED
  BY <1>4, <1>5 DEF TrafficInv

\* The key and the number go on, unless the plaintext is an update.
Counts(plain) ==
  \/ /\ plain # KeyUpdateMessage
     /\ serverSeq' = serverSeq + 1 /\ serverSecret' = serverSecret
  \/ /\ plain = KeyUpdateMessage
     /\ serverSeq' = 0
     /\ serverSecret' = HkdfExpandLabel(serverSecret, "traffic upd", NoContext)

\* A record more of the server, under its key, or the last under that key.
LEMMA SendKeeps ==
  ASSUME TrafficInv, NEW plain \in Plain, SendAnswer(plain), Counts(plain)
  PROVE  TrafficInv'
<1>1. /\ answered \in Seq(Plain) /\ IsSeq(sent) /\ Len(sent) = Len(answered)
      /\ serverSeq \in Nat
      /\ Numbered(serverSecret, serverSeq, Len(answered) + 1)
      /\ \A i \in 1 .. Len(sent) :
           \E secret, seq : /\ Numbered(secret, seq, i)
                            /\ SealedAs(sent[i], answered[i], secret, seq)
  BY DEF TrafficInv, ServerSealed
<1>2. PICK n \in Nat : n = Len(answered)
  BY <1>1, LenProperties
<1>3. /\ answered' \in Seq(Plain) /\ Len(answered') = n + 1
      /\ \A i \in 1 .. n : answered'[i] = answered[i]
      /\ answered'[n + 1] = plain
  <2>1. answered' = Append(answered, plain)
    BY DEF SendAnswer
  <2>2. QED
    BY <1>1, <1>2, <2>1, AppendProperties
<1>4. PICK rec : /\ sent' = Append(sent, rec)
                 /\ SealedAs(rec, plain, serverSecret, serverSeq)
  BY DEF SendAnswer, SealedAs, Inner, ServerSealingKey
<1>5. /\ IsSeq(sent') /\ Len(sent') = n + 1
      /\ \A i \in 1 .. n : sent'[i] = sent[i]
      /\ sent'[n + 1] = rec
  BY <1>1, <1>2, <1>4, AppendAny DEF Extends
<1>6. /\ UNCHANGED views
      /\ pc' = pc /\ requested' = requested /\ written' = written
      /\ opened' = opened /\ failure' = failure
  BY DEF SendAnswer, clientVars
<1>7. \A i \in 1 .. n + 1 : NoUpdate(i)' <=> NoUpdate(i)
  <2> SUFFICES ASSUME NEW i \in 1 .. n + 1 PROVE NoUpdate(i)' <=> NoUpdate(i)
    OBVIOUS
  <2>1. \A j \in 1 .. i - 1 : answered'[j] = answered[j]
    BY <1>2, <1>3
  <2>2. QED
    BY <2>1 DEF NoUpdate, KeyUpdateMessage
<1>8. ServerSecret(3, "s ap traffic")' = ServerSecret(3, "s ap traffic")
  BY <1>6 DEF views, ServerSecret, Stage, ServerTranscript
<1>9. \A secret, seq : \A i \in 1 .. n + 1 :
        Numbered(secret, seq, i)' <=> Numbered(secret, seq, i)
  BY <1>7, <1>8 DEF Numbered
<1>10. ASSUME NEW i \in 1 .. n + 1
       PROVE  \E secret, seq :
                /\ Numbered(secret, seq, i)'
                /\ SealedAs(sent[i], answered[i], secret, seq)'
  <2>1. CASE i \in 1 .. n
    <3>1. PICK secret, seq : /\ Numbered(secret, seq, i)
                             /\ SealedAs(sent[i], answered[i], secret, seq)
      BY <1>1, <1>2, <2>1
    <3>2. sent'[i] = sent[i] /\ answered'[i] = answered[i]
      BY <1>3, <1>5, <2>1
    <3>3. SealedAs(sent[i], answered[i], secret, seq)'
      BY <3>1, <3>2 DEF SealedAs, Inner
    <3>4. QED
      BY <1>9, <3>1, <3>3
  <2>2. CASE i = n + 1
    <3>1. Numbered(serverSecret, serverSeq, i)
      BY <1>1, <1>2, <2>2
    <3>2. PICK secret, seq : secret = serverSecret /\ seq = serverSeq
      OBVIOUS
    <3>3. sent'[i] = rec /\ answered'[i] = plain
      BY <1>3, <1>5, <2>2
    <3>4. SealedAs(sent[i], answered[i], secret, seq)'
      BY <1>4, <3>2, <3>3 DEF SealedAs, Inner
    <3>5. Numbered(secret, seq, i)'
      BY <1>9, <3>1, <3>2
    <3>6. QED
      BY <3>4, <3>5
  <2>3. QED
    BY <1>2, <2>1, <2>2
<1>11. Numbered(serverSecret, serverSeq, Len(answered) + 1)' /\ serverSeq' \in Nat
  <2>1. PICK m \in Nat : m = (n + 1) + 1 /\ m - 1 = n + 1
    BY <1>2
  <2>2. NoUpdate(m)' <=> NoUpdate(n + 1) /\ plain # KeyUpdateMessage
    <3>1. \A j \in 1 .. m - 1 : j \in 1 .. (n + 1) - 1 \/ j = n + 1
      BY <1>2, <2>1
    <3>2. \A j \in 1 .. (n + 1) - 1 : j \in 1 .. n /\ j \in 1 .. m - 1
      BY <1>2, <2>1
    <3>3. n + 1 \in 1 .. m - 1
      BY <1>2, <2>1
    <3>4. \A j \in 1 .. (n + 1) - 1 : answered'[j] = answered[j]
      BY <1>3, <3>2
    <3>5. QED
      BY <1>3, <3>1, <3>2, <3>3, <3>4 DEF NoUpdate, KeyUpdateMessage
  <2>3. Numbered(serverSecret, serverSeq, n + 1) /\ (n + 1) - 1 = n
    BY <1>1, <1>2
  <2>4. PICK secret, seq : secret = serverSecret' /\ seq = serverSeq'
    OBVIOUS
  <2>5. Numbered(secret, seq, m)'
    <3>1. CASE plain # KeyUpdateMessage /\ NoUpdate(n + 1)
      <4>1. secret = ServerSecret(3, "s ap traffic") /\ seq = m - 1
        BY <2>1, <2>3, <2>4, <3>1 DEF Numbered, Counts
      <4>2. QED
        BY <1>8, <2>2, <3>1, <4>1 DEF Numbered
    <3>2. CASE plain # KeyUpdateMessage /\ ~NoUpdate(n + 1)
      <4>1. \E last : secret = HkdfExpandLabel(last, "traffic upd", NoContext)
        BY <2>3, <2>4, <3>2 DEF Numbered, Counts
      <4>2. QED
        BY <2>2, <3>2, <4>1 DEF Numbered
    <3>3. CASE plain = KeyUpdateMessage
      <4>1. secret = HkdfExpandLabel(serverSecret, "traffic upd", NoContext)
        BY <2>4, <3>3 DEF Counts
      <4>2. QED
        BY <2>2, <3>3, <4>1 DEF Numbered
    <3>4. QED
      BY <3>1, <3>2, <3>3
  <2>6. Numbered(serverSecret, serverSeq, m)'
    BY <2>4, <2>5 DEF Numbered, NoUpdate
  <2>7. (Len(answered) + 1)' = m
    BY <1>3, <2>1
  <2>8. serverSeq' \in Nat
    <3>1. serverSeq' = serverSeq + 1 \/ serverSeq' = 0
      BY Zenon DEF Counts
    <3>2. serverSeq + 1 \in Nat /\ 0 \in Nat
      BY <1>1
    <3>3. QED
      BY <3>1, <3>2, Zenon
  <2>9. QED
    BY <2>6, <2>7, <2>8 DEF Numbered, NoUpdate
<1>12. ServerSealed'
  BY <1>3, <1>5, <1>10, <1>11 DEF ServerSealed
<1>13. ClientWrote' /\ Viewed'
  BY <1>6, SameWritten, SameViewed DEF TrafficInv
<1>14. ClientOpened'
  BY <1>2, <1>3, <1>6, SameOpened DEF TrafficInv
<1>15. QED
  BY <1>12, <1>13, <1>14 DEF TrafficInv

\* The client opens the next record, or stops at it.
LEMMA OpenKeeps ==
  ASSUME TrafficInv, OpenAnswer PROVE TrafficInv'
<1>1. /\ UNCHANGED <<views, serverVars, requested, written>>
      /\ pc = "response" /\ Len(opened) < Len(sent)
  BY DEF OpenAnswer
<1>2. PICK i : i = Len(opened) + 1
  OBVIOUS
<1>3. /\ opened \in Seq([type : Byte, content : Text]) /\ Len(opened) \in Nat
      /\ Len(opened) <= Len(answered)
      /\ \A k \in 1 .. Len(opened) :
           Ours(k) /\ opened[k] = ParseTLSInnerPlaintext(Inner(answered[k]))
      /\ \A k \in 1 .. Len(opened) : TextLen(opened[k].content) <= MaxPayloadLen
      /\ answered \in Seq(Plain) /\ Len(answered) \in Nat
      /\ Len(sent) = Len(answered)
  BY LenProperties DEF TrafficInv, ClientOpened, ServerSealed
<1>4. i \in 1 .. Len(sent) /\ i \in 1 .. Len(answered) /\ i - 1 = Len(opened)
  BY <1>1, <1>2, <1>3
<1>5. /\ DecodeError(Received(sent[i]), SessionKeys.serverApplication, Len(opened))
           = Verdict(i)
      /\ Received(sent[i]).inner = Inner(answered[i])
  <2>1. Viewed /\ ServerSealed
    BY DEF TrafficInv
  <2>2. QED
    BY <1>4, <2>1, ClientDecodes, ClientOpens
<1>6. /\ Verdict(i) = "none" =>
           /\ opened' = Append(opened, ParseTLSInnerPlaintext(Inner(answered[i])))
           /\ pc' = pc /\ failure' = failure
      /\ Verdict(i) # "none" =>
           pc' = "failed" /\ failure' = Verdict(i) /\ opened' = opened
  BY <1>2, <1>5 DEF OpenAnswer
<1>7. ServerSealed' /\ \A k : (NoUpdate(k)' <=> NoUpdate(k))
  <2>1. UNCHANGED <<views, serverVars>> /\ ServerSealed
    BY <1>1 DEF TrafficInv
  <2>2. QED
    BY <2>1, SameServer
<1>8. ClientWrote' /\ Viewed'
  <2>1. pc' = pc \/ (pc = "response" /\ pc' = "failed")
    BY <1>1, <1>6
  <2>2. ClientWrote /\ Viewed
    BY DEF TrafficInv
  <2>3. QED
    BY <1>1, <2>1, <2>2, SameWritten, SameViewed
<1>9. answered' = answered
  BY <1>1 DEF serverVars
<1>10. \A k : Ours(k)' <=> Ours(k)
  <2>1. FlightAgreed' <=> FlightAgreed
    BY <1>1, SameFlight
  <2>2. QED
    BY <1>7, <2>1 DEF Ours
<1>11. ClientOpened'
  <2>1. CASE Verdict(i) = "none"
    <3>1. Ours(i) /\ ~NoType(Inner(answered[i]))
      BY <2>1 DEF Verdict
    <3>2. PICK e : e = ParseTLSInnerPlaintext(Inner(answered[i]))
      OBVIOUS
    <3>3. e \in [type : Byte, content : Text]
      <4>1. answered[i] \in Plain
        BY <1>3, <1>4, ElementOfSeq
      <4>2. QED
        BY <3>1, <3>2, <4>1, ParsedParts
    <3>4. /\ opened' \in Seq([type : Byte, content : Text])
          /\ Len(opened') = i
          /\ \A k \in 1 .. Len(opened) : opened'[k] = opened[k]
          /\ opened'[i] = e
      <4> DEFINE S == [type : Byte, content : Text]
      <4>1. opened' = Append(opened, e) /\ opened \in Seq(S) /\ e \in S
        BY <1>3, <1>6, <2>1, <3>2, <3>3
      <4> HIDE DEF S
      <4>2. /\ opened' \in Seq(S) /\ Len(opened') = Len(opened) + 1
            /\ \A k \in 1 .. Len(opened) : opened'[k] = opened[k]
            /\ opened'[Len(opened) + 1] = e
        BY <4>1, AppendProperties
      <4>3. QED
        BY <1>2, <4>2 DEF S
    <3>5. ASSUME NEW k \in 1 .. i
          PROVE  (Ours(k) /\ opened[k] = ParseTLSInnerPlaintext(Inner(answered[k])))'
      <4>1. CASE k \in 1 .. Len(opened)
        <5>1. Ours(k) /\ opened[k] = ParseTLSInnerPlaintext(Inner(answered[k]))
          BY <1>3, <4>1
        <5>2. QED
          BY <1>9, <1>10, <3>4, <4>1, <5>1 DEF Inner
      <4>2. CASE k = i
        BY <1>9, <1>10, <3>1, <3>2, <3>4, <4>2 DEF Inner
      <4>3. QED
        BY <1>3, <1>4, <4>1, <4>2
    <3>6. pc' # "failed"
      BY <1>1, <1>6, <2>1
    <3>7. ASSUME NEW k \in 1 .. i PROVE TextLen(opened'[k].content) <= MaxPayloadLen
      <4>1. CASE k \in 1 .. Len(opened)
        BY <1>3, <3>4, <4>1
      <4>2. CASE k = i
        <5>1. ~(TextLen(e.content) > MaxPayloadLen)
          BY <2>1, <3>1, <3>2 DEF Verdict
        <5>2. TextLen(e.content) \in Nat
          BY <3>3, LenProperties DEF TextLen, Text
        <5> QED
          BY <3>4, <4>2, <5>1, <5>2 DEF MaxPayloadLen
      <4> QED
        BY <1>3, <1>4, <4>1, <4>2
    <3>8. Len(opened') <= Len(answered')
      BY <1>3, <1>4, <1>9, <3>4
    <3>9. QED
      BY <3>4, <3>5, <3>6, <3>7, <3>8 DEF ClientOpened
  <2>2. CASE Verdict(i) # "none"
    <3>1. opened' = opened /\ failure' = Verdict(i)
      BY <1>6, <2>2
    <3>2. Verdict(i)' = Verdict(i)
      BY <1>9, <1>10 DEF Verdict, Inner
    <3>3. ASSUME NEW k \in 1 .. Len(opened)
          PROVE  (Ours(k) /\ opened[k] = ParseTLSInnerPlaintext(Inner(answered[k])))'
      <4>1. Ours(k) /\ opened[k] = ParseTLSInnerPlaintext(Inner(answered[k]))
        BY <1>3
      <4>2. QED
        BY <1>9, <1>10, <3>1, <4>1 DEF Inner
    <3>4. (Len(opened) + 1)' = i
      BY <1>2, <3>1
    <3>5. Verdict(Len(opened) + 1)' = Verdict(i)'
      BY <3>4 DEF Verdict, Ours, NoUpdate
    <3>6. Len(opened') < Len(answered')
      BY <1>3, <1>4, <1>9, <3>1
    <3>7. QED
      BY <1>3, <1>9, <2>2, <3>1, <3>2, <3>3, <3>5, <3>6 DEF ClientOpened
  <2>3. QED
    BY <2>1, <2>2
<1>12. QED
  BY <1>7, <1>8, <1>11 DEF TrafficInv

LEMMA InvKept == TrafficInv /\ [Next]_vars => TrafficInv'
<1> SUFFICES ASSUME TrafficInv, [Next]_vars PROVE TrafficInv'
  OBVIOUS
<1> USE TrafficAssumption
<1>1. ASSUME SendFinished PROVE TrafficInv'
  <2>1. /\ pc = "finished" /\ pc' = "request"
        /\ WriteRecord(SessionKeys.clientHandshake, 0, Handshake, FinishedMessage)
    BY <1>1 DEF SendFinished
  <2>2. FinishedMessage \in Text
    BY EmptySeq DEF FinishedMessage, Text
  <2>3. ClientSealingKey(Handshake) = SessionKeys.clientHandshake
    BY DEF ClientSealingKey
  <2>4. ClientWrote'
    BY <2>1, <2>2, <2>3, WriteKeeps
  <2>5. QED
    BY <2>1, <2>4, WriteLeaves
<1>2. ASSUME SendRequest PROVE TrafficInv'
  <2>1. PICK content \in Requests :
          /\ pc = "request" /\ pc' = "response"
          /\ WriteRecord(SessionKeys.clientApplication, 0, ApplicationData, content)
    BY <1>2 DEF SendRequest
  <2>2. ClientSealingKey(ApplicationData) = SessionKeys.clientApplication
    BY DEF ClientSealingKey, ApplicationData, Handshake
  <2>3. ClientWrote'
    BY <2>1, <2>2, WriteKeeps
  <2>4. QED
    BY <2>1, <2>3, WriteLeaves
<1>3. ASSUME OpenAnswer PROVE TrafficInv'
  BY <1>3, OpenKeeps
<1>4. ASSUME ServerSeals PROVE TrafficInv'
  <2>1. PICK plain \in Plain : SendAnswer(plain) /\ plain # KeyUpdateMessage
    BY <1>4 DEF ServerSeals
  <2>2. serverSeq' = serverSeq + 1 /\ serverSecret' = serverSecret
    BY <1>4 DEF ServerSeals
  <2>3. QED
    BY <2>1, <2>2, SendKeeps DEF Counts
<1>5. ASSUME ServerUpdatesKey PROVE TrafficInv'
  <2>1. KeyUpdateMessage \in Plain
    BY EmptySeq DEF KeyUpdateMessage, Plain, Text, Byte, Handshake
  <2>2. /\ SendAnswer(KeyUpdateMessage) /\ serverSeq' = 0
        /\ serverSecret' = HkdfExpandLabel(serverSecret, "traffic upd", NoContext)
    BY <1>5 DEF ServerUpdatesKey
  <2>3. QED
    BY <2>1, <2>2, SendKeeps DEF Counts
<1>6. ASSUME UNCHANGED vars PROVE TrafficInv'
  <2>1. /\ UNCHANGED <<views, serverVars>>
        /\ UNCHANGED <<views, requested, written>> /\ pc' = pc
        /\ UNCHANGED <<views, opened, failure>> /\ answered' = answered
    BY <1>6 DEF vars, clientVars, serverVars
  <2>2. Viewed /\ ClientWrote /\ ServerSealed /\ ClientOpened
    BY DEF TrafficInv
  <2>3. Len(answered) \in Nat
    BY <2>2, LenProperties DEF ServerSealed
  <2>4. Viewed' /\ ClientWrote' /\ ServerSealed'
    BY <2>1, <2>2, SameViewed, SameWritten, SameServer
  <2>5. ClientOpened'
    BY <2>1, <2>2, <2>3, SameOpened
  <2>6. QED
    BY <2>4, <2>5 DEF TrafficInv
<1>7. QED
  BY <1>1, <1>2, <1>3, <1>4, <1>5, <1>6 DEF Next

-----------------------------------------------------------------------------
(* The theorems.                                                           *)

\* The invariant: the two records the client writes, the keys and numbers the
\* server seals under, and what the client has opened and why it stopped.
THEOREM TrafficInvariant == Spec => []TrafficInv
BY InvHoldsFirst, InvKept, PTL DEF Spec

\* The client never seals two records under one key and one nonce, whatever it
\* and the server have seen and whatever it is asked to send.
THEOREM NoncesApart == Spec => []NonceUsedOnce
<1>1. TrafficInv => NonceUsedOnce
  BY NonceFollows DEF TrafficInv
<1>2. QED
  BY <1>1, TrafficInvariant, PTL

\* Each side takes the other's Finished exactly when both have seen the same
\* handshake, and the server reads exactly the client's records that fit.
THEOREM ServerReads == Spec => []ServerReadsTheClient
<1>1. TrafficInv => ServerReadsTheClient
  BY ServerReadsFollows DEF TrafficInv
<1>2. QED
  BY <1>1, TrafficInvariant, PTL

\* The client opens what the server sealed, in order and without the padding,
\* and stops only where it has to.
THEOREM ClientReads == Spec => []ClientReadsTheServer
<1>1. TrafficInv => ClientReadsTheServer
  BY ClientReadsFollows DEF TrafficInv
<1>2. QED
  BY <1>1, TrafficInvariant, PTL

\* The error the client stops with says what is wrong with the record.
THEOREM FailuresExplained == Spec => []FailureIsTheCause
<1>1. TrafficInv => FailureIsTheCause
  BY FailureFollows DEF TrafficInv
<1>2. QED
  BY <1>1, TrafficInvariant, PTL
=============================================================================
