-------------------------- MODULE ReassemblyProofs --------------------------
(***************************************************************************)
(* Proofs about the collector, for whatever records it is given, also      *)
(* records that no server should send: every message it hands out has the  *)
(* length its header says, and how the bytes are cut into records does not *)
(* matter.                                                                 *)
(***************************************************************************)
EXTENDS Reassembly, SequenceLemmas

\* The four bytes that say how long a message is.
LEMMA LengthOfBytes ==
  ASSUME NEW s \in Seq(Byte), Len(s) >= HandshakeHeaderLen
  PROVE  BodyLen(s) \in Nat /\ MessageLen(s) \in Nat
<1>1. s[2] \in Nat /\ s[3] \in Nat /\ s[4] \in Nat
  <2>1. 2 \in 1 .. Len(s) /\ 3 \in 1 .. Len(s) /\ 4 \in 1 .. Len(s)
    BY DEF HandshakeHeaderLen
  <2>2. s[2] \in Byte /\ s[3] \in Byte /\ s[4] \in Byte
    BY <2>1, ElementOfSeq, Zenon
  <2>3. Byte \subseteq Nat
    BY DEF Byte
  <2> QED
    BY <2>2, <2>3, Zenon
<1>2. PICK a \in Nat, b \in Nat, c \in Nat : a = s[2] /\ b = s[3] /\ c = s[4]
  BY <1>1
<1>3. BodyLen(s) = 65536 * a + 256 * b + c
  BY <1>2 DEF BodyLen
<1>4. BodyLen(s) \in Nat
  BY <1>3
<1> QED
  BY <1>4 DEF MessageLen, HandshakeHeaderLen

\* A message cut from the front of the pending bytes is framed: its header is
\* the one that said where to cut.
LEMMA CutIsFramed ==
  ASSUME NEW s \in Seq(Byte),
         Len(s) >= HandshakeHeaderLen,
         Len(s) >= MessageLen(s),
         MessageLen(s) > HandshakeHeaderLen
  PROVE  /\ SubSeq(s, 1, MessageLen(s)) \in Seq(Byte)
         /\ Framed(SubSeq(s, 1, MessageLen(s)))
<1> DEFINE n == MessageLen(s)
           m == SubSeq(s, 1, n)
<1>1. n \in Nat /\ n <= Len(s) /\ n > 4
  BY LengthOfBytes DEF HandshakeHeaderLen
<1> HIDE DEF n
<1>2. m \in Seq(Byte) /\ Len(m) = n /\ \A i \in 1 .. n : m[i] = s[i]
  BY <1>1
<1>3. m[2] = s[2] /\ m[3] = s[3] /\ m[4] = s[4]
  BY <1>1, <1>2
<1> HIDE DEF m
<1>4. MessageLen(m) = n
  BY <1>3 DEF MessageLen, BodyLen, n
<1>5. Framed(m)
  BY <1>1, <1>2, <1>4 DEF Framed, HandshakeHeaderLen
<1> QED
  BY <1>2, <1>5 DEF m, n

LEMMA InitFramed == Init => MessagesFramed
<1> SUFFICES ASSUME Init PROVE MessagesFramed
  OBVIOUS
<1>1. input \in Input /\ Len(input.fragments) \in Nat
  BY InputsAssumption DEF Init, Input
<1> QED
  BY <1>1 DEF Init, MessagesFramed, TypeOK

LEMMA StepFramed == MessagesFramed /\ [Next]_vars => MessagesFramed'
<1> SUFFICES ASSUME MessagesFramed, [Next]_vars PROVE MessagesFramed'
  OBVIOUS
<1>1. /\ TypeOK
      /\ \A i \in 1 .. Len(messages) : Framed(messages[i])
      /\ pending \in Seq(Byte) /\ Len(pending) \in Nat
      /\ messages \in Seq(Seq(Byte)) /\ Len(messages) \in Nat
      /\ input.fragments \in Seq(Fragment) /\ Len(input.fragments) \in Nat
      /\ next \in Nat
  BY DEF MessagesFramed, TypeOK, Input
<1>2. CASE SkipRecord
  BY <1>1, <1>2 DEF SkipRecord, MessagesFramed, TypeOK
<1>3. CASE TakeRecord
  <2>1. input.fragments[next].payload \in Seq(Byte)
    <3>1. next \in 1 .. Len(input.fragments)
      BY <1>1, <1>3 DEF TakeRecord, TypeOK
    <3>2. input.fragments[next] \in Fragment
      BY <3>1, <1>1, ElementOfSeq
    <3> QED
      BY <3>2 DEF Fragment
  <2>2. pending' \in Seq(Byte)
    BY <2>1, <1>1, <1>3, ConcatProperties DEF TakeRecord
  <2>3. next' \in 1 .. Len(input.fragments) + 1
    BY <1>1, <1>3 DEF TakeRecord, TypeOK
  <2>4. TypeOK'
    BY <2>2, <2>3, <1>1, <1>3 DEF TakeRecord, TypeOK
  <2> QED
    BY <2>4, <1>1, <1>3 DEF TakeRecord, MessagesFramed
<1>4. CASE CutMalformed
  BY <1>1, <1>4 DEF CutMalformed, Return, MessagesFramed, TypeOK
<1>5. CASE CutMessage
  <2> DEFINE m == SubSeq(pending, 1, MessageLen(pending))
  <2>1. /\ Len(pending) >= HandshakeHeaderLen
        /\ Len(pending) >= MessageLen(pending)
        /\ ~(MessageLen(pending) <= HandshakeHeaderLen)
    BY <1>5 DEF CutMessage, MessagePending, HeaderPending, BodyEmpty
  <2>2. MessageLen(pending) \in Nat
    BY <2>1, <1>1, LengthOfBytes
  <2>3. MessageLen(pending) > HandshakeHeaderLen
    BY <2>1, <2>2 DEF HandshakeHeaderLen
  <2>4. m \in Seq(Byte) /\ Framed(m)
    BY <2>1, <2>3, <1>1, CutIsFramed
  <2>5. pending' \in Seq(Byte)
    BY <2>2, <1>1, <1>5 DEF CutMessage
  <2> HIDE DEF m
  <2>6. messages' = Append(messages, m)
    BY <1>5 DEF CutMessage, m
  <2>7. /\ messages' \in Seq(Seq(Byte))
        /\ Len(messages') = Len(messages) + 1
        /\ \A i \in 1 .. Len(messages) : messages'[i] = messages[i]
        /\ messages'[Len(messages) + 1] = m
    BY <2>4, <2>6, <1>1, AppendProperties
  <2>8. ASSUME NEW i \in 1 .. Len(messages') PROVE Framed(messages'[i])
    <3>1. CASE i \in 1 .. Len(messages)
      BY <3>1, <2>7, <1>1
    <3>2. CASE i = Len(messages) + 1
      BY <3>2, <2>4, <2>7
    <3> QED
      BY <3>1, <3>2, <2>7, <1>1
  <2>9. TypeOK'
    BY <2>5, <2>7, <1>1, <1>5 DEF CutMessage, TypeOK
  <2> QED
    BY <2>8, <2>9 DEF MessagesFramed
<1>6. CASE CutNothing
  BY <1>1, <1>6 DEF CutNothing, MessagesFramed, TypeOK
<1>7. CASE CollectReturns
  BY <1>1, <1>7 DEF CollectReturns, Return, MessagesFramed, TypeOK
<1>8. CASE UNCHANGED vars
  BY <1>1, <1>8 DEF vars, MessagesFramed, TypeOK
<1> QED
  BY <1>2, <1>3, <1>4, <1>5, <1>6, <1>7, <1>8 DEF Next

\* Every message that is handed out has a header, a body and the length it
\* says, for all records: the slice of EncryptedExtensions.Unmarshal is always
\* in range (utils.go 253-268, encrypted_extensions.go 29).
THEOREM AllFramed == Spec => []MessagesFramed
<1>1. Init => MessagesFramed
  BY InitFramed
<1>2. MessagesFramed /\ [Next]_vars => MessagesFramed'
  BY StepFramed
<1> QED
  BY <1>1, <1>2, PTL DEF Spec
-----------------------------------------------------------------------------
(* What the bytes alone come to.                                           *)

Outcome == [messages : Seq(Seq(Byte)),
            result   : {"messages", "malformed", "incomplete"}]

\* F gives the outcome behind each of the last positions of some bytes.
SplitsBehind(F, bytes, from) ==
  F = [at \in from .. Len(bytes) |-> SplitAt(bytes, F, at)]

IsSplitter(F, bytes) == SplitsBehind(F, bytes, 0)

\* The function that Split is the first value of.
Splitter(bytes) == CHOOSE F : IsSplitter(F, bytes)

LEMMA SplitIsFirst ==
  ASSUME NEW bytes PROVE Split(bytes) = Splitter(bytes)[0]
BY DEF Split, Splitter, IsSplitter, SplitsBehind

\* The bytes behind a position, of which there are enough for a header.
LEMMA RestHasHeader ==
  ASSUME NEW bytes \in Seq(Byte), NEW at \in 0 .. Len(bytes),
         Len(bytes) - at >= HandshakeHeaderLen,
         NEW rest, rest = SubSeq(bytes, at + 1, Len(bytes))
  PROVE  /\ rest \in Seq(Byte) /\ Len(rest) = Len(bytes) - at
         /\ \A i \in 1 .. Len(bytes) - at : rest[i] = bytes[at + i]
         /\ BodyLen(rest) \in Nat /\ MessageLen(rest) \in Nat
         /\ MessageLen(rest) = HandshakeHeaderLen + BodyLen(rest)
<1>1. Len(bytes) \in Nat
  BY LenProperties
<1>2. /\ rest \in Seq(Byte) /\ Len(rest) = Len(bytes) - at
      /\ \A i \in 1 .. Len(bytes) - at : rest[i] = bytes[at + i]
  BY <1>1 DEF HandshakeHeaderLen
<1>3. Len(rest) >= HandshakeHeaderLen
  BY <1>2
<1>4. QED
  BY <1>2, <1>3, LengthOfBytes DEF MessageLen

\* Two functions have the same outcomes behind a position.
SameBehind(F, G, at, n) == \A e \in at + 1 .. n : F[e] = G[e]

\* The outcome at a position depends on those behind it alone.
LEMMA SplitLooksAhead ==
  ASSUME NEW bytes \in Seq(Byte), NEW at \in 0 .. Len(bytes), NEW F, NEW G,
         SameBehind(F, G, at, Len(bytes))
  PROVE  SplitAt(bytes, F, at) = SplitAt(bytes, G, at)
<1> DEFINE N == Len(bytes)
<1>1. PICK rest : rest = SubSeq(bytes, at + 1, N)
  OBVIOUS
<1>2. N \in Nat
  BY LenProperties
<1>3. CASE at = N
  BY <1>3 DEF SplitAt
<1>4. CASE at # N /\ N - at \in 1 .. HandshakeHeaderLen - 1
  BY <1>4 DEF SplitAt
<1>5. CASE at # N /\ N - at \notin 1 .. HandshakeHeaderLen - 1
  <2>1. N - at >= HandshakeHeaderLen
    BY <1>2, <1>5 DEF HandshakeHeaderLen
  <2>2. /\ BodyLen(rest) \in Nat /\ MessageLen(rest) \in Nat
        /\ MessageLen(rest) = HandshakeHeaderLen + BodyLen(rest)
    BY <1>1, <2>1, RestHasHeader
  <2>3. CASE BodyLen(rest) = 0
    BY <1>1, <1>5, <2>3 DEF SplitAt
  <2>4. CASE BodyLen(rest) # 0 /\ at + MessageLen(rest) > N
    BY <1>1, <1>5, <2>4 DEF SplitAt
  <2>5. CASE BodyLen(rest) # 0 /\ ~(at + MessageLen(rest) > N)
    <3>1. at + MessageLen(rest) \in at + 1 .. N
      BY <1>2, <2>2, <2>5 DEF HandshakeHeaderLen
    <3>2. F[at + MessageLen(rest)] = G[at + MessageLen(rest)]
      BY <3>1, Zenon DEF SameBehind
    <3>3. QED
      BY <1>1, <1>5, <2>5, <3>2 DEF SplitAt
  <2>6. QED
    BY <2>3, <2>4, <2>5
<1>6. QED
  BY <1>3, <1>4, <1>5

\* The messages of an outcome are sequences of bytes.
LEMMA SplitTyped ==
  ASSUME NEW bytes \in Seq(Byte), NEW at \in 0 .. Len(bytes), NEW F,
         \A e \in at + 1 .. Len(bytes) : F[e] \in Outcome
  PROVE  SplitAt(bytes, F, at) \in Outcome
<1> DEFINE N == Len(bytes)
<1>1. PICK rest : rest = SubSeq(bytes, at + 1, N)
  OBVIOUS
<1>2. N \in Nat
  BY LenProperties
<1>3. PICK none \in Seq(Seq(Byte)) : none = <<>>
  BY EmptySeq
<1>4. \A r \in {"messages", "malformed", "incomplete"} :
        [messages |-> none, result |-> r] \in Outcome
  BY DEF Outcome
<1>5. CASE at = N
  BY <1>3, <1>4, <1>5 DEF SplitAt
<1>6. CASE at # N /\ N - at \in 1 .. HandshakeHeaderLen - 1
  BY <1>3, <1>4, <1>6 DEF SplitAt
<1>7. CASE at # N /\ N - at \notin 1 .. HandshakeHeaderLen - 1
  <2>1. N - at >= HandshakeHeaderLen
    BY <1>2, <1>7 DEF HandshakeHeaderLen
  <2>2. /\ BodyLen(rest) \in Nat /\ MessageLen(rest) \in Nat
        /\ MessageLen(rest) = HandshakeHeaderLen + BodyLen(rest)
    BY <1>1, <2>1, RestHasHeader
  <2>3. CASE BodyLen(rest) = 0
    BY <1>1, <1>3, <1>4, <1>7, <2>3 DEF SplitAt
  <2>4. CASE BodyLen(rest) # 0 /\ at + MessageLen(rest) > N
    BY <1>1, <1>3, <1>4, <1>7, <2>4 DEF SplitAt
  <2>5. CASE BodyLen(rest) # 0 /\ ~(at + MessageLen(rest) > N)
    <3>1. PICK end \in at + 1 .. N : end = at + MessageLen(rest)
      BY <1>2, <2>2, <2>5 DEF HandshakeHeaderLen
    <3>2. PICK msg \in Seq(Byte) : msg = SubSeq(bytes, at + 1, end)
      <4>1. SubSeq(bytes, at + 1, end) \in Seq(Byte)
        BY <1>2, <3>1
      <4>2. QED
        BY <4>1
    <3>3. SplitAt(bytes, F, at) = Before(<<msg>>, F[end])
      BY <1>1, <1>7, <2>5, <3>1, <3>2 DEF SplitAt
    <3>4. PICK o \in Outcome : o = F[end]
      BY <3>1
    <3>5. o.messages \in Seq(Seq(Byte)) /\ o.result \in {"messages", "malformed", "incomplete"}
      BY DEF Outcome
    <3>6. <<msg>> \o o.messages \in Seq(Seq(Byte))
      <4>1. <<msg>> \in Seq(Seq(Byte))
        OBVIOUS
      <4>2. QED
        BY <3>5, <4>1, ConcatProperties, Zenon
    <3>7. Before(<<msg>>, o) \in Outcome
      BY <3>5, <3>6 DEF Before, Outcome
    <3>8. QED
      BY <3>3, <3>4, <3>7
  <2>6. QED
    BY <2>3, <2>4, <2>5
<1>8. QED
  BY <1>5, <1>6, <1>7

\* The last k outcomes of some bytes can be given, for every k.
LEMMA SplitterExists ==
  ASSUME NEW bytes \in Seq(Byte) PROVE \E F : IsSplitter(F, bytes)
<1> DEFINE N == Len(bytes)
           T == {k \in Nat : \E F : SplitsBehind(F, bytes, N - k)}
<1>1. N \in Nat
  BY LenProperties
<1>2. 0 \in T
  <2> DEFINE F == [at \in N .. N |-> SplitAt(bytes, <<>>, at)]
  <2>1. SplitAt(bytes, F, N) = SplitAt(bytes, <<>>, N)
    BY DEF SplitAt
  <2>2. F = [at \in N .. N |-> SplitAt(bytes, F, at)]
    BY <2>1, <1>1
  <2>3. SplitsBehind(F, bytes, N - 0)
    <3>1. N - 0 = N
      BY <1>1
    <3>2. QED
      BY <2>2, <3>1, Zenon DEF SplitsBehind
  <2>4. QED
    BY <2>3
<1>3. ASSUME NEW k \in 0 .. N - 1, k \in T PROVE k + 1 \in T
  <2>1. PICK F : SplitsBehind(F, bytes, N - k)
    BY <1>3
  <2>2. PICK from \in 0 .. N : from = N - (k + 1) /\ from + 1 = N - k
    <3>1. N - (k + 1) \in 0 .. N /\ (N - (k + 1)) + 1 = N - k
      BY <1>1
    <3>2. QED
      BY <3>1
  <2> DEFINE G == [at \in from .. N |->
                     IF at = from THEN SplitAt(bytes, F, at) ELSE F[at]]
  <2>3. ASSUME NEW at \in from .. N PROVE G[at] = SplitAt(bytes, G, at)
    <3>1. at \in 0 .. N
      BY <1>1
    <3>2. ASSUME NEW e \in at + 1 .. N PROVE F[e] = G[e]
      <4>1. e \in from .. N /\ e # from
        BY <1>1
      <4>2. QED
        BY <4>1
    <3> HIDE DEF G
    <3>3. SplitAt(bytes, F, at) = SplitAt(bytes, G, at)
      <4>1. SameBehind(F, G, at, N)
        BY <3>2, Zenon DEF SameBehind
      <4>2. QED
        BY <3>1, <4>1, SplitLooksAhead
    <3>4. CASE at = from
      BY <3>3, <3>4 DEF G
    <3>5. CASE at # from
      <4>1. at \in from + 1 .. N
        BY <1>1, <3>5
      <4>2. F[at] = SplitAt(bytes, F, at)
        BY <2>1, <2>2, <4>1 DEF SplitsBehind
      <4>3. G[at] = F[at]
        BY <3>5 DEF G
      <4>4. QED
        BY <3>3, <4>2, <4>3
    <3>6. QED
      BY <3>4, <3>5
  <2>4. PICK H : H = G
    OBVIOUS
  <2>5. H = [at \in from .. N |-> SplitAt(bytes, H, at)]
    <3>1. H = [at \in from .. N |-> H[at]]
      BY <2>4
    <3>2. \A at \in from .. N : H[at] = SplitAt(bytes, H, at)
      BY <2>3, <2>4, Zenon
    <3>3. QED
      BY <3>1, <3>2
  <2>6. SplitsBehind(H, bytes, N - (k + 1))
    BY <2>2, <2>5, Zenon DEF SplitsBehind
  <2>7. QED
    BY <2>6
<1> HIDE DEF T
<1>4. \A k \in 0 .. N : k \in T
  BY <1>1, <1>2, <1>3, BoundedInduction
<1>5. PICK F : SplitsBehind(F, bytes, N - N)
  BY <1>1, <1>4 DEF T
<1>6. N - N = 0
  BY <1>1
<1>7. QED
  BY <1>5, <1>6, Zenon DEF IsSplitter

\* The splitter computes, and its outcomes are outcomes.
LEMMA SplitterSteps ==
  ASSUME NEW bytes \in Seq(Byte), NEW at \in 0 .. Len(bytes)
  PROVE  Splitter(bytes)[at] = SplitAt(bytes, Splitter(bytes), at)
<1>1. IsSplitter(Splitter(bytes), bytes)
  BY SplitterExists, Zenon DEF Splitter
<1>2. QED
  BY <1>1 DEF IsSplitter, SplitsBehind

LEMMA SplitterTyped ==
  ASSUME NEW bytes \in Seq(Byte), NEW at \in 0 .. Len(bytes)
  PROVE  Splitter(bytes)[at] \in Outcome
<1> DEFINE N == Len(bytes)
           F == Splitter(bytes)
           T == {k \in 0 .. N : \A e \in N - k .. N : F[e] \in Outcome}
<1>1. N \in Nat
  BY LenProperties
<1>2. \A e \in 0 .. N : F[e] = SplitAt(bytes, F, e)
  BY SplitterSteps, Zenon
<1> HIDE DEF F
<1>3. ASSUME NEW e \in 0 .. N, \A d \in e + 1 .. N : F[d] \in Outcome
      PROVE  F[e] \in Outcome
  BY <1>2, <1>3, SplitTyped
<1>4. 0 \in T
  <2>1. N \in 0 .. N /\ \A d \in N + 1 .. N : F[d] \in Outcome
    BY <1>1
  <2>2. F[N] \in Outcome
    BY <1>3, <2>1
  <2>3. QED
    BY <1>1, <2>2
<1>5. ASSUME NEW k \in 0 .. N - 1, k \in T PROVE k + 1 \in T
  <2>1. PICK from \in 0 .. N : from = N - (k + 1) /\ from + 1 = N - k
    <3>1. N - (k + 1) \in 0 .. N /\ (N - (k + 1)) + 1 = N - k
      BY <1>1
    <3>2. QED
      BY <3>1
  <2>2. \A d \in from + 1 .. N : F[d] \in Outcome
    BY <1>5, <2>1
  <2>3. F[from] \in Outcome
    BY <1>3, <2>2
  <2>4. \A e \in from .. N : F[e] \in Outcome
    BY <1>1, <2>2, <2>3
  <2>5. k + 1 \in 0 .. N
    BY <1>1
  <2>6. QED
    BY <2>1, <2>4, <2>5
<1> HIDE DEF T
<1>6. \A k \in 0 .. N : k \in T
  BY <1>1, <1>4, <1>5, BoundedInduction
<1>7. N \in T
  BY <1>1, <1>6
<1>8. QED
  BY <1>1, <1>7 DEF T, F
-----------------------------------------------------------------------------
(* The records taken so far, and the bytes in them.                        *)

TakenBytes(n) == Payloads(SubSeq(input.fragments, 1, n - 1), "handshake")

LEMMA FragmentsCarryBytes == Carries(Fragment, "handshake", Byte)
BY DEF Carries, Fragment

\* Before the first record there are none, and behind the last there are all.
LEMMA TakenEnds ==
  ASSUME input \in Input
  PROVE  /\ TakenBytes(1) = <<>>
         /\ TakenBytes(Len(input.fragments) + 1) = HandshakeBytes
<1> DEFINE f == input.fragments
<1>1. f \in Seq(Fragment) /\ Len(f) \in Nat
  BY DEF Input
<1>2. SubSeq(f, 1, 1 - 1) = <<>> /\ SubSeq(f, 1, (Len(f) + 1) - 1) = f
  <2>1. SubSeq(f, 1, 0) = <<>>
    BY <1>1, SubSeqEmpty
  <2>2. SubSeq(f, 1, Len(f)) = f
    BY <1>1, SubSeqFull
  <2>3. 1 - 1 = 0 /\ (Len(f) + 1) - 1 = Len(f)
    BY <1>1
  <2>4. QED
    BY <2>1, <2>2, <2>3
<1>3. Payloads(<<>>, "handshake") = <<>>
  <2>1. <<>> \in Seq(Fragment)
    BY EmptySeq
  <2>2. Payloads(<<>>, "handshake") = Collected(IfPayload("handshake", Fragment), <<>>)
    BY <2>1, PayloadsCollects
  <2>3. QED
    BY <2>2, CollectedEmpty
<1>4. QED
  BY <1>2, <1>3, Zenon DEF TakenBytes, HandshakeBytes

\* A record adds its payload, if it is of the handshake.
LEMMA TakenGrows ==
  ASSUME input \in Input, NEW n \in 1 .. Len(input.fragments)
  PROVE  /\ TakenBytes(n) \in Seq(Byte)
         /\ input.fragments[n].type # "handshake" => TakenBytes(n + 1) = TakenBytes(n)
         /\ input.fragments[n].type = "handshake" =>
              TakenBytes(n + 1) = TakenBytes(n) \o input.fragments[n].payload
<1> DEFINE f == input.fragments
           s == SubSeq(f, 1, n - 1)
           P == IfPayload("handshake", Fragment)
<1>1. f \in Seq(Fragment) /\ Len(f) \in Nat
  BY DEF Input
<1>2. s \in Seq(Fragment) /\ f[n] \in Fragment
  BY <1>1, ElementOfSeq
<1>3. SubSeq(f, 1, (n + 1) - 1) = s \o <<f[n]>>
  <2>1. (n + 1) - 1 = n
    OBVIOUS
  <2>2. SubSeq(f, 1, n) = Append(s, f[n])
    BY <1>1
  <2>3. Append(s, f[n]) = s \o <<f[n]>>
    BY <1>2, AppendIsConcat
  <2>4. QED
    BY <2>1, <2>2, <2>3
<1>4. TakenBytes(n) \in Seq(Byte)
  BY <1>2, FragmentsCarryBytes, PayloadsType, Zenon DEF TakenBytes
<1>5. <<f[n]>> \in Seq(Fragment)
  BY <1>2
<1>6. TakenBytes(n + 1) = TakenBytes(n) \o Payloads(<<f[n]>>, "handshake")
  <2>1. PayloadsJoin(s, <<f[n]>>, "handshake")
    BY <1>2, <1>5, FragmentsCarryBytes, PayloadsConcat, Zenon
  <2>2. QED
    BY <1>3, <2>1, Zenon DEF PayloadsJoin, TakenBytes
<1>7. Payloads(<<f[n]>>, "handshake") = P[f[n]]
  <2>1. Payloads(<<f[n]>>, "handshake") = Collected(P, <<f[n]>>)
    BY <1>5, PayloadsCollects
  <2>2. P \in [Fragment -> Seq(Byte)]
    BY FragmentsCarryBytes, IfPayloadType
  <2> HIDE DEF P
  <2>3. Collected(P, <<f[n]>>) = P[f[n]]
    BY <1>2, <2>2, CollectedOne
  <2>4. QED
    BY <2>1, <2>3
<1>8. P[f[n]] = IF f[n].type = "handshake" THEN f[n].payload ELSE <<>>
  BY <1>2 DEF IfPayload
<1>9. CASE f[n].type = "handshake"
  BY <1>4, <1>6, <1>7, <1>8, <1>9, Zenon
<1>10. CASE f[n].type # "handshake"
  <2>1. TakenBytes(n + 1) = TakenBytes(n) \o <<>>
    BY <1>6, <1>7, <1>8, <1>10, Zenon
  <2>2. QED
    BY <1>4, <1>10, <2>1, ConcatEmptySeq
<1>11. QED
  BY <1>9, <1>10

\* The bytes taken are the first of all.
IsPrefixOf(s, t) == \E more \in Seq(Byte) : t = s \o more

LEMMA TakenIsPrefix ==
  ASSUME input \in Input, NEW n \in 1 .. Len(input.fragments) + 1
  PROVE  /\ TakenBytes(n) \in Seq(Byte) /\ HandshakeBytes \in Seq(Byte)
         /\ IsPrefixOf(TakenBytes(n), HandshakeBytes)
<1> DEFINE f == input.fragments
           s == SubSeq(f, 1, n - 1)
           t == SubSeq(f, n, Len(f))
<1>1. f \in Seq(Fragment) /\ Len(f) \in Nat
  BY DEF Input
<1>2. s \in Seq(Fragment) /\ t \in Seq(Fragment)
  BY <1>1
<1>3. f = s \o t
  <2>1. /\ 1 \in 1 .. Len(f) + 1 /\ n - 1 \in 1 - 1 .. Len(f)
        /\ Len(f) \in n - 1 .. Len(f) /\ (n - 1) + 1 = n
    BY <1>1
  <2>2. SubSeq(f, 1, n - 1) \o SubSeq(f, (n - 1) + 1, Len(f)) = SubSeq(f, 1, Len(f))
    BY <1>1, <2>1, ConcatAdjacentSubSeq
  <2>3. QED
    BY <1>1, <2>1, <2>2, SubSeqFull
<1>4. /\ Payloads(s, "handshake") \in Seq(Byte)
      /\ Payloads(t, "handshake") \in Seq(Byte)
      /\ Payloads(f, "handshake") \in Seq(Byte)
  BY <1>1, <1>2, FragmentsCarryBytes, PayloadsType, Zenon
<1>5. PayloadsJoin(s, t, "handshake")
  BY <1>2, FragmentsCarryBytes, PayloadsConcat, Zenon
<1>6. Payloads(f, "handshake") = Payloads(s, "handshake") \o Payloads(t, "handshake")
  BY <1>3, <1>5, Zenon DEF PayloadsJoin
<1>7. QED
  BY <1>4, <1>6, Zenon DEF TakenBytes, HandshakeBytes, IsPrefixOf
-----------------------------------------------------------------------------
(***************************************************************************)
(* The inductive invariant behind BoundariesDoNotMatter: the pending bytes *)
(* are the taken ones behind the messages cut so far, and what all bytes   *)
(* come to is these messages followed by what the rest comes to.           *)
(***************************************************************************)
\* The number of bytes that are in messages already.
Gone == Len(TakenBytes(next)) - Len(pending)

\* The pending bytes, in their place among all.
PendingInPlace ==
  /\ Gone \in Nat
  /\ \A i \in 1 .. Len(pending) : pending[i] = HandshakeBytes[Gone + i]

MessagesComeFirst ==
  Splitter(HandshakeBytes)[0]
    = Before(messages, Splitter(HandshakeBytes)[Gone])

\* The collector takes a record only when nothing is left to cut.
NothingToCut == pc = "records" => ~MessagePending /\ ~BodyEmpty

CollectorInv ==
  /\ MessagesFramed
  /\ PendingInPlace
  /\ MessagesComeFirst
  /\ NothingToCut
  /\ BoundariesDoNotMatter

\* Nothing in front of an outcome, and messages in front of messages.
LEMMA BeforeProperties ==
  ASSUME NEW o \in Outcome, NEW ms \in Seq(Seq(Byte)), NEW m \in Seq(Byte)
  PROVE  /\ Before(<<>>, o) = o
         /\ Before(ms, Before(<<m>>, o)) = Before(Append(ms, m), o)
<1>1. PICK rest \in Seq(Seq(Byte)) : rest = o.messages
  BY DEF Outcome
<1>2. o = [messages |-> o.messages, result |-> o.result]
  BY DEF Outcome
<1>3. <<>> \o rest = rest
  BY ConcatEmptySeq
<1>4. PICK one \in Seq(Seq(Byte)) : one = <<m>>
  <2>1. <<m>> \in Seq(Seq(Byte))
    OBVIOUS
  <2>2. QED
    BY <2>1, Zenon
<1>5. ms \o (one \o rest) = (ms \o one) \o rest
  <2>1. Associates(ms, one, rest)
    BY JoinsInAnyOrder, Zenon
  <2>2. QED
    BY <2>1, Zenon DEF Associates
<1>6. Append(ms, m) = ms \o one
  BY <1>4, AppendIsConcat
<1>7. Before(<<>>, o) = o
  BY <1>1, <1>2, <1>3, Zenon DEF Before
<1>8. Before(ms, Before(one, o)) = Before(Append(ms, m), o)
  <2>1. Before(one, o) = [messages |-> one \o rest, result |-> o.result]
    BY <1>1, Zenon DEF Before
  <2>2. /\ [messages |-> one \o rest, result |-> o.result].messages = one \o rest
        /\ [messages |-> one \o rest, result |-> o.result].result = o.result
    OBVIOUS
  <2>3. Before(ms, Before(one, o)) = [messages |-> ms \o (one \o rest), result |-> o.result]
    BY <2>1, <2>2, Zenon DEF Before
  <2>4. QED
    BY <1>1, <1>5, <1>6, <2>3, Zenon DEF Before
<1>9. QED
  BY <1>4, <1>7, <1>8, Zenon

\* What a state of the invariant says of its parts.
LEMMA CollectorFacts ==
  ASSUME MessagesFramed, PendingInPlace
  PROVE  /\ input \in Input /\ HandshakeBytes \in Seq(Byte)
         /\ Len(HandshakeBytes) \in Nat
         /\ TakenBytes(next) \in Seq(Byte) /\ Len(TakenBytes(next)) \in Nat
         /\ Len(TakenBytes(next)) <= Len(HandshakeBytes)
         /\ pending \in Seq(Byte) /\ Len(pending) \in Nat
         /\ messages \in Seq(Seq(Byte))
         /\ Gone \in 0 .. Len(HandshakeBytes)
         /\ Gone + Len(pending) = Len(TakenBytes(next))
<1>1. /\ input \in Input /\ next \in 1 .. Len(input.fragments) + 1
      /\ pending \in Seq(Byte) /\ messages \in Seq(Seq(Byte))
  BY DEF MessagesFramed, TypeOK
<1>2. /\ TakenBytes(next) \in Seq(Byte) /\ HandshakeBytes \in Seq(Byte)
      /\ IsPrefixOf(TakenBytes(next), HandshakeBytes)
  BY <1>1, TakenIsPrefix
<1>3. PICK more \in Seq(Byte) : HandshakeBytes = TakenBytes(next) \o more
  BY <1>2 DEF IsPrefixOf
<1>4. /\ Len(HandshakeBytes) = Len(TakenBytes(next)) + Len(more)
      /\ Len(TakenBytes(next)) \in Nat /\ Len(more) \in Nat
      /\ Len(pending) \in Nat
  BY <1>1, <1>2, <1>3, ConcatProperties, LenProperties
<1>5. QED
  BY <1>1, <1>2, <1>4 DEF PendingInPlace, Gone

\* The length of a message is in its bytes 2 to 4.
SaySameLength(s, t) == BodyLen(s) = BodyLen(t) /\ MessageLen(s) = MessageLen(t)

LEMMA SameLengths ==
  ASSUME NEW s, NEW t, s[2] = t[2], s[3] = t[3], s[4] = t[4]
  PROVE  SaySameLength(s, t)
BY DEF SaySameLength, BodyLen, MessageLen

\* The pending bytes are the front of the rest, so their header is its header.
LEMMA HeadersAgree ==
  ASSUME MessagesFramed, PendingInPlace, Len(pending) >= HandshakeHeaderLen,
         NEW rest, rest = SubSeq(HandshakeBytes, Gone + 1, Len(HandshakeBytes))
  PROVE  /\ BodyLen(rest) = BodyLen(pending)
         /\ MessageLen(rest) = MessageLen(pending)
<1>1. PICK gone \in 0 .. Len(HandshakeBytes) :
        /\ gone = Gone /\ gone + Len(pending) <= Len(HandshakeBytes)
        /\ Len(HandshakeBytes) \in Nat /\ Len(pending) \in Nat
        /\ HandshakeBytes \in Seq(Byte)
  BY CollectorFacts
<1>2. Len(HandshakeBytes) - gone >= HandshakeHeaderLen
  BY <1>1 DEF HandshakeHeaderLen
<1>3. \A i \in 1 .. Len(HandshakeBytes) - gone : rest[i] = HandshakeBytes[gone + i]
  BY <1>1, <1>2, RestHasHeader
<1>4. ASSUME NEW i \in 2 .. 4 PROVE rest[i] = pending[i]
  <2>1. i \in 1 .. Len(pending) /\ i \in 1 .. Len(HandshakeBytes) - gone
    BY <1>1 DEF HandshakeHeaderLen
  <2>2. QED
    BY <1>1, <1>3, <2>1 DEF PendingInPlace
<1>5. rest[2] = pending[2] /\ rest[3] = pending[3] /\ rest[4] = pending[4]
  <2>1. 2 \in 2 .. 4 /\ 3 \in 2 .. 4 /\ 4 \in 2 .. 4
    OBVIOUS
  <2>2. QED
    BY <1>4, <2>1, Zenon
<1>6. QED
  BY <1>5, SameLengths, Zenon DEF SaySameLength

\* What the bytes behind the messages come to.
LEMMA RestSplits ==
  ASSUME MessagesFramed, PendingInPlace
  PROVE  Splitter(HandshakeBytes)[Gone]
           = SplitAt(HandshakeBytes, Splitter(HandshakeBytes), Gone)
BY CollectorFacts, SplitterSteps

\* The messages taken alone make an outcome.
LEMMA NothingBehind ==
  ASSUME NEW ms \in Seq(Seq(Byte)), NEW r
  PROVE  Before(ms, [messages |-> <<>>, result |-> r]) = [messages |-> ms, result |-> r]
<1>1. ms \o <<>> = ms
  BY ConcatEmptySeq
<1>2. QED
  BY <1>1 DEF Before

LEMMA CollectorStarts == Init => CollectorInv
<1> SUFFICES ASSUME Init PROVE CollectorInv
  OBVIOUS
<1>1. MessagesFramed
  BY InitFramed
<1>2. input \in Input /\ next = 1 /\ pending = <<>> /\ messages = <<>>
  BY InputsAssumption DEF Init, Input
<1>3. Gone = 0 /\ Len(pending) = 0
  BY <1>2, TakenEnds DEF Gone
<1>4. PendingInPlace
  BY <1>3 DEF PendingInPlace
<1>5. MessagesComeFirst
  <2>1. HandshakeBytes \in Seq(Byte) /\ 0 \in 0 .. Len(HandshakeBytes)
    BY <1>1, <1>3, <1>4, CollectorFacts
  <2>2. PICK o \in Outcome : o = Splitter(HandshakeBytes)[0]
    BY <2>1, SplitterTyped
  <2>3. Before(<<>>, o) = o
    <3>1. <<>> \in Seq(Seq(Byte)) /\ <<>> \in Seq(Byte)
      BY EmptySeq
    <3>2. QED
      BY <3>1, BeforeProperties
  <2>4. QED
    BY <1>2, <1>3, <2>2, <2>3, Zenon DEF MessagesComeFirst
<1>6. NothingToCut
  BY <1>3 DEF NothingToCut, MessagePending, BodyEmpty, HeaderPending, HandshakeHeaderLen
<1>7. BoundariesDoNotMatter
  BY DEF Init, BoundariesDoNotMatter
<1>8. QED
  BY <1>1, <1>4, <1>5, <1>6, <1>7 DEF CollectorInv

\* The bytes in messages and the pending ones stay where they are.
LEMMA SameBytes ==
  ASSUME PendingInPlace, MessagesComeFirst, input' = input,
         Gone' = Gone, pending' = pending, messages' = messages
  PROVE  PendingInPlace' /\ MessagesComeFirst'
<1>1. HandshakeBytes' = HandshakeBytes
  BY Zenon DEF HandshakeBytes
<1>2. PendingInPlace'
  BY <1>1 DEF PendingInPlace
<1>3. MessagesComeFirst'
  BY <1>1 DEF MessagesComeFirst
<1>4. QED
  BY <1>2, <1>3

LEMMA SkipRecordKeeps ==
  ASSUME CollectorInv, SkipRecord
  PROVE  PendingInPlace' /\ MessagesComeFirst' /\ NothingToCut' /\ BoundariesDoNotMatter'
<1>1. /\ MessagesFramed /\ PendingInPlace /\ MessagesComeFirst /\ NothingToCut
      /\ input \in Input /\ next \in 1 .. Len(input.fragments) + 1
  BY DEF CollectorInv, MessagesFramed, TypeOK
<1>2. /\ next <= Len(input.fragments) /\ input.fragments[next].type # "handshake"
      /\ next' = next + 1 /\ pc = "records"
      /\ input' = input /\ pending' = pending /\ messages' = messages /\ pc' = pc
  BY DEF SkipRecord
<1>3. TakenBytes(next') = TakenBytes(next)
  <2>1. next \in 1 .. Len(input.fragments)
    BY <1>1, <1>2 DEF Input
  <2>2. TakenBytes(next + 1) = TakenBytes(next)
    BY <1>1, <1>2, <2>1, TakenGrows
  <2>3. QED
    BY <1>2, <2>2
<1>4. Gone' = Gone
  <2>1. Gone' = Len(TakenBytes(next')) - Len(pending')
    BY <1>2, Zenon DEF Gone, TakenBytes
  <2>2. QED
    BY <1>2, <1>3, <2>1, Zenon DEF Gone
<1>5. PendingInPlace' /\ MessagesComeFirst'
  BY <1>1, <1>2, <1>4, SameBytes, Zenon
<1>6. NothingToCut'
  BY <1>1, <1>2 DEF NothingToCut, MessagePending, BodyEmpty, HeaderPending
<1>7. BoundariesDoNotMatter'
  BY <1>2 DEF BoundariesDoNotMatter
<1>8. QED
  BY <1>5, <1>6, <1>7

LEMMA TakeRecordKeeps ==
  ASSUME CollectorInv, TakeRecord
  PROVE  PendingInPlace' /\ MessagesComeFirst' /\ NothingToCut' /\ BoundariesDoNotMatter'
<1>1. /\ MessagesFramed /\ PendingInPlace /\ MessagesComeFirst
      /\ input \in Input /\ next \in 1 .. Len(input.fragments) + 1
  BY DEF CollectorInv, MessagesFramed, TypeOK
<1>2. /\ next <= Len(input.fragments) /\ input.fragments[next].type = "handshake"
      /\ pending' = pending \o input.fragments[next].payload
      /\ next' = next + 1 /\ pc' = "messages"
      /\ input' = input /\ messages' = messages
  BY DEF TakeRecord
<1>3. next \in 1 .. Len(input.fragments) /\ next + 1 \in 1 .. Len(input.fragments) + 1
  BY <1>1, <1>2 DEF Input
<1>4. PICK payload \in Seq(Byte) : payload = input.fragments[next].payload
  <2>1. input.fragments[next] \in Fragment
    BY <1>1, <1>3, ElementOfSeq DEF Input
  <2>2. QED
    BY <2>1 DEF Fragment
<1>5. PICK taken \in Seq(Byte), all \in Seq(Byte), more \in Seq(Byte) :
        /\ taken = TakenBytes(next) /\ all = HandshakeBytes
        /\ TakenBytes(next + 1) = taken \o payload
        /\ all = (taken \o payload) \o more
  <2>1. TakenBytes(next) \in Seq(Byte) /\ TakenBytes(next + 1) = TakenBytes(next) \o payload
    BY <1>1, <1>2, <1>3, <1>4, TakenGrows
  <2>2. HandshakeBytes \in Seq(Byte) /\ IsPrefixOf(TakenBytes(next + 1), HandshakeBytes)
    BY <1>1, <1>3, TakenIsPrefix
  <2>3. PICK more \in Seq(Byte) : HandshakeBytes = TakenBytes(next + 1) \o more
    BY <2>2, Zenon DEF IsPrefixOf
  <2>4. QED
    BY <2>1, <2>2, <2>3
<1>6. PICK gone \in Nat :
        /\ gone = Gone /\ gone + Len(pending) = Len(taken)
        /\ pending \in Seq(Byte) /\ Len(pending) \in Nat
        /\ \A i \in 1 .. Len(pending) : pending[i] = all[gone + i]
  <2>1. /\ Gone \in Nat /\ Gone + Len(pending) = Len(taken)
        /\ pending \in Seq(Byte) /\ Len(pending) \in Nat
    BY <1>1, <1>5, CollectorFacts DEF PendingInPlace
  <2>2. \A i \in 1 .. Len(pending) : pending[i] = all[Gone + i]
    BY <1>1, <1>5 DEF PendingInPlace
  <2>3. QED
    BY <2>1, <2>2
<1>7. /\ taken \o payload \in Seq(Byte)
      /\ Len(taken \o payload) = Len(taken) + Len(payload)
      /\ \A i \in 1 .. Len(taken) + Len(payload) :
           (taken \o payload)[i]
             = IF i <= Len(taken) THEN taken[i] ELSE payload[i - Len(taken)]
      /\ Len(taken) \in Nat /\ Len(payload) \in Nat
  BY ConcatProperties, LenProperties
<1>8. /\ Len(pending') = Len(pending) + Len(payload)
      /\ \A i \in 1 .. Len(pending) + Len(payload) :
           pending'[i] = IF i <= Len(pending) THEN pending[i]
                         ELSE payload[i - Len(pending)]
  BY <1>2, <1>4, <1>6, ConcatProperties
<1>9. \A i \in 1 .. Len(taken) + Len(payload) : all[i] = (taken \o payload)[i]
  BY <1>5, <1>7, ConcatProperties
<1>10. Gone' = gone
  <2>1. Gone' = Len(TakenBytes(next')) - Len(pending')
    BY <1>2, Zenon DEF Gone, TakenBytes
  <2>2. Gone' = (Len(taken) + Len(payload)) - (Len(pending) + Len(payload))
    BY <1>2, <1>5, <1>7, <1>8, <2>1, Zenon
  <2>3. PICK t \in Nat, p \in Nat, q \in Nat :
          t = Len(taken) /\ p = Len(pending) /\ q = Len(payload)
    BY <1>6, <1>7
  <2>4. gone + p = t /\ Gone' = (t + q) - (p + q)
    BY <1>6, <2>2, <2>3, Zenon
  <2>5. QED
    BY <2>4
<1>11. HandshakeBytes' = all
  BY <1>2, <1>5, Zenon DEF HandshakeBytes
<1>12. ASSUME NEW i \in 1 .. Len(pending') PROVE pending'[i] = all[gone + i]
  <2>1. i \in 1 .. Len(pending) + Len(payload)
    BY <1>8
  <2>2. CASE i <= Len(pending)
    <3>1. pending'[i] = pending[i]
      BY <1>8, <2>1, <2>2
    <3>2. i \in 1 .. Len(pending)
      BY <1>6, <2>1, <2>2
    <3>3. QED
      BY <1>6, <3>1, <3>2
  <2>3. CASE ~(i <= Len(pending))
    <3>1. /\ pending'[i] = payload[i - Len(pending)]
          /\ gone + i \in 1 .. Len(taken) + Len(payload)
          /\ ~(gone + i <= Len(taken)) /\ (gone + i) - Len(taken) = i - Len(pending)
      <4>1. pending'[i] = payload[i - Len(pending)]
        BY <1>8, <2>1, <2>3
      <4>2. PICK t \in Nat, p \in Nat, q \in Nat :
              t = Len(taken) /\ p = Len(pending) /\ q = Len(payload)
        BY <1>6, <1>7
      <4>3. gone + p = t /\ i \in 1 .. p + q /\ ~(i <= p)
        BY <1>6, <2>1, <2>3, <4>2, Zenon
      <4>4. gone + i \in 1 .. t + q /\ ~(gone + i <= t) /\ (gone + i) - t = i - p
        BY <4>3
      <4>5. QED
        BY <4>1, <4>2, <4>4, Zenon
    <3>2. all[gone + i] = payload[i - Len(pending)]
      BY <1>7, <1>9, <3>1
    <3>3. QED
      BY <3>1, <3>2
  <2>4. QED
    BY <2>2, <2>3
<1>13. PendingInPlace'
  BY <1>10, <1>11, <1>12 DEF PendingInPlace
<1>14. MessagesComeFirst'
  BY <1>1, <1>2, <1>5, <1>6, <1>10, <1>11, Zenon DEF MessagesComeFirst
<1>15. NothingToCut' /\ BoundariesDoNotMatter'
  BY <1>2 DEF NothingToCut, BoundariesDoNotMatter
<1>16. QED
  BY <1>13, <1>14, <1>15

LEMMA CutMalformedKeeps ==
  ASSUME CollectorInv, CutMalformed
  PROVE  PendingInPlace' /\ MessagesComeFirst' /\ NothingToCut' /\ BoundariesDoNotMatter'
<1> DEFINE F == Splitter(HandshakeBytes)
           N == Len(HandshakeBytes)
<1>1. MessagesFramed /\ PendingInPlace /\ MessagesComeFirst
  BY DEF CollectorInv
<1>2. /\ HeaderPending /\ MessageLen(pending) <= HandshakeHeaderLen
      /\ pc' = "done" /\ result' = "malformed"
      /\ input' = input /\ next' = next /\ pending' = pending /\ messages' = messages
  BY DEF CutMalformed, BodyEmpty, Return
<1>3. Gone' = Gone
  BY <1>2, Zenon DEF Gone, TakenBytes
<1>4. PendingInPlace' /\ MessagesComeFirst'
  BY <1>1, <1>2, <1>3, SameBytes, Zenon
<1>5. PICK rest : rest = SubSeq(HandshakeBytes, Gone + 1, N)
  OBVIOUS
<1>6. Len(pending) >= HandshakeHeaderLen
  BY <1>2 DEF HeaderPending
<1>7. BodyLen(rest) = 0
  <2>1. BodyLen(pending) \in Nat /\ pending \in Seq(Byte)
    BY <1>1, <1>6, CollectorFacts, LengthOfBytes
  <2>2. BodyLen(rest) = BodyLen(pending)
    BY <1>1, <1>5, <1>6, HeadersAgree
  <2>3. QED
    BY <1>2, <2>1, <2>2 DEF MessageLen, HandshakeHeaderLen
<1>8. N # Gone /\ N - Gone \notin 1 .. HandshakeHeaderLen - 1
  BY <1>1, <1>6, CollectorFacts DEF HandshakeHeaderLen
<1>9. F[Gone] = [messages |-> <<>>, result |-> "malformed"]
  <2>1. F[Gone] = SplitAt(HandshakeBytes, F, Gone)
    BY <1>1, RestSplits
  <2> HIDE DEF F
  <2>2. SplitAt(HandshakeBytes, F, Gone) = [messages |-> <<>>, result |-> "malformed"]
    BY <1>5, <1>7, <1>8 DEF SplitAt
  <2>3. QED
    BY <2>1, <2>2
<1>10. Split(HandshakeBytes) = [messages |-> messages, result |-> "malformed"]
  BY <1>1, <1>9, SplitIsFirst, NothingBehind, CollectorFacts DEF MessagesComeFirst
<1>11. BoundariesDoNotMatter'
  BY <1>2, <1>10 DEF BoundariesDoNotMatter, HandshakeBytes
<1>12. NothingToCut'
  BY <1>2 DEF NothingToCut
<1>13. QED
  BY <1>4, <1>11, <1>12

LEMMA CutMessageKeeps ==
  ASSUME CollectorInv, CutMessage
  PROVE  PendingInPlace' /\ MessagesComeFirst' /\ NothingToCut' /\ BoundariesDoNotMatter'
<1> DEFINE F == Splitter(HandshakeBytes)
           N == Len(HandshakeBytes)
<1>1. MessagesFramed /\ PendingInPlace /\ MessagesComeFirst
  BY DEF CollectorInv
<1>2. PICK len : len = MessageLen(pending)
  OBVIOUS
<1>3. /\ Len(pending) >= HandshakeHeaderLen /\ Len(pending) >= len
      /\ ~(len <= HandshakeHeaderLen)
      /\ messages' = Append(messages, SubSeq(pending, 1, len))
      /\ pending' = SubSeq(pending, len + 1, Len(pending))
      /\ pc = "messages" /\ input' = input /\ next' = next /\ pc' = pc
  BY <1>2 DEF CutMessage, MessagePending, HeaderPending, BodyEmpty
<1>4. PICK all \in Seq(Byte), gone \in Nat :
        /\ all = HandshakeBytes /\ gone = Gone /\ gone <= Len(all) /\ Len(all) \in Nat
        /\ gone + Len(pending) <= Len(all)
        /\ gone + Len(pending) = Len(TakenBytes(next))
        /\ pending \in Seq(Byte) /\ Len(pending) \in Nat
        /\ messages \in Seq(Seq(Byte))
        /\ \A i \in 1 .. Len(pending) : pending[i] = all[gone + i]
  <2>1. /\ HandshakeBytes \in Seq(Byte) /\ Gone \in 0 .. N /\ N \in Nat
        /\ Gone + Len(pending) = Len(TakenBytes(next))
        /\ Len(TakenBytes(next)) <= N
        /\ pending \in Seq(Byte) /\ Len(pending) \in Nat
        /\ messages \in Seq(Seq(Byte))
    BY <1>1, CollectorFacts
  <2>2. /\ Gone \in Nat /\ Gone <= N /\ Gone + Len(pending) <= N
        /\ \A i \in 1 .. Len(pending) : pending[i] = HandshakeBytes[Gone + i]
    BY <1>1, <2>1 DEF PendingInPlace
  <2>3. QED
    BY <2>1, <2>2, Zenon
<1>5. len \in Nat /\ len > HandshakeHeaderLen
  <2>1. len \in Nat
    BY <1>2, <1>3, <1>4, LengthOfBytes
  <2>2. QED
    BY <1>3, <2>1 DEF HandshakeHeaderLen
<1>6. PICK end \in 0 .. Len(all) :
        end = gone + len /\ gone < end /\ end - len = gone /\ len \in 1 .. Len(pending)
  <2>1. /\ gone + len \in 0 .. Len(all) /\ gone < gone + len
        /\ (gone + len) - len = gone /\ len \in 1 .. Len(pending)
    BY <1>3, <1>4, <1>5 DEF HandshakeHeaderLen
  <2>2. QED
    BY <2>1
<1>7. PICK m \in Seq(Byte) :
        /\ m = SubSeq(pending, 1, len) /\ Len(m) = len
        /\ \A i \in 1 .. len : m[i] = pending[i]
  <2>1. /\ SubSeq(pending, 1, len) \in Seq(Byte) /\ Len(SubSeq(pending, 1, len)) = len
        /\ \A i \in 1 .. len : SubSeq(pending, 1, len)[i] = pending[i]
    BY <1>4, <1>5, <1>6
  <2>2. QED
    BY <2>1, Zenon
<1>8. m = SubSeq(all, gone + 1, end)
  <2>1. PICK s \in Seq(Byte) : s = SubSeq(all, gone + 1, end) /\ Len(s) = len
                               /\ \A i \in 1 .. len : s[i] = all[gone + i]
    <3>1. /\ SubSeq(all, gone + 1, end) \in Seq(Byte)
          /\ Len(SubSeq(all, gone + 1, end)) = len
          /\ \A i \in 1 .. len : SubSeq(all, gone + 1, end)[i] = all[gone + i]
      BY <1>4, <1>5, <1>6
    <3>2. QED
      BY <3>1, Zenon
  <2>2. ASSUME NEW i \in 1 .. len PROVE m[i] = s[i]
    <3>1. i \in 1 .. Len(pending)
      BY <1>4, <1>5, <1>6
    <3>2. QED
      BY <1>4, <1>7, <2>1, <3>1
  <2>3. m = s
    BY <1>7, <2>1, <2>2, SeqEqual
  <2>4. QED
    BY <2>1, <2>3
<1>9. PICK rest : rest = SubSeq(all, gone + 1, Len(all))
  OBVIOUS
<1>10. BodyLen(rest) # 0 /\ MessageLen(rest) = len
  <2>1. rest = SubSeq(HandshakeBytes, Gone + 1, Len(HandshakeBytes))
    BY <1>4, <1>9, Zenon
  <2>2. BodyLen(rest) = BodyLen(pending) /\ MessageLen(rest) = MessageLen(pending)
    BY <1>1, <1>3, <2>1, HeadersAgree
  <2>3. BodyLen(pending) \in Nat
    BY <1>3, <1>4, LengthOfBytes
  <2>4. QED
    BY <1>2, <1>5, <2>2, <2>3 DEF MessageLen, HandshakeHeaderLen
<1>11. gone # Len(all) /\ Len(all) - gone \notin 1 .. HandshakeHeaderLen - 1
  BY <1>3, <1>4 DEF HandshakeHeaderLen
<1> HIDE DEF F
<1>12. F[gone] = Before(<<m>>, F[end])
  <2>1. F[gone] = SplitAt(all, F, gone)
    BY <1>1, <1>4, RestSplits DEF F
  <2>2. gone + MessageLen(rest) = end /\ ~(end > Len(all))
    BY <1>4, <1>6, <1>10
  <2>3. SplitAt(all, F, gone) = Before(<<SubSeq(all, gone + 1, end)>>, F[end])
    BY <1>9, <1>10, <1>11, <2>2 DEF SplitAt
  <2>4. QED
    BY <1>8, <2>1, <2>3
<1>13. /\ Len(pending') = Len(pending) - len
       /\ \A i \in 1 .. Len(pending) - len : pending'[i] = pending[len + i]
  BY <1>3, <1>4, <1>5, <1>6
<1>14. Gone' = end
  <2>1. Gone' = Len(TakenBytes(next)) - Len(pending')
    BY <1>3, Zenon DEF Gone, TakenBytes
  <2>2. PICK p \in Nat : p = Len(pending)
    BY <1>4
  <2>3. Gone' = (gone + p) - (p - len)
    BY <1>4, <1>13, <2>1, <2>2, Zenon
  <2>4. QED
    BY <1>5, <1>6, <2>3
<1>15. HandshakeBytes' = all
  BY <1>3, <1>4, Zenon DEF HandshakeBytes
<1>16. ASSUME NEW i \in 1 .. Len(pending') PROVE pending'[i] = all[end + i]
  <2>1. i \in 1 .. Len(pending) - len /\ len + i \in 1 .. Len(pending)
    BY <1>4, <1>5, <1>6, <1>13
  <2>2. pending'[i] = pending[len + i] /\ pending[len + i] = all[gone + (len + i)]
    BY <1>4, <1>13, <2>1
  <2>3. gone + (len + i) = end + i
    BY <1>5, <1>6, <2>1
  <2>4. QED
    BY <2>2, <2>3, Zenon
<1>17. PendingInPlace'
  BY <1>6, <1>14, <1>15, <1>16 DEF PendingInPlace
<1>18. MessagesComeFirst'
  <2>1. F[0] = Before(messages, F[gone])
    BY <1>1, <1>4, Zenon DEF MessagesComeFirst, F
  <2>2. PICK o \in Outcome : o = F[end]
    BY <1>4, <1>6, SplitterTyped DEF F
  <2>3. Before(messages, Before(<<m>>, o)) = Before(Append(messages, m), o)
    BY <1>4, BeforeProperties
  <2>4. F[0] = Before(messages', F[end])
    BY <1>3, <1>7, <1>12, <2>1, <2>2, <2>3, Zenon
  <2>5. QED
    BY <1>4, <1>14, <1>15, <2>4, Zenon DEF MessagesComeFirst, F
<1>19. NothingToCut' /\ BoundariesDoNotMatter'
  BY <1>3 DEF NothingToCut, BoundariesDoNotMatter
<1>20. QED
  BY <1>17, <1>18, <1>19

LEMMA CutNothingKeeps ==
  ASSUME CollectorInv, CutNothing
  PROVE  PendingInPlace' /\ MessagesComeFirst' /\ NothingToCut' /\ BoundariesDoNotMatter'
<1>1. PendingInPlace /\ MessagesComeFirst
  BY DEF CollectorInv
<1>2. /\ ~MessagePending /\ ~BodyEmpty /\ pc' = "records"
      /\ input' = input /\ next' = next /\ pending' = pending /\ messages' = messages
  BY DEF CutNothing
<1>3. Gone' = Gone
  BY <1>2, Zenon DEF Gone, TakenBytes
<1>4. PendingInPlace' /\ MessagesComeFirst'
  BY <1>1, <1>2, <1>3, SameBytes, Zenon
<1>5. NothingToCut'
  BY <1>2 DEF NothingToCut, MessagePending, BodyEmpty, HeaderPending
<1>6. BoundariesDoNotMatter'
  BY <1>2 DEF BoundariesDoNotMatter
<1>7. QED
  BY <1>4, <1>5, <1>6

LEMMA CollectReturnsKeeps ==
  ASSUME CollectorInv, CollectReturns
  PROVE  PendingInPlace' /\ MessagesComeFirst' /\ NothingToCut' /\ BoundariesDoNotMatter'
<1> DEFINE F == Splitter(HandshakeBytes)
           N == Len(HandshakeBytes)
<1>1. /\ MessagesFramed /\ PendingInPlace /\ MessagesComeFirst /\ NothingToCut
      /\ input \in Input /\ next \in 1 .. Len(input.fragments) + 1
  BY DEF CollectorInv, MessagesFramed, TypeOK
<1>2. /\ pc = "records" /\ next > Len(input.fragments) /\ pc' = "done"
      /\ result' = IF pending = <<>> THEN "messages" ELSE "incomplete"
      /\ input' = input /\ next' = next /\ pending' = pending /\ messages' = messages
  BY DEF CollectReturns, Return
<1>3. Gone' = Gone
  BY <1>2, Zenon DEF Gone, TakenBytes
<1>4. PendingInPlace' /\ MessagesComeFirst'
  BY <1>1, <1>2, <1>3, SameBytes, Zenon
<1>5. Gone + Len(pending) = N
  <2>1. next = Len(input.fragments) + 1
    BY <1>1, <1>2 DEF Input
  <2>2. TakenBytes(next) = HandshakeBytes
    BY <1>1, <2>1, TakenEnds
  <2>3. QED
    BY <1>1, <2>2, CollectorFacts
<1>6. PICK rest : rest = SubSeq(HandshakeBytes, Gone + 1, N)
  OBVIOUS
<1>7. /\ Gone \in 0 .. N /\ N \in Nat /\ Len(pending) \in Nat
      /\ HandshakeBytes \in Seq(Byte) /\ pending \in Seq(Byte)
      /\ messages \in Seq(Seq(Byte))
  BY <1>1, CollectorFacts
<1>8. F[Gone] = SplitAt(HandshakeBytes, F, Gone)
  BY <1>1, RestSplits
<1>9. F[Gone] = [messages |-> <<>>, result |-> result']
  <2> HIDE DEF F
  <2>1. CASE pending = <<>>
    <3>1. Gone = N /\ result' = "messages"
      BY <1>2, <1>5, <1>7, <2>1
    <3>2. SplitAt(HandshakeBytes, F, Gone) = [messages |-> <<>>, result |-> "messages"]
      BY <3>1 DEF SplitAt
    <3>3. QED
      BY <1>8, <3>1, <3>2
  <2>2. CASE pending # <<>>
    <3>1. Len(pending) # 0 /\ result' = "incomplete"
      BY <1>2, <1>7, <2>2, EmptySeq
    <3>2. Gone # N /\ N - Gone = Len(pending)
      BY <1>5, <1>7, <3>1
    <3>3. CASE Len(pending) < HandshakeHeaderLen
      <4>1. N - Gone \in 1 .. HandshakeHeaderLen - 1
        BY <1>7, <3>1, <3>2, <3>3 DEF HandshakeHeaderLen
      <4>2. SplitAt(HandshakeBytes, F, Gone) = [messages |-> <<>>, result |-> "incomplete"]
        BY <3>2, <4>1 DEF SplitAt
      <4>3. QED
        BY <1>8, <3>1, <4>2
    <3>4. CASE ~(Len(pending) < HandshakeHeaderLen)
      <4>1. Len(pending) >= HandshakeHeaderLen
        BY <1>7, <3>4 DEF HandshakeHeaderLen
      <4>2. /\ ~(Len(pending) >= MessageLen(pending))
            /\ ~(MessageLen(pending) <= HandshakeHeaderLen)
        BY <1>1, <1>2, <4>1
           DEF NothingToCut, MessagePending, BodyEmpty, HeaderPending
      <4>3. /\ BodyLen(rest) = BodyLen(pending) /\ MessageLen(rest) = MessageLen(pending)
        BY <1>1, <1>6, <4>1, HeadersAgree
      <4>4. BodyLen(pending) \in Nat /\ MessageLen(pending) \in Nat
        BY <1>7, <4>1, LengthOfBytes
      <4>5. BodyLen(rest) # 0
        BY <4>2, <4>3, <4>4 DEF MessageLen, HandshakeHeaderLen
      <4>6. Gone + MessageLen(rest) > N
        BY <1>5, <1>7, <4>2, <4>3, <4>4
      <4>7. N - Gone \notin 1 .. HandshakeHeaderLen - 1
        BY <3>2, <4>1, <1>7 DEF HandshakeHeaderLen
      <4>8. SplitAt(HandshakeBytes, F, Gone) = [messages |-> <<>>, result |-> "incomplete"]
        BY <1>6, <3>2, <4>5, <4>6, <4>7 DEF SplitAt
      <4>9. QED
        BY <1>8, <3>1, <4>8
    <3>5. QED
      BY <3>3, <3>4
  <2>3. QED
    BY <2>1, <2>2
<1>10. Split(HandshakeBytes) = [messages |-> messages, result |-> result']
  BY <1>1, <1>7, <1>9, SplitIsFirst, NothingBehind DEF MessagesComeFirst
<1>11. BoundariesDoNotMatter'
  BY <1>2, <1>10 DEF BoundariesDoNotMatter, HandshakeBytes
<1>12. NothingToCut'
  BY <1>2 DEF NothingToCut
<1>13. QED
  BY <1>4, <1>11, <1>12

LEMMA CollectorStep == CollectorInv /\ [Next]_vars => CollectorInv'
<1> SUFFICES ASSUME CollectorInv, [Next]_vars PROVE CollectorInv'
  OBVIOUS
<1>1. MessagesFramed'
  BY StepFramed DEF CollectorInv
<1>2. PendingInPlace' /\ MessagesComeFirst' /\ NothingToCut' /\ BoundariesDoNotMatter'
  <2>1. CASE SkipRecord
    BY <2>1, SkipRecordKeeps
  <2>2. CASE TakeRecord
    BY <2>2, TakeRecordKeeps
  <2>3. CASE CutMalformed
    BY <2>3, CutMalformedKeeps
  <2>4. CASE CutMessage
    BY <2>4, CutMessageKeeps
  <2>5. CASE CutNothing
    BY <2>5, CutNothingKeeps
  <2>6. CASE CollectReturns
    BY <2>6, CollectReturnsKeeps
  <2>7. CASE UNCHANGED vars
    <3>1. /\ PendingInPlace /\ MessagesComeFirst /\ NothingToCut /\ BoundariesDoNotMatter
          /\ input' = input /\ next' = next /\ pending' = pending
          /\ messages' = messages /\ pc' = pc /\ result' = result
      BY <2>7 DEF CollectorInv, vars
    <3>2. Gone' = Gone
      BY <3>1, Zenon DEF Gone, TakenBytes
    <3>3. PendingInPlace' /\ MessagesComeFirst'
      BY <3>1, <3>2, SameBytes, Zenon
    <3>4. NothingToCut'
      BY <3>1 DEF NothingToCut, MessagePending, BodyEmpty, HeaderPending
    <3>5. BoundariesDoNotMatter'
      BY <3>1 DEF BoundariesDoNotMatter, HandshakeBytes
    <3>6. QED
      BY <3>3, <3>4, <3>5
  <2>8. QED
    BY <2>1, <2>2, <2>3, <2>4, <2>5, <2>6, <2>7 DEF Next
<1>3. QED
  BY <1>1, <1>2 DEF CollectorInv

\* However the handshake is cut into records, the collector returns what its
\* bytes alone come to: the same messages, or the same error (utils.go 246-280,
\* transport.go 96-101).
THEOREM StreamsDecide == Spec => []BoundariesDoNotMatter
<1>1. Init => CollectorInv
  BY CollectorStarts
<1>2. CollectorInv /\ [Next]_vars => CollectorInv'
  BY CollectorStep
<1>3. CollectorInv => BoundariesDoNotMatter
  BY DEF CollectorInv
<1>4. QED
  BY <1>1, <1>2, <1>3, PTL DEF Spec
-----------------------------------------------------------------------------
(***************************************************************************)
(* The pieces: the collector of HandshakeMessages against what the bytes   *)
(* come to, from the last piece of the stream back to the first.           *)
(***************************************************************************)
\* The messages that the pieces from k on end.
MessagesFrom(stream, k) == Collected(IfLast, SubSeq(stream, k, Len(stream)))

\* The collector does not fail on the pieces from k on.
WholeFrom(stream, k) ==
  /\ \A i \in k .. Len(stream) : stream[i].msg.fault # "empty"
  /\ stream # <<>> => stream[Len(stream)].last

\* Messages in bytes are of the types of others, in the same order.
SameTypes(strings, msgs) ==
  /\ Len(strings) = Len(msgs)
  /\ \A i \in 1 .. Len(msgs) : strings[i][1] = TypeCode[msgs[i].type]

\* An outcome is what the pieces from k on come to.
Agrees(outcome, stream, k) ==
  /\ outcome.result = "messages" <=> WholeFrom(stream, k)
  /\ outcome.result = "messages" =>
       SameTypes(outcome.messages, MessagesFrom(stream, k))

\* What one piece adds to the messages behind it.
LEMMA MessagesFromSteps ==
  ASSUME NEW stream \in Seq(Piece)
  PROVE  /\ MessagesFrom(stream, 1) = Collected(IfLast, stream)
         /\ MessagesFrom(stream, Len(stream) + 1) = <<>>
         /\ \A k \in 1 .. Len(stream) + 1 : MessagesFrom(stream, k) \in Seq(Message)
         /\ \A k \in 1 .. Len(stream) :
              MessagesFrom(stream, k) = IfLast[stream[k]] \o MessagesFrom(stream, k + 1)
<1> DEFINE n == Len(stream)
<1>1. n \in Nat /\ \A k \in 1 .. n : stream[k] \in Piece
  BY ElementOfSeq, LenProperties
<1>2. IfLast \in [Piece -> Seq(Message)]
  <2>1. ASSUME NEW piece \in Piece
        PROVE  (IF piece.last THEN <<piece.msg>> ELSE <<>>) \in Seq(Message)
    <3>1. piece.msg \in Message
      BY DEF Piece
    <3>2. <<piece.msg>> \in Seq(Message) /\ <<>> \in Seq(Message)
      BY <3>1, EmptySeq
    <3>3. QED
      BY <3>2, Zenon
  <2>2. QED
    BY <2>1 DEF IfLast
<1>3. SubSeq(stream, 1, n) = stream /\ SubSeq(stream, n + 1, n) = <<>>
  <2>1. SubSeq(stream, 1, n) = stream
    BY SubSeqFull
  <2>2. SubSeq(stream, n + 1, n) = <<>>
    BY <1>1, SubSeqEmpty
  <2>3. QED
    BY <2>1, <2>2
<1>4. \A k \in 1 .. n + 1 : SubSeq(stream, k, n) \in Seq(Piece)
  BY <1>1
<1>5. ASSUME NEW k \in 1 .. n + 1
      PROVE  MessagesFrom(stream, k) \in Seq(Message)
  BY <1>2, <1>4, CollectedType, Zenon DEF MessagesFrom
<1>6. ASSUME NEW k \in 1 .. n
      PROVE  MessagesFrom(stream, k) = IfLast[stream[k]] \o MessagesFrom(stream, k + 1)
  <2>1. stream[k] \in Piece
    BY <1>1
  <2>2. <<stream[k]>> \in Seq(Piece)
    BY <2>1
  <2>3. SubSeq(stream, k + 1, n) \in Seq(Piece)
    <3>1. k + 1 \in 1 .. n + 1
      BY <1>1
    <3>2. QED
      BY <1>4, <3>1
  <2>4. SubSeq(stream, k, n) = <<stream[k]>> \o SubSeq(stream, k + 1, n)
    BY <1>1
  <2>5. CollectedJoins(IfLast, <<stream[k]>>, SubSeq(stream, k + 1, n))
    BY <1>2, <2>2, <2>3, CollectedConcat, Zenon
  <2>6. Collected(IfLast, <<stream[k]>>) = IfLast[stream[k]]
    BY <1>2, <2>1, CollectedOne
  <2>7. QED
    BY <2>4, <2>5, <2>6, Zenon DEF CollectedJoins, MessagesFrom
<1>7. MessagesFrom(stream, 1) = Collected(IfLast, stream)
  BY <1>3, Zenon DEF MessagesFrom
<1>8. MessagesFrom(stream, n + 1) = <<>>
  BY <1>3, CollectedEmpty DEF MessagesFrom
<1>9. QED
  BY <1>5, <1>6, <1>7, <1>8

\* Behind the last piece: no bytes, or the beginning of a message.
LEMMA AgreesAtEnd ==
  ASSUME NEW bytes \in Seq(Byte), NEW stream \in Seq(Piece), NEW start,
         PiecesSpell(bytes, stream, start)
  PROVE  Agrees(Splitter(bytes)[start[Len(stream) + 1]], stream, Len(stream) + 1)
<1> DEFINE n == Len(stream)
           N == Len(bytes)
           F == Splitter(bytes)
<1>1. n \in Nat /\ N \in Nat
  BY LenProperties
<1>2. /\ start \in [1 .. n + 1 -> 0 .. N]
      /\ n = 0 \/ stream[n].last => start[n + 1] = N
      /\ ~(n = 0 \/ stream[n].last) => Unfinished(SubSeq(bytes, start[n + 1] + 1, N))
  BY DEF PiecesSpell
<1>3. PICK at \in 0 .. N : at = start[n + 1]
  <2>1. start[n + 1] \in 0 .. N
    BY <1>1, <1>2
  <2>2. QED
    BY <2>1
<1>4. F[at] = SplitAt(bytes, F, at)
  BY SplitterSteps
<1> HIDE DEF F
<1>5. CASE n = 0 \/ stream[n].last
  <2>1. F[at] = [messages |-> <<>>, result |-> "messages"]
    <3>1. at = N
      BY <1>2, <1>3, <1>5
    <3>2. SplitAt(bytes, F, at) = [messages |-> <<>>, result |-> "messages"]
      BY <3>1 DEF SplitAt
    <3>3. QED
      BY <1>4, <3>2
  <2>2. WholeFrom(stream, n + 1)
    <3>1. stream # <<>> => stream[n].last
      BY <1>5, EmptySeq
    <3>2. \A i \in n + 1 .. n : FALSE
      BY <1>1
    <3>3. QED
      BY <3>1, <3>2 DEF WholeFrom
  <2>3. SameTypes(<<>>, MessagesFrom(stream, n + 1))
    <3>1. MessagesFrom(stream, n + 1) = <<>>
      BY MessagesFromSteps
    <3>2. SameTypes(<<>>, <<>>)
      BY DEF SameTypes
    <3>3. QED
      BY <3>1, <3>2
  <2>4. F[at].messages = <<>> /\ F[at].result = "messages"
    BY <2>1
  <2>5. QED
    BY <1>3, <2>2, <2>3, <2>4, Zenon DEF Agrees, F
<1>6. CASE ~(n = 0 \/ stream[n].last)
  <2>1. PICK rest : rest = SubSeq(bytes, at + 1, N)
    OBVIOUS
  <2>2. Unfinished(rest)
    BY <1>2, <1>3, <1>6, <2>1
  <2>3. at # N
    <3>1. at = N => SubSeq(bytes, at + 1, N) = <<>>
      BY <1>1, SubSeqEmpty
    <3>2. QED
      BY <2>1, <2>2, <3>1 DEF Unfinished
  <2>4. F[at].result # "messages"
    <3>1. CASE N - at \in 1 .. HandshakeHeaderLen - 1
      <4>1. SplitAt(bytes, F, at) = [messages |-> <<>>, result |-> "incomplete"]
        BY <2>3, <3>1 DEF SplitAt
      <4>2. QED
        BY <1>4, <4>1
    <3>2. CASE N - at \notin 1 .. HandshakeHeaderLen - 1
      <4>1. N - at >= HandshakeHeaderLen
        BY <1>1, <2>3, <3>2 DEF HandshakeHeaderLen
      <4>2. /\ Len(rest) = N - at
            /\ BodyLen(rest) \in Nat /\ MessageLen(rest) \in Nat
        BY <2>1, <4>1, RestHasHeader
      <4>3. at + MessageLen(rest) > N
        <5>1. Len(rest) < MessageLen(rest)
          BY <2>2, <4>1, <4>2 DEF Unfinished
        <5>2. QED
          BY <1>1, <4>2, <5>1
      <4>4. CASE BodyLen(rest) = 0
        <5>1. SplitAt(bytes, F, at) = [messages |-> <<>>, result |-> "malformed"]
          BY <2>1, <2>3, <3>2, <4>4 DEF SplitAt
        <5>2. QED
          BY <1>4, <5>1
      <4>5. CASE BodyLen(rest) # 0
        <5>1. SplitAt(bytes, F, at) = [messages |-> <<>>, result |-> "incomplete"]
          BY <2>1, <2>3, <3>2, <4>3, <4>5 DEF SplitAt
        <5>2. QED
          BY <1>4, <5>1
      <4>6. QED
        BY <4>4, <4>5
    <3>3. QED
      BY <3>1, <3>2
  <2>5. ~WholeFrom(stream, n + 1)
    <3>1. stream # <<>>
      BY <1>6
    <3>2. QED
      BY <1>6, <3>1 DEF WholeFrom
  <2>6. QED
    BY <1>3, <2>4, <2>5, Zenon DEF Agrees, F
<1>7. QED
  BY <1>5, <1>6

\* A piece that does not end its message adds nothing.
LEMMA AgreesBeforePart ==
  ASSUME NEW bytes \in Seq(Byte), NEW stream \in Seq(Piece), NEW start,
         PiecesSpell(bytes, stream, start),
         NEW k \in 1 .. Len(stream), ~stream[k].last,
         Agrees(Splitter(bytes)[start[k + 1]], stream, k + 1)
  PROVE  Agrees(Splitter(bytes)[start[k]], stream, k)
<1> DEFINE n == Len(stream)
<1>1. n \in Nat /\ stream[k] \in Piece
  BY ElementOfSeq, LenProperties
<1>2. start[k + 1] = start[k] /\ (k < n => stream[k + 1].msg = stream[k].msg)
  BY DEF PiecesSpell, PieceSpells
<1>3. MessagesFrom(stream, k) = MessagesFrom(stream, k + 1)
  <2>1. MessagesFrom(stream, k) = IfLast[stream[k]] \o MessagesFrom(stream, k + 1)
    BY MessagesFromSteps
  <2>2. IfLast[stream[k]] = <<>>
    BY <1>1 DEF IfLast
  <2>3. k + 1 \in 1 .. n + 1
    BY <1>1
  <2>4. MessagesFrom(stream, k + 1) \in Seq(Message)
    BY <2>3, MessagesFromSteps
  <2>5. QED
    BY <2>1, <2>2, <2>4, ConcatEmptySeq
<1>4. WholeFrom(stream, k) <=> WholeFrom(stream, k + 1)
  <2>1. stream # <<>>
    BY <1>1, EmptySeq
  <2>2. CASE k = n
    BY <2>1, <2>2 DEF WholeFrom
  <2>3. CASE k # n
    <3>1. k + 1 \in k + 1 .. n /\ k < n
      BY <1>1, <2>3
    <3>2. ASSUME NEW i \in k .. n PROVE i = k \/ i \in k + 1 .. n
      BY <1>1
    <3>3. ASSUME NEW i \in k + 1 .. n PROVE i \in k .. n
      BY <1>1
    <3>4. (\A i \in k .. n : stream[i].msg.fault # "empty")
            <=> \A i \in k + 1 .. n : stream[i].msg.fault # "empty"
      BY <1>2, <3>1, <3>2, <3>3, Zenon
    <3>5. QED
      BY <3>4, Zenon DEF WholeFrom
  <2>4. QED
    BY <2>2, <2>3
<1>5. QED
  BY <1>2, <1>3, <1>4, Zenon DEF Agrees

\* The outcome where the bytes s of a message begin.
SplitsOff(bytes, at, end, s, msg) ==
  /\ s \in Seq(Byte)
  /\ msg.fault = "empty" => Splitter(bytes)[at].result = "malformed"
  /\ msg.fault # "empty" =>
       Splitter(bytes)[at] = Before(<<s>>, Splitter(bytes)[end])

\* A message whose bytes are given, at its place among all bytes.
LEMMA SplitAtMessage ==
  ASSUME NEW bytes \in Seq(Byte), NEW at \in 0 .. Len(bytes),
         NEW end \in 0 .. Len(bytes), NEW msg,
         NEW s, s = SubSeq(bytes, at + 1, end), Spells(s, msg)
  PROVE  SplitsOff(bytes, at, end, s, msg)
<1> DEFINE N == Len(bytes)
           F == Splitter(bytes)
<1>1. N \in Nat
  BY LenProperties
<1>2. Len(s) >= HandshakeHeaderLen
  BY DEF Spells
<1>3. at < end
  <2>1. ~(at < end) => SubSeq(bytes, at + 1, end) = <<>>
    BY <1>1, SubSeqEmpty
  <2>2. Len(<<>>) = 0
    BY EmptySeq
  <2>3. QED
    BY <1>2, <2>1, <2>2 DEF HandshakeHeaderLen
<1>4. /\ s \in Seq(Byte) /\ Len(s) = end - at
      /\ \A i \in 1 .. end - at : s[i] = bytes[at + i]
  BY <1>1, <1>3
<1>5. N - at >= HandshakeHeaderLen /\ end - at >= 4
  BY <1>1, <1>2, <1>4 DEF HandshakeHeaderLen
<1>6. PICK rest : rest = SubSeq(bytes, at + 1, N)
  OBVIOUS
<1>7. /\ rest \in Seq(Byte) /\ Len(rest) = N - at
      /\ \A i \in 1 .. N - at : rest[i] = bytes[at + i]
      /\ BodyLen(rest) \in Nat /\ MessageLen(rest) \in Nat
  BY <1>5, <1>6, RestHasHeader
<1>8. rest[2] = s[2] /\ rest[3] = s[3] /\ rest[4] = s[4]
  <2>1. \A i \in 2 .. 4 : i \in 1 .. end - at /\ i \in 1 .. N - at
    BY <1>1, <1>5
  <2>2. \A i \in 2 .. 4 : rest[i] = s[i]
    BY <1>4, <1>7, <2>1, Zenon
  <2>3. 2 \in 2 .. 4 /\ 3 \in 2 .. 4 /\ 4 \in 2 .. 4
    OBVIOUS
  <2>4. QED
    BY <2>2, <2>3
<1>9. BodyLen(rest) = BodyLen(s) /\ MessageLen(rest) = MessageLen(s)
  <2>1. SaySameLength(rest, s)
    BY <1>8, SameLengths
  <2>2. QED
    BY <2>1 DEF SaySameLength
<1>10. Len(s) = MessageLen(s) /\ (msg.fault = "empty" <=> BodyLen(s) = 0)
  BY DEF Spells
<1>11. at + MessageLen(rest) = end
  BY <1>1, <1>4, <1>9, <1>10
<1>12. at # N /\ N - at \notin 1 .. HandshakeHeaderLen - 1
  BY <1>1, <1>5 DEF HandshakeHeaderLen
<1>13. F[at] = SplitAt(bytes, F, at)
  BY SplitterSteps
<1> HIDE DEF F
<1>14. CASE msg.fault = "empty"
  <2>1. SplitAt(bytes, F, at) = [messages |-> <<>>, result |-> "malformed"]
    BY <1>6, <1>9, <1>10, <1>12, <1>14 DEF SplitAt
  <2>2. F[at].result = "malformed"
    BY <1>13, <2>1
  <2>3. QED
    BY <1>4, <1>14, <2>2 DEF F, SplitsOff
<1>15. CASE msg.fault # "empty"
  <2>1. ~(end > N)
    BY <1>1
  <2>2. SplitAt(bytes, F, at) = Before(<<SubSeq(bytes, at + 1, end)>>, F[end])
    BY <1>6, <1>9, <1>10, <1>11, <1>12, <1>15, <2>1 DEF SplitAt
  <2>3. F[at] = Before(<<s>>, F[end])
    BY <1>13, <2>2
  <2>4. QED
    BY <1>4, <1>15, <2>3 DEF F, SplitsOff
<1>16. QED
  BY <1>14, <1>15

\* One element, and behind it the n of a sequence.
JoinedBehind(one, seq, S, n) ==
  /\ one \o seq \in Seq(S) /\ Len(one \o seq) = 1 + n
  /\ (one \o seq)[1] = one[1]
  /\ \A i \in 2 .. 1 + n : (one \o seq)[i] = seq[i - 1]

LEMMA JoinBehindOne ==
  ASSUME NEW S, NEW one \in Seq(S), NEW seq \in Seq(S), NEW n,
         Len(one) = 1, n = Len(seq)
  PROVE  JoinedBehind(one, seq, S, n)
<1>1. n \in Nat
  BY LenProperties
<1>2. /\ one \o seq \in Seq(S) /\ Len(one \o seq) = 1 + n
      /\ \A i \in 1 .. 1 + n :
           (one \o seq)[i] = IF i <= 1 THEN one[i] ELSE seq[i - 1]
  <2>1. /\ one \o seq \in Seq(S) /\ Len(one \o seq) = Len(one) + Len(seq)
        /\ \A i \in 1 .. Len(one) + Len(seq) :
             (one \o seq)[i] = IF i <= Len(one) THEN one[i] ELSE seq[i - Len(one)]
    BY ConcatProperties
  <2>2. QED
    BY <2>1
<1>3. (one \o seq)[1] = one[1]
  BY <1>1, <1>2
<1>4. \A i \in 2 .. 1 + n : (one \o seq)[i] = seq[i - 1]
  BY <1>1, <1>2
<1>5. QED
  BY <1>2, <1>3, <1>4 DEF JoinedBehind

\* A message in front, in bytes and by its name.
LEMMA SameTypesInFront ==
  ASSUME NEW s \in Seq(Byte), NEW msg \in Message, s[1] = TypeCode[msg.type],
         NEW strings \in Seq(Seq(Byte)), NEW msgs \in Seq(Message),
         SameTypes(strings, msgs)
  PROVE  SameTypes(<<s>> \o strings, <<msg>> \o msgs)
<1>1. PICK n \in Nat : n = Len(strings) /\ n = Len(msgs)
  BY LenProperties DEF SameTypes
<1>2. PICK ss \in Seq(Seq(Byte)), ms \in Seq(Message) :
        /\ ss = <<s>> \o strings /\ ms = <<msg>> \o msgs
        /\ Len(ss) = 1 + n /\ Len(ms) = 1 + n
        /\ ss[1] = s /\ ms[1] = msg
        /\ \A i \in 2 .. 1 + n : ss[i] = strings[i - 1] /\ ms[i] = msgs[i - 1]
  <2>1. PICK one \in Seq(Seq(Byte)), head \in Seq(Message) :
          /\ one = <<s>> /\ Len(one) = 1 /\ one[1] = s
          /\ head = <<msg>> /\ Len(head) = 1 /\ head[1] = msg
    <3>1. <<s>> \in Seq(Seq(Byte)) /\ Len(<<s>>) = 1 /\ <<s>>[1] = s
      OBVIOUS
    <3>2. <<msg>> \in Seq(Message) /\ Len(<<msg>>) = 1 /\ <<msg>>[1] = msg
      OBVIOUS
    <3>3. QED
      BY <3>1, <3>2, Zenon
  <2>2. JoinedBehind(one, strings, Seq(Byte), n)
    BY <1>1, <2>1, JoinBehindOne, Zenon
  <2>3. JoinedBehind(head, msgs, Message, n)
    BY <1>1, <2>1, JoinBehindOne, Zenon
  <2>4. QED
    BY <2>1, <2>2, <2>3, Zenon DEF JoinedBehind
<1>3. ASSUME NEW i \in 1 .. 1 + n PROVE ss[i][1] = TypeCode[ms[i].type]
  <2>1. CASE i = 1
    BY <1>2, <2>1
  <2>2. CASE i # 1
    <3>1. i \in 2 .. 1 + n /\ i - 1 \in 1 .. n
      BY <2>2
    <3>2. strings[i - 1][1] = TypeCode[msgs[i - 1].type]
      BY <1>1, <3>1 DEF SameTypes
    <3>3. QED
      BY <1>2, <3>1, <3>2, Zenon
  <2>3. QED
    BY <2>1, <2>2
<1>4. QED
  BY <1>2, <1>3 DEF SameTypes

\* A piece that ends its message adds that message, or the error.
LEMMA AgreesBeforeLast ==
  ASSUME NEW bytes \in Seq(Byte), NEW stream \in Seq(Piece), NEW start,
         PiecesSpell(bytes, stream, start),
         NEW k \in 1 .. Len(stream), stream[k].last,
         Agrees(Splitter(bytes)[start[k + 1]], stream, k + 1)
  PROVE  Agrees(Splitter(bytes)[start[k]], stream, k)
<1> DEFINE n == Len(stream)
           N == Len(bytes)
           F == Splitter(bytes)
<1>1. n \in Nat /\ N \in Nat /\ stream[k] \in Piece
  BY ElementOfSeq, LenProperties
<1>2. PICK at \in 0 .. N, end \in 0 .. N : at = start[k] /\ end = start[k + 1]
  <2>1. start \in [1 .. n + 1 -> 0 .. N] /\ k \in 1 .. n + 1 /\ k + 1 \in 1 .. n + 1
    BY <1>1 DEF PiecesSpell
  <2>2. start[k] \in 0 .. N /\ start[k + 1] \in 0 .. N
    BY <2>1
  <2>3. QED
    BY <2>2, Zenon
<1>3. PICK msg \in Message : msg = stream[k].msg
  BY <1>1 DEF Piece
<1>4. PICK s : s = SubSeq(bytes, at + 1, end)
  OBVIOUS
<1>5. Spells(s, msg)
  BY <1>2, <1>3, <1>4 DEF PiecesSpell, PieceSpells
<1>6. /\ s \in Seq(Byte)
      /\ msg.fault = "empty" => F[at].result = "malformed"
      /\ msg.fault # "empty" => F[at] = Before(<<s>>, F[end])
  <2>1. SplitsOff(bytes, at, end, s, msg)
    BY <1>4, <1>5, SplitAtMessage, Zenon
  <2>2. QED
    BY <2>1 DEF SplitsOff
<1>7. PICK o \in Outcome : o = F[end]
  BY SplitterTyped
<1>8. Agrees(o, stream, k + 1)
  BY <1>2, <1>7
<1> HIDE DEF F
<1>9. CASE msg.fault = "empty"
  <2>1. ~WholeFrom(stream, k)
    <3>1. k \in k .. n
      BY <1>1
    <3>2. QED
      BY <1>3, <1>9, <3>1 DEF WholeFrom
  <2>2. F[at].result # "messages"
    BY <1>6, <1>9
  <2>3. QED
    BY <1>2, <2>1, <2>2, Zenon DEF Agrees, F
<1>10. CASE msg.fault # "empty"
  <2>1. WholeFrom(stream, k) <=> WholeFrom(stream, k + 1)
    <3>1. ASSUME NEW i \in k .. n PROVE i = k \/ i \in k + 1 .. n
      BY <1>1
    <3>2. ASSUME NEW i \in k + 1 .. n PROVE i \in k .. n
      BY <1>1
    <3>3. (\A i \in k .. n : stream[i].msg.fault # "empty")
            <=> \A i \in k + 1 .. n : stream[i].msg.fault # "empty"
      BY <1>3, <1>10, <3>1, <3>2, Zenon
    <3>4. QED
      BY <3>3, Zenon DEF WholeFrom
  <2>2. o.messages \in Seq(Seq(Byte))
    BY DEF Outcome
  <2>3. F[at].messages = <<s>> \o o.messages /\ F[at].result = o.result
    <3>1. F[at] = Before(<<s>>, o)
      BY <1>6, <1>7, <1>10
    <3>2. QED
      BY <3>1 DEF Before
  <2>4. MessagesFrom(stream, k) = <<msg>> \o MessagesFrom(stream, k + 1)
    <3>1. MessagesFrom(stream, k) = IfLast[stream[k]] \o MessagesFrom(stream, k + 1)
      BY MessagesFromSteps
    <3>2. IfLast[stream[k]] = <<msg>>
      BY <1>1, <1>3 DEF IfLast
    <3>3. QED
      BY <3>1, <3>2
  <2>5. MessagesFrom(stream, k + 1) \in Seq(Message)
    <3>1. k + 1 \in 1 .. n + 1
      BY <1>1
    <3>2. QED
      BY <3>1, MessagesFromSteps
  <2>6. s[1] = TypeCode[msg.type]
    BY <1>5 DEF Spells
  <2>7. o.result = "messages" => SameTypes(F[at].messages, MessagesFrom(stream, k))
    <3>1. SUFFICES ASSUME o.result = "messages"
                   PROVE  SameTypes(F[at].messages, MessagesFrom(stream, k))
      OBVIOUS
    <3>2. SameTypes(o.messages, MessagesFrom(stream, k + 1))
      BY <1>8, <3>1 DEF Agrees
    <3>3. SameTypes(<<s>> \o o.messages, <<msg>> \o MessagesFrom(stream, k + 1))
      BY <1>6, <2>2, <2>5, <2>6, <3>2, SameTypesInFront, Zenon
    <3>4. QED
      BY <2>3, <2>4, <3>3, Zenon
  <2>8. o.result = "messages" <=> WholeFrom(stream, k)
    BY <1>8, <2>1, Zenon DEF Agrees
  <2>9. QED
    BY <1>2, <2>3, <2>7, <2>8, Zenon DEF Agrees, F
<1>11. QED
  BY <1>9, <1>10

\* From the last piece back to the first.
LEMMA PiecesAgree ==
  ASSUME NEW bytes \in Seq(Byte), NEW stream \in Seq(Piece), NEW start,
         PiecesSpell(bytes, stream, start)
  PROVE  Agrees(Splitter(bytes)[0], stream, 1)
<1> DEFINE n == Len(stream)
           F == Splitter(bytes)
           T == {j \in 0 .. n : Agrees(F[start[(n + 1) - j]], stream, (n + 1) - j)}
<1>1. n \in Nat
  BY LenProperties
<1>2. 0 \in T
  <2>1. (n + 1) - 0 = n + 1 /\ 0 \in 0 .. n
    BY <1>1
  <2>2. Agrees(F[start[n + 1]], stream, n + 1)
    BY AgreesAtEnd
  <2>3. QED
    BY <2>1, <2>2
<1>3. ASSUME NEW j \in 0 .. n - 1, j \in T PROVE j + 1 \in T
  <2>1. PICK k \in 1 .. n : (n + 1) - (j + 1) = k /\ (n + 1) - j = k + 1
    <3>1. /\ (n + 1) - (j + 1) \in 1 .. n
          /\ (n + 1) - j = ((n + 1) - (j + 1)) + 1
      BY <1>1
    <3>2. QED
      BY <3>1
  <2>2. Agrees(F[start[k + 1]], stream, k + 1)
    BY <1>3, <2>1
  <2>3. Agrees(F[start[k]], stream, k)
    BY <2>2, AgreesBeforePart, AgreesBeforeLast
  <2>4. j + 1 \in 0 .. n
    BY <1>1
  <2>5. QED
    BY <2>1, <2>3, <2>4
<1> HIDE DEF T
<1>4. \A j \in 0 .. n : j \in T
  BY <1>1, <1>2, <1>3, BoundedInduction
<1>5. n \in T
  BY <1>1, <1>4
<1>6. (n + 1) - n = 1
  BY <1>1
<1>7. start[1] = 0
  BY DEF PiecesSpell
<1>8. QED
  BY <1>5, <1>6, <1>7 DEF T

\* A handshake record of the abstract streams carries pieces.
LEMMA RecordsCarryPieces == Carries(Record, "handshake", Piece)
BY DEF Carries, Record, Content

\* What the bytes come to is what the collector of HandshakeMessages returns.
LEMMA BytesAgree ==
  ASSUME input \in Inputs, BoundariesDoNotMatter, pc = "done"
  PROVE  /\ result = "messages" <=> CollectOK(input.records)
         /\ result = "messages" => SameTypes(messages, Messages(input.records))
<1> DEFINE B == HandshakeBytes
           S == HandshakeStream(input.records)
<1>1. input.fragments \in Seq(Fragment) /\ input.records \in Seq(Record)
  BY InputsAssumption DEF Input
<1>2. B \in Seq(Byte)
  BY <1>1, FragmentsCarryBytes, PayloadsType, Zenon DEF HandshakeBytes
<1>3. S \in Seq(Piece)
  BY <1>1, RecordsCarryPieces, PayloadsType, Zenon DEF HandshakeStream
<1>4. PiecesSpell(B, S, input.start)
  BY PiecesAssumption, Zenon DEF HandshakeBytes
<1>5. PICK o \in Outcome : o = Splitter(B)[0]
  <2>1. 0 \in 0 .. Len(B)
    BY <1>2, LenProperties
  <2>2. QED
    BY <1>2, <2>1, SplitterTyped
<1>6. Agrees(o, S, 1)
  BY <1>2, <1>3, <1>4, <1>5, PiecesAgree
<1>7. o.messages = messages /\ o.result = result
  <2>1. [messages |-> messages, result |-> result] = Split(B)
    BY DEF BoundariesDoNotMatter
  <2>2. Split(B) = o
    BY <1>5, SplitIsFirst
  <2>3. QED
    BY <2>1, <2>2
<1>8. MessagesFrom(S, 1) = Messages(input.records)
  <2>1. MessagesFrom(S, 1) = Collected(IfLast, S)
    BY <1>3, MessagesFromSteps
  <2>2. Messages(input.records) = Collected(IfLast, S)
    BY <1>3, MessagesCollects
  <2>3. QED
    BY <2>1, <2>2
<1>9. WholeFrom(S, 1) <=> CollectOK(input.records)
  BY Zenon DEF WholeFrom, CollectOK
<1>10. QED
  BY <1>6, <1>7, <1>8, <1>9, Zenon DEF Agrees

\* Two descriptions of the same types.
SameTypeLists(strings, msgs) ==
  [i \in 1 .. Len(strings) |-> strings[i][1]]
    = [i \in 1 .. Len(msgs) |-> TypeCode[msgs[i].type]]

LEMMA SameTypesEqual ==
  ASSUME NEW strings, NEW msgs, SameTypes(strings, msgs)
  PROVE  SameTypeLists(strings, msgs)
BY DEF SameTypes, SameTypeLists

\* The collector that the other modules use finds in the pieces of a flight
\* what the loops find in its bytes: it fails when they do, and otherwise has
\* messages of the same types in the same order (utils.go 246-280).
THEOREM PiecesStandForBytes == Spec => []PiecesAreFaithful
<1> DEFINE Given == input \in Inputs
<1>1. Init => CollectorInv /\ Given
  BY CollectorStarts DEF Init
<1>2. CollectorInv /\ Given /\ [Next]_vars => CollectorInv' /\ Given'
  <2>1. [Next]_vars => input' = input
    BY DEF Next, SkipRecord, TakeRecord, CutMalformed, CutMessage, CutNothing,
           CollectReturns, vars
  <2>2. QED
    BY <2>1, CollectorStep
<1>3. CollectorInv /\ Given => PiecesAreFaithful
  <2> SUFFICES ASSUME CollectorInv, Given, pc = "done"
               PROVE  /\ result = "messages" <=> CollectOK(input.records)
                      /\ result = "messages" =>
                           [i \in 1 .. Len(messages) |-> messages[i][1]]
                             = [i \in 1 .. Len(Messages(input.records)) |->
                                  TypeCode[Messages(input.records)[i].type]]
    BY DEF PiecesAreFaithful
  <2>1. BoundariesDoNotMatter
    BY DEF CollectorInv
  <2>2. /\ result = "messages" <=> CollectOK(input.records)
        /\ result = "messages" => SameTypes(messages, Messages(input.records))
    BY <2>1, BytesAgree
  <2>3. result = "messages" => SameTypeLists(messages, Messages(input.records))
    BY <2>2, SameTypesEqual, Zenon
  <2>4. QED
    BY <2>2, <2>3, Zenon DEF SameTypeLists
<1>4. QED
  BY <1>1, <1>2, <1>3, PTL DEF Spec
=============================================================================
