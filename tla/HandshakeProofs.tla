--------------------------- MODULE HandshakeProofs ---------------------------
(***************************************************************************)
(* Proofs about Handshake, for every set of scripts.  The inductive        *)
(* invariant is InductiveInv of Handshake; the operators on messages stay  *)
(* closed, but for the few places where a step turns on one of their       *)
(* conjuncts.                                                              *)
(***************************************************************************)
EXTENDS Handshake, SequenceLemmas

USE DEF ParseRecordsOK, NoBytes

-----------------------------------------------------------------------------
(* Lemmas about the stream.                                                *)

\* A script is a sequence of records of which the burst is a prefix.
LEMMA ScriptShape ==
  ASSUME script \in Script
  PROVE  /\ script.records \in Seq(Record)
         /\ script.burst \in Nat
         /\ script.burst <= Len(script.records)
         /\ Len(script.records) \in Nat
BY DEF Script

\* A prefix of the stream is a sequence of records.
LEMMA PrefixType ==
  ASSUME TypeOK, NEW n \in 0 .. Len(script.records)
  PROVE  /\ Prefix(n) \in Seq(Record)
         /\ Len(Prefix(n)) = n
         /\ \A i \in 1 .. n : Prefix(n)[i] = script.records[i]
<1>1. script.records \in Seq(Record) /\ Len(script.records) \in Nat
  BY ScriptShape DEF TypeOK, ConnTypeOK
<1>2. \A i \in 1 .. n : script.records[i] \in Record
  BY <1>1, ElementOfSeq
<1>3. QED
  BY <1>1, <1>2, SubSeqProperties DEF Prefix

\* Whole records, with or without a rest, are a byte string.
LEMMA BytesType ==
  ASSUME NEW recs \in Seq(Record), NEW rest \in BOOLEAN
  PROVE  [recs |-> recs, rest |-> rest] \in Bytes
BY Zenon DEF Bytes

\* The first bytes of the stream are none.
LEMMA PrefixZero == Prefix(0) = <<>>
BY SubSeqEmpty DEF Prefix

\* Appending the chunk a read returned gives the longer prefix.
LEMMA PrefixChunk ==
  ASSUME TypeOK, NEW k \in 0 .. (sent - got)
  PROVE  Prefix(got) \o Chunk(k) = Prefix(got + k)
<1>1. /\ script.records \in Seq(Record)
      /\ Len(script.records) \in Nat
      /\ sent \in 0 .. Len(script.records)
      /\ got \in 0 .. sent
  BY ScriptShape DEF TypeOK, ConnTypeOK
<1>2. /\ 1 \in 1 .. Len(script.records) + 1
      /\ got \in 1 - 1 .. Len(script.records)
      /\ got + k \in got .. Len(script.records)
  BY <1>1
<1>3. QED
  BY <1>1, <1>2, ConcatAdjacentSubSeq DEF Prefix, Chunk

-----------------------------------------------------------------------------
(* Lemmas about the predicates.                                            *)

\* A complete flight passes every check up to the decode, and has a Finished.
LEMMA CompleteFlight ==
  ASSUME NEW bytes
  PROVE  ServerHandshakeFlightComplete(bytes) <=>
           /\ ParseRecordsOK(bytes)
           /\ ParseServerHelloOK(bytes)
           /\ SharedSecretOK(bytes)
           /\ DecodeFlightOK(bytes)
           /\ Parsed(bytes, "finished") # {}
BY DEF ServerHandshakeFlightComplete

\* No bytes are no flight.
LEMMA NoFlight == ~ServerHandshakeFlightComplete(NoBytes)
BY DEF ServerHandshakeFlightComplete

\* The transcript builder finds a message exactly when the parser does.
LEMMA FoundIffParsed ==
  ASSUME NEW bytes, NEW type
  PROVE  TranscriptFound(bytes, type) <=> Parsed(bytes, type) # {}
BY DEF TranscriptFound, Parsed

\* What verifies has been parsed.
LEMMA VerifiedIsParsed ==
  ASSUME NEW bytes
  PROVE  /\ SignatureVerifies(bytes) => Parsed(bytes, "certificate_verify") # {}
         /\ FinishedVerifies(bytes) => Parsed(bytes, "finished") # {}
BY DEF SignatureVerifies, FinishedVerifies

\* An opened and parsed flight can be reassembled a second time.
LEMMA DecodedIsCollected ==
  ASSUME NEW bytes, DecodeFlightOK(bytes)
  PROVE  ConcatOK(FlightRecords(bytes))
BY DEF DecodeFlightOK, ParsesServerMessages, ConcatOK

\* While the server is in its burst, a good flight that has been read whole is
\* what the reader holds, and it is acceptable.
LEMMA GoodFlightRead ==
  ASSUME InductiveInv, GoodFlight, got = script.burst, written <= 1
  PROVE  /\ Acceptable(accumulated)
         /\ ~AlertReceived(accumulated)
<1>1. got \in Nat /\ cut \in BOOLEAN
  BY ScriptShape DEF InductiveInv, TypeOK, ConnTypeOK
<1>2. cut = FALSE
  BY <1>1 DEF InductiveInv, BurstInv
<1>3. accumulated = [recs |-> Prefix(script.burst), rest |-> FALSE]
  BY <1>2 DEF InductiveInv, FlightIsStreamPrefix
<1>4. QED
  BY <1>3 DEF GoodFlight

-----------------------------------------------------------------------------
(* The messages of a flight and the transcript of its Finished.            *)

\* The flight's messages are messages.
LEMMA FlightMessagesAre ==
  ASSUME NEW bytes \in Bytes
  PROVE  FlightMessages(bytes) \in Seq(Message)
<1>1. bytes.recs \in Seq(Record)
  BY Zenon DEF Bytes
<1>2. FlightMessages(bytes) = Messages(OpenedOf(bytes.recs))
  BY Zenon DEF FlightMessages, FlightRecords, CiphertextRecords, OpenedOf
<1>3. QED
  BY <1>1, <1>2, FlightMessagesType, Zenon

\* In a flight that parses, a Finished at the end is the only one, so that the
\* transcript before it is that of all the other messages.
LEMMA LastFinished ==
  ASSUME NEW bytes \in Bytes, DecodeFlightOK(bytes),
         NEW n \in Nat, n = Len(FlightMessages(bytes)), n # 0,
         FlightMessages(bytes)[n].type = "finished"
  PROVE  /\ Occurrences(FlightMessages(bytes), "finished") = {n}
         /\ FindFirst(FlightMessages(bytes), "finished") = n
<1> DEFINE M == FlightMessages(bytes)
<1>1. n \in 1 .. Len(M)
  OBVIOUS
<1>2. \A i \in 1 .. Len(M) :
        M[i].type \in ParsedTypes => Occurrences(M, M[i].type) = {i}
  BY Zenon DEF DecodeFlightOK, ParsesServerMessages, FlightMessages
<1> HIDE DEF M
<1>3. Occurrences(M, M[n].type) = {n}
  BY <1>1, <1>2 DEF M, ParsedTypes
<1>4. Occurrences(M, "finished") = {n}
  BY <1>3, Zenon DEF M
<1>5. FindFirst(M, "finished") = n
  <2>1. Min({n}) = n
    BY DEF Min
  <2>2. {n} # {}
    OBVIOUS
  <2>3. QED
    BY <1>4, <2>1, <2>2, Zenon DEF FindFirst
<1>6. QED
  BY <1>4, <1>5, Zenon DEF M

\* The types of messages are those before the last, and that of the last.
LEMMA TypesInTwoParts ==
  ASSUME NEW M \in Seq(Message), NEW n \in Nat, n = Len(M), n # 0
  PROVE  /\ TypesOf(SubSeq(M, 1, n - 1)) \in Seq(MessageType)
         /\ TypesOf(M) = Append(TypesOf(SubSeq(M, 1, n - 1)), M[n].type)
<1> DEFINE front == SubSeq(M, 1, n - 1)
<1>1. \A i \in 1 .. n : M[i] \in Message /\ M[i].type \in MessageType
  <2>1. ASSUME NEW i \in 1 .. n PROVE M[i] \in Message
    BY ElementOfSeq
  <2>2. QED
    BY <2>1, Zenon DEF Message
<1>2. /\ front \in Seq(Message)
      /\ Len(front) = n - 1
      /\ \A i \in 1 .. n - 1 : front[i] = M[i]
  <2>1. 1 \in Int /\ n - 1 \in Int /\ \A i \in 1 .. n - 1 : M[i] \in Message
    BY <1>1
  <2>2. /\ front \in Seq(Message)
        /\ Len(front) = IF 1 <= n - 1 THEN (n - 1) - 1 + 1 ELSE 0
        /\ \A i \in 1 .. (n - 1) - 1 + 1 : front[i] = M[1 + i - 1]
    BY <2>1, SubSeqProperties
  <2>3. QED
    BY <2>2
<1> HIDE DEF front
<1>3. /\ TypesOf(front) \in Seq(MessageType)
      /\ Len(TypesOf(front)) = n - 1
      /\ \A i \in 1 .. n - 1 : TypesOf(front)[i] = M[i].type
  BY <1>1, <1>2 DEF TypesOf
<1>4. /\ TypesOf(M) \in Seq(MessageType)
      /\ Len(TypesOf(M)) = n
      /\ \A i \in 1 .. n : TypesOf(M)[i] = M[i].type
  BY <1>1 DEF TypesOf
<1>5. M[n].type \in MessageType
  BY <1>1
<1> DEFINE whole == Append(TypesOf(front), M[n].type)
<1>6. /\ whole \in Seq(MessageType)
      /\ Len(whole) = n
      /\ \A i \in 1 .. n : whole[i] = M[i].type
  BY <1>3, <1>5, AppendProperties
<1>7. TypesOf(M) = whole
  BY <1>4, <1>6, SeqEqual
<1>8. QED
  BY <1>3, <1>7 DEF front

-----------------------------------------------------------------------------
(* The inductive invariant holds at the start.                             *)

\* The initial states satisfy the inductive invariant.
LEMMA InitInv == Init => InductiveInv
<1> SUFFICES ASSUME Init PROVE InductiveInv
  OBVIOUS
<1> USE DEF Init, ConnInit
<1>1. TypeOK
  <2>1. ConnTypeOK
    <3>1. script \in Script
      BY ScriptsAssumption
    <3>2. Len(script.records) \in Nat
      BY <3>1, ScriptShape
    <3>3. sent \in 0 .. Len(script.records) /\ got \in 0 .. sent
      BY <3>2
    <3>4. QED
      BY <3>1, <3>3 DEF ConnTypeOK
  <2>2. accumulated \in Bytes
    BY EmptySeq DEF Bytes
  <2>3. QED
    BY <2>1, <2>2 DEF TypeOK, Label, Error
<1>2. FlightIsStreamPrefix
  BY PrefixZero DEF FlightIsStreamPrefix
<1>3. BurstInv
  <2>1. script.burst \in Nat
    BY ScriptsAssumption, ScriptShape
  <2>2. QED
    BY <2>1 DEF BurstInv, Processing
<1>4. ExitInv
  BY NoFlight DEF ExitInv, Processing
<1>5. StageInv
  BY DEF StageInv, AfterParseRecords, AfterParseHello, AfterSecrets,
         AfterDecode, AfterChain, AfterSignature, AfterFinished, Processing
<1>6. NoNilDereference /\ DeadlineScoped
  BY DEF NoNilDereference, DeadlineScoped
<1>7. SegmentationDoesNotMatter
  BY DEF SegmentationDoesNotMatter
<1>8. QED
  BY <1>1, <1>2, <1>3, <1>4, <1>5, <1>6, <1>7 DEF InductiveInv

-----------------------------------------------------------------------------
(* The steps of the network.                                               *)

\* Whether the burst is a good flight does not change: the script is fixed.
LEMMA GoodFlightFixed ==
  ASSUME script' = script
  PROVE  GoodFlight' <=> GoodFlight
BY DEF GoodFlight, Prefix

\* A step that leaves the client alone keeps what is said of the client.
LEMMA ClientAlone ==
  ASSUME InductiveInv, UNCHANGED hsVars,
         UNCHANGED <<script, got, cut, written>>,
         deadline = "off" <=> deadline' = "off",
         ConnTypeOK', BurstInv'
  PROVE  InductiveInv'
<1> USE DEF InductiveInv, hsVars
<1>1. TypeOK' /\ FlightIsStreamPrefix'
  BY DEF TypeOK, FlightIsStreamPrefix, Prefix
<1>2. ExitInv' /\ StageInv'
  BY DEF ExitInv, StageInv
<1>3. NoNilDereference' /\ DeadlineScoped'
  BY DEF NoNilDereference, DeadlineScoped
<1>4. SegmentationDoesNotMatter'
  BY GoodFlightFixed DEF SegmentationDoesNotMatter
<1>5. QED
  BY <1>1, <1>2, <1>3, <1>4

\* The server, the network and the clock keep the invariant.
LEMMA NetworkInv ==
  ASSUME InductiveInv, Network
  PROVE  InductiveInv'
<1>1. /\ script \in Script
      /\ Len(script.records) \in Nat /\ script.burst \in Nat
      /\ script.burst <= Len(script.records)
      /\ sent \in 0 .. Len(script.records)
      /\ got \in 0 .. sent
      /\ written \in Nat
  BY ScriptShape DEF InductiveInv, TypeOK, ConnTypeOK
<1> USE DEF Network
<1>2. CASE ServerSend
  <2>1. sent' \in 0 .. Len(script.records) /\ got \in 0 .. sent'
    BY <1>1, <1>2 DEF ServerSend, MaySend
  <2>2. ConnTypeOK'
    BY <1>2, <2>1 DEF ServerSend, InductiveInv, TypeOK, ConnTypeOK
  <2>3. BurstInv'
    BY <1>1, <1>2 DEF ServerSend, MaySend, InductiveInv, BurstInv, hsVars
  <2>4. QED
    BY <1>2, <2>2, <2>3, ClientAlone DEF ServerSend
<1>3. CASE ServerClose
  <2>1. ConnTypeOK'
    BY <1>3 DEF ServerClose, InductiveInv, TypeOK, ConnTypeOK
  <2>2. BurstInv'
    BY <1>1, <1>3 DEF ServerClose, MaySend, InductiveInv, BurstInv, hsVars
  <2>3. QED
    BY <1>3, <2>1, <2>2, ClientAlone DEF ServerClose
<1>4. CASE ConnectionReset
  <2>1. ConnTypeOK'
    BY <1>4 DEF ConnectionReset, InductiveInv, TypeOK, ConnTypeOK
  <2>2. BurstInv'
    BY <1>1, <1>4 DEF ConnectionReset, InductiveInv, BurstInv, hsVars
  <2>3. QED
    BY <1>4, <2>1, <2>2, ClientAlone DEF ConnectionReset
<1>5. CASE DeadlineExpires
  <2>1. ConnTypeOK'
    BY <1>5 DEF DeadlineExpires, InductiveInv, TypeOK, ConnTypeOK
  <2>2. BurstInv'
    BY <1>1, <1>5 DEF DeadlineExpires, InductiveInv, BurstInv, hsVars
  <2>3. QED
    BY <1>5, <2>1, <2>2, ClientAlone DEF DeadlineExpires
<1>6. QED
  BY <1>2, <1>3, <1>4, <1>5 DEF Environment

\* A step that changes nothing keeps everything.
LEMMA StutterInv ==
  ASSUME InductiveInv, UNCHANGED vars
  PROVE  InductiveInv'
<1>1. ConnTypeOK' /\ BurstInv'
  BY DEF InductiveInv, TypeOK, ConnTypeOK, BurstInv, vars, connVars, hsVars
<1>2. QED
  BY <1>1, ClientAlone DEF vars, connVars

-----------------------------------------------------------------------------
(* The steps before and after the read loop.                               *)

\* Steps 1 and 2 keep it: the first write opens the burst.
LEMMA SendClientHelloInv ==
  ASSUME InductiveInv, SendClientHello
  PROVE  InductiveInv'
<1> USE DEF SendClientHello, Write, Fail, InductiveInv
<1>1. /\ script \in Script
      /\ script.burst \in Nat /\ written \in Nat
      /\ got \in Nat /\ sent \in Nat
  BY ScriptShape DEF TypeOK, ConnTypeOK
<1>2. TypeOK'
  <2>1. ConnTypeOK'
    BY DEF TypeOK, ConnTypeOK
  <2>2. QED
    BY <2>1 DEF TypeOK, Label, Terminal, Error
<1>3. FlightIsStreamPrefix'
  BY DEF FlightIsStreamPrefix, Prefix
<1>4. BurstInv'
  BY <1>1 DEF BurstInv, Processing
<1>5. ExitInv' /\ StageInv'
  BY DEF ExitInv, StageInv, AfterParseRecords, AfterParseHello, AfterSecrets,
         AfterDecode, AfterChain, AfterSignature, AfterFinished, Processing
<1>6. NoNilDereference' /\ DeadlineScoped'
  BY DEF NoNilDereference, DeadlineScoped
<1>7. SegmentationDoesNotMatter'
  BY DEF SegmentationDoesNotMatter
<1>8. QED
  BY <1>2, <1>3, <1>4, <1>5, <1>6, <1>7

\* A good flight is not empty, so nothing of it is read before the loop.
LEMMA NothingReadYet ==
  ASSUME InductiveInv, pc \in {"readFlight", "reading"}, GoodFlight
  PROVE  got # script.burst
<1>1. ~ServerHandshakeFlightComplete(accumulated)
  BY DEF InductiveInv, ExitInv
<1>2. written = 1
  BY DEF InductiveInv, BurstInv
<1>3. QED
  BY <1>1, <1>2, GoodFlightRead DEF Acceptable

\* Setting the read deadline keeps it.
LEMMA ReadFlightInv ==
  ASSUME InductiveInv, ReadFlight
  PROVE  InductiveInv'
<1> USE DEF ReadFlight, Fail, InductiveInv
<1>1. TypeOK'
  <2>1. ConnTypeOK'
    BY DEF TypeOK, ConnTypeOK
  <2>2. QED
    BY <2>1 DEF TypeOK, Label, Terminal, Error
<1>2. FlightIsStreamPrefix'
  BY DEF FlightIsStreamPrefix, Prefix
<1>3. BurstInv'
  BY DEF BurstInv, Processing
<1>4. ExitInv' /\ StageInv'
  BY DEF ExitInv, StageInv, AfterParseRecords, AfterParseHello, AfterSecrets,
         AfterDecode, AfterChain, AfterSignature, AfterFinished, Processing
<1>5. NoNilDereference' /\ DeadlineScoped'
  BY DEF NoNilDereference, DeadlineScoped
<1>6. SegmentationDoesNotMatter'
  BY NothingReadYet, GoodFlightFixed DEF SegmentationDoesNotMatter
<1>7. QED
  BY <1>1, <1>2, <1>3, <1>4, <1>5, <1>6

\* A processing step that goes on, or fails for a reason other than a good
\* flight, keeps the invariant if the stage it reaches is right.
LEMMA ProcessingStep ==
  ASSUME InductiveInv, pc \in Processing,
         UNCHANGED <<connVars, accumulated, exit>>,
         pc' \in Processing \union {"failed"}, err' \in Error,
         StageInv',
         Acceptable(accumulated) => pc' # "failed"
  PROVE  InductiveInv'
<1> USE DEF InductiveInv, connVars
<1>1. TypeOK'
  <2>1. ConnTypeOK'
    BY DEF TypeOK, ConnTypeOK
  <2>2. QED
    BY <2>1 DEF TypeOK, Label, Terminal
<1>2. FlightIsStreamPrefix'
  BY DEF FlightIsStreamPrefix, Prefix
<1>3. BurstInv'
  BY DEF BurstInv, Processing
<1>4. ExitInv'
  BY DEF ExitInv, Processing
<1>5. NoNilDereference' /\ DeadlineScoped'
  BY DEF NoNilDereference, DeadlineScoped, Processing
<1>6. SegmentationDoesNotMatter'
  <2>1. written = 1
    BY DEF BurstInv
  <2>2. QED
    BY <2>1, GoodFlightRead, GoodFlightFixed
       DEF SegmentationDoesNotMatter, Processing
<1>7. QED
  BY <1>1, <1>2, <1>3, <1>4, <1>5, <1>6

-----------------------------------------------------------------------------
(* The read loop.                                                          *)

\* What a read leaves behind: the bytes accumulated are the longer prefix, and
\* while the server is in its burst a partial record lies inside it.
LEMMA ReadBytes ==
  ASSUME InductiveInv, NEW k \in 0 .. (sent - got), NEW partial \in BOOLEAN,
         Receive(k, partial)
  PROVE  /\ accumulated' = [recs |-> Prefix(got + k), rest |-> partial]
         /\ accumulated' \in Bytes
         /\ got' = got + k /\ got' \in 0 .. sent
         /\ partial => got' < script.burst
         /\ got' <= script.burst
<1> USE DEF Receive, ReadReturns
<1>1. /\ script \in Script
      /\ script.records \in Seq(Record) /\ Len(script.records) \in Nat
      /\ script.burst \in Nat
      /\ sent \in 0 .. Len(script.records)
      /\ got \in 0 .. sent
  BY ScriptShape DEF InductiveInv, TypeOK, ConnTypeOK
<1>2. accumulated.recs = Prefix(got)
  BY DEF InductiveInv, FlightIsStreamPrefix
<1>3. accumulated' = [recs |-> Prefix(got + k), rest |-> partial]
  BY <1>2, PrefixChunk DEF InductiveInv
<1>4. got + k \in 0 .. Len(script.records) /\ got' \in 0 .. sent
  BY <1>1
<1>5. Prefix(got + k) \in Seq(Record)
  BY <1>4, PrefixType DEF InductiveInv
<1>6. written = 1
  BY DEF InductiveInv, BurstInv
<1>7. sent <= script.burst /\ (peer = "torn" => sent < script.burst)
  BY <1>6 DEF InductiveInv, BurstInv
<1>8. accumulated' \in Bytes
  BY <1>3, <1>5, BytesType
<1>9. got' <= script.burst /\ (partial => got' < script.burst)
  BY <1>1, <1>4, <1>7
<1>10. QED
  BY <1>3, <1>4, <1>8, <1>9

\* A pass of the read loop that returns bytes keeps it, in each of its
\* three outcomes.
LEMMA ReceiveInv ==
  ASSUME InductiveInv, NEW k \in 0 .. (sent - got), NEW partial \in BOOLEAN,
         Receive(k, partial)
  PROVE  InductiveInv'
<1>1. /\ pc = "reading" /\ exit = "none" /\ deadline # "off" /\ written = 1
      /\ UNCHANGED <<script, sent, written, peer>>
      /\ cut' = partial
  BY DEF Receive, ReadReturns, InductiveInv, BurstInv, ExitInv, DeadlineScoped
<1>2. /\ accumulated' = [recs |-> Prefix(got'), rest |-> partial]
      /\ accumulated' \in Bytes
      /\ got' \in 0 .. sent
      /\ partial => got' < script.burst
      /\ got' <= script.burst
  BY ReadBytes
\* the three ways a pass of the loop ends
<1>3. \/ /\ AlertReceived(accumulated')
         /\ pc' = "failed" /\ err' = "alert" /\ deadline' = "off"
         /\ exit' = "none"
      \/ /\ ~AlertReceived(accumulated')
         /\ ServerHandshakeFlightComplete(accumulated')
         /\ pc' = "parseRecords" /\ err' = err /\ deadline' = "off"
         /\ exit' = "complete"
      \/ /\ ~AlertReceived(accumulated')
         /\ ~ServerHandshakeFlightComplete(accumulated')
         /\ pc' = "reading" /\ err' = err /\ deadline' = deadline
         /\ exit' = "none"
  BY <1>1 DEF Receive, ReturnFlight, LeaveReader, Fail
<1>4. TypeOK'
  <2>1. ConnTypeOK'
    BY <1>1, <1>2, <1>3 DEF InductiveInv, TypeOK, ConnTypeOK
  <2>2. err \in Error
    BY DEF InductiveInv, TypeOK
  <2>3. QED
    BY <1>2, <1>3, <2>1, <2>2 DEF TypeOK, Label, Processing, Terminal, Error
<1>5. FlightIsStreamPrefix'
  BY <1>1, <1>2 DEF FlightIsStreamPrefix, Prefix
<1>6. BurstInv'
  BY <1>1, <1>2, <1>3 DEF InductiveInv, BurstInv, Processing
<1>7. ExitInv'
  BY <1>3 DEF ExitInv, Processing
<1>8. StageInv'
  BY <1>3 DEF StageInv, AfterParseRecords, AfterParseHello, AfterSecrets,
         AfterDecode, AfterChain, AfterSignature, AfterFinished, Processing
<1>9. NoNilDereference' /\ DeadlineScoped'
  BY <1>1, <1>3 DEF NoNilDereference, DeadlineScoped
<1>10. SegmentationDoesNotMatter'
  <2> SUFFICES ASSUME GoodFlight, got' = script.burst
               PROVE  pc' = "parseRecords"
    BY <1>1, GoodFlightFixed DEF SegmentationDoesNotMatter
  <2>1. ~partial
    BY <1>1, <1>2
  <2>2. accumulated' = [recs |-> Prefix(script.burst), rest |-> FALSE]
    BY <1>1, <1>2, <2>1
  <2>3. QED
    BY <1>3, <2>2 DEF GoodFlight, Acceptable
<1>11. QED
  BY <1>4, <1>5, <1>6, <1>7, <1>8, <1>9, <1>10 DEF InductiveInv

\* A pass that returns an error keeps it: what it may hand over is not a
\* complete flight.
LEMMA GiveUpInv ==
  ASSUME InductiveInv, NEW how \in {"eof", "timeout", "reset"}, GiveUp(how)
  PROVE  InductiveInv'
<1> USE DEF GiveUp, ReturnFlight, LeaveReader, Fail, InductiveInv
<1>1. TypeOK'
  <2>1. ConnTypeOK'
    BY DEF TypeOK, ConnTypeOK
  <2>2. QED
    BY <2>1 DEF TypeOK, Label, Processing, Terminal, Error
<1>2. FlightIsStreamPrefix'
  BY DEF FlightIsStreamPrefix, Prefix
<1>3. BurstInv'
  BY DEF BurstInv, Processing
<1>4. ExitInv'
  BY DEF ExitInv, Processing
<1>5. StageInv'
  BY DEF StageInv, AfterParseRecords, AfterParseHello, AfterSecrets,
         AfterDecode, AfterChain, AfterSignature, AfterFinished, Processing
<1>6. NoNilDereference' /\ DeadlineScoped'
  BY DEF NoNilDereference, DeadlineScoped
<1>7. SegmentationDoesNotMatter'
  BY NothingReadYet, GoodFlightFixed DEF SegmentationDoesNotMatter
<1>8. QED
  BY <1>1, <1>2, <1>3, <1>4, <1>5, <1>6, <1>7

-----------------------------------------------------------------------------
(* The steps on the flight the reader returned.                            *)

\* Step 4 keeps it, and lets every acceptable flight pass.
LEMMA ParseFlightInv ==
  ASSUME InductiveInv, ParseFlight
  PROVE  InductiveInv'
<1> USE DEF ParseFlight, Step, Fail
<1>1. StageInv'
  BY DEF InductiveInv, StageInv, AfterParseRecords, AfterParseHello,
         AfterSecrets, AfterDecode, AfterChain, AfterSignature,
         AfterFinished, Processing
<1>2. Acceptable(accumulated) => pc' # "failed"
  BY CompleteFlight DEF Acceptable
<1>3. pc \in Processing /\ pc' \in Processing \union {"failed"}
  BY DEF Processing
<1>4. err' \in Error
  BY DEF InductiveInv, TypeOK, Error
<1>5. QED
  BY <1>1, <1>2, <1>3, <1>4, ProcessingStep

\* Step 5 keeps it, and lets every acceptable flight pass.
LEMMA ParseHelloInv ==
  ASSUME InductiveInv, ParseHello
  PROVE  InductiveInv'
<1> USE DEF ParseHello, Step, Fail
<1>1. StageInv'
  BY DEF InductiveInv, StageInv, AfterParseRecords, AfterParseHello,
         AfterSecrets, AfterDecode, AfterChain, AfterSignature,
         AfterFinished, Processing
<1>2. Acceptable(accumulated) => pc' # "failed"
  BY CompleteFlight DEF Acceptable
<1>3. pc \in Processing /\ pc' \in Processing \union {"failed"}
  BY DEF Processing
<1>4. err' \in Error
  BY DEF InductiveInv, TypeOK, Error
<1>5. QED
  BY <1>1, <1>2, <1>3, <1>4, ProcessingStep

\* Steps 6 and 7 keep it, and let every acceptable flight pass.
LEMMA DeriveSecretsInv ==
  ASSUME InductiveInv, DeriveSecrets
  PROVE  InductiveInv'
<1> USE DEF DeriveSecrets, Step, Fail
<1>1. StageInv'
  BY DEF InductiveInv, StageInv, AfterParseRecords, AfterParseHello,
         AfterSecrets, AfterDecode, AfterChain, AfterSignature,
         AfterFinished, Processing
<1>2. Acceptable(accumulated) => pc' # "failed"
  BY CompleteFlight DEF Acceptable
<1>3. pc \in Processing /\ pc' \in Processing \union {"failed"}
  BY DEF Processing
<1>4. err' \in Error
  BY DEF InductiveInv, TypeOK, Error
<1>5. QED
  BY <1>1, <1>2, <1>3, <1>4, ProcessingStep

\* Step 8 keeps it, and lets every acceptable flight pass.
LEMMA DecodeFlightInv ==
  ASSUME InductiveInv, DecodeFlight
  PROVE  InductiveInv'
<1> USE DEF DecodeFlight, Step, Fail
<1>1. StageInv'
  BY DEF InductiveInv, StageInv, AfterParseRecords, AfterParseHello,
         AfterSecrets, AfterDecode, AfterChain, AfterSignature,
         AfterFinished, Processing
<1>2. Acceptable(accumulated) => pc' # "failed"
  BY CompleteFlight DEF Acceptable
<1>3. pc \in Processing /\ pc' \in Processing \union {"failed"}
  BY DEF Processing
<1>4. err' \in Error
  BY DEF InductiveInv, TypeOK, Error
<1>5. QED
  BY <1>1, <1>2, <1>3, <1>4, ProcessingStep

\* Step 9 keeps it, and lets every acceptable flight pass.
LEMMA VerifyChainInv ==
  ASSUME InductiveInv, VerifyChain
  PROVE  InductiveInv'
<1> USE DEF VerifyChain, Step, Fail
<1>1. StageInv'
  BY DEF InductiveInv, StageInv, AfterParseRecords, AfterParseHello,
         AfterSecrets, AfterDecode, AfterChain, AfterSignature,
         AfterFinished, Processing
<1>2. Acceptable(accumulated) => pc' # "failed"
  BY DEF Acceptable
<1>3. pc \in Processing /\ pc' \in Processing \union {"failed"}
  BY DEF Processing
<1>4. err' \in Error
  BY DEF InductiveInv, TypeOK, Error
<1>5. QED
  BY <1>1, <1>2, <1>3, <1>4, ProcessingStep

\* Step 10 keeps it: a message the transcript builder finds is not nil.
LEMMA VerifyCertificateVerifyInv ==
  ASSUME InductiveInv, VerifyCertificateVerify
  PROVE  InductiveInv'
<1> USE DEF VerifyCertificateVerify, VerifyMessage, Fail
<1>1. StageInv'
  BY VerifiedIsParsed DEF InductiveInv, StageInv, AfterParseRecords,
         AfterParseHello, AfterSecrets, AfterDecode, AfterChain,
         AfterSignature, AfterFinished, Processing
<1>2. Acceptable(accumulated) => pc' # "failed"
  BY FoundIffParsed, VerifiedIsParsed DEF Acceptable
<1>3. pc \in Processing /\ pc' \in Processing \union {"failed"}
  BY FoundIffParsed DEF Processing
<1>4. err' \in Error
  BY DEF InductiveInv, TypeOK, Error
<1>5. QED
  BY <1>1, <1>2, <1>3, <1>4, ProcessingStep

\* Step 11 keeps it, and leaves a server Finished that has been parsed.
LEMMA VerifyServerFinishedInv ==
  ASSUME InductiveInv, VerifyServerFinished
  PROVE  InductiveInv'
<1> USE DEF VerifyServerFinished, VerifyMessage, Fail
<1>1. StageInv'
  BY VerifiedIsParsed DEF InductiveInv, StageInv, AfterParseRecords,
         AfterParseHello, AfterSecrets, AfterDecode, AfterChain,
         AfterSignature, AfterFinished, Processing
<1>2. Acceptable(accumulated) => pc' # "failed"
  BY FoundIffParsed, VerifiedIsParsed DEF Acceptable
<1>3. pc \in Processing /\ pc' \in Processing \union {"failed"}
  BY FoundIffParsed DEF Processing
<1>4. err' \in Error
  BY DEF InductiveInv, TypeOK, Error
<1>5. QED
  BY <1>1, <1>2, <1>3, <1>4, ProcessingStep

\* Step 12 keeps it: what was reassembled once is reassembled again.
LEMMA DeriveSessionKeysInv ==
  ASSUME InductiveInv, DeriveSessionKeys
  PROVE  InductiveInv'
<1> USE DEF DeriveSessionKeys, Step, Fail
<1>1. StageInv'
  BY DEF InductiveInv, StageInv, AfterParseRecords, AfterParseHello,
         AfterSecrets, AfterDecode, AfterChain, AfterSignature,
         AfterFinished, Processing
<1>2. Acceptable(accumulated) => pc' # "failed"
  BY CompleteFlight, DecodedIsCollected DEF Acceptable
<1>3. pc \in Processing /\ pc' \in Processing \union {"failed"}
  BY DEF Processing
<1>4. err' \in Error
  BY DEF InductiveInv, TypeOK, Error
<1>5. QED
  BY <1>1, <1>2, <1>3, <1>4, ProcessingStep

\* Step 13 keeps it: the second write ends the burst phase.
LEMMA SendFinishedInv ==
  ASSUME InductiveInv, SendFinished
  PROVE  InductiveInv'
<1> USE DEF SendFinished, Write, Fail, InductiveInv
<1>1. script \in Script /\ written \in Nat /\ written = 1
  BY DEF TypeOK, ConnTypeOK, BurstInv, Processing
<1>2. TypeOK'
  <2>1. ConnTypeOK'
    BY <1>1 DEF TypeOK, ConnTypeOK
  <2>2. QED
    BY <2>1 DEF TypeOK, Label, Terminal, Error
<1>3. FlightIsStreamPrefix'
  BY DEF FlightIsStreamPrefix, Prefix
<1>4. BurstInv'
  BY <1>1 DEF BurstInv, Processing
<1>5. ExitInv' /\ StageInv'
  BY DEF ExitInv, StageInv, AfterParseRecords, AfterParseHello, AfterSecrets,
         AfterDecode, AfterChain, AfterSignature, AfterFinished, Processing
<1>6. NoNilDereference' /\ DeadlineScoped'
  BY DEF NoNilDereference, DeadlineScoped
<1>7. SegmentationDoesNotMatter'
  BY DEF SegmentationDoesNotMatter
<1>8. QED
  BY <1>2, <1>3, <1>4, <1>5, <1>6, <1>7

-----------------------------------------------------------------------------
(* What follows from the invariant.                                        *)

\* From step 12 on the flight is complete and has passed every verification.
LEMMA VerifiedFlight ==
  ASSUME InductiveInv, pc \in {"sessionKeys", "sendFinished", "done"}
  PROVE  exit = "complete" /\ Acceptable(accumulated)
<1>1. /\ ParseRecordsOK(accumulated) /\ ParseServerHelloOK(accumulated)
      /\ SharedSecretOK(accumulated) /\ DecodeFlightOK(accumulated)
      /\ ChainOK(accumulated) /\ SignatureVerifies(accumulated)
      /\ FinishedVerifies(accumulated)
  BY DEF InductiveInv, StageInv, AfterParseRecords, AfterParseHello,
         AfterSecrets, AfterDecode, AfterChain, AfterSignature, AfterFinished,
         Processing
<1>2. Acceptable(accumulated)
  BY <1>1, CompleteFlight, VerifiedIsParsed DEF Acceptable
<1>3. exit # "none" /\ exit \notin {"eof", "timeout"}
  BY <1>2 DEF InductiveInv, ExitInv, Processing, Acceptable
<1>4. QED
  BY <1>2, <1>3 DEF InductiveInv, TypeOK

\* A good flight called complete is all of the burst.
LEMMA CompleteIsWhole ==
  ASSUME InductiveInv, GoodFlight, exit = "complete"
  PROVE  got = script.burst /\ cut = FALSE
<1>1. got \in Nat /\ script.burst \in Nat /\ got <= script.burst /\ cut \in BOOLEAN
  BY ScriptShape DEF InductiveInv, TypeOK, ConnTypeOK, BurstInv
<1>2. /\ accumulated = [recs |-> Prefix(got), rest |-> cut]
      /\ ServerHandshakeFlightComplete(accumulated)
  BY DEF InductiveInv, FlightIsStreamPrefix, ExitInv
<1>3. cut = FALSE
  BY <1>1, <1>2, CompleteFlight
<1>4. ~(got \in 0 .. script.burst - 1)
  BY <1>2, <1>3 DEF GoodFlight
<1>5. QED
  BY <1>1, <1>3, <1>4

\* There is no alert in the part of a good flight that has been read.
LEMMA NoAlertInPart ==
  ASSUME InductiveInv, GoodFlight
  PROVE  ~AlertReceived(accumulated)
<1>1. /\ got \in 0 .. Len(script.records) /\ script.burst \in 0 .. Len(script.records)
      /\ got <= script.burst
  BY ScriptShape DEF InductiveInv, TypeOK, ConnTypeOK, BurstInv
<1>2. accumulated.recs = Prefix(got)
  BY DEF InductiveInv, FlightIsStreamPrefix
<1>3. /\ Len(Prefix(got)) = got
      /\ \A i \in 1 .. got : Prefix(got)[i] = script.records[i]
      /\ Len(Prefix(script.burst)) = script.burst
      /\ \A i \in 1 .. script.burst : Prefix(script.burst)[i] = script.records[i]
  BY <1>1, PrefixType DEF InductiveInv
<1>4. \A i \in 1 .. script.burst : Prefix(script.burst)[i].type # "alert"
  BY <1>3 DEF GoodFlight, AlertReceived
<1>5. \A i \in 1 .. got : Prefix(got)[i].type # "alert"
  BY <1>1, <1>3, <1>4
<1>6. QED
  BY <1>2, <1>3, <1>5 DEF AlertReceived

(***************************************************************************)
(* A step that ends the handshake of a good flight fails for the client's  *)
(* own work, for a read or a write, or on a flight that was cut short.     *)
(***************************************************************************)
LEMMA FailureExplained ==
  ASSUME InductiveInv, InductiveInv', GoodFlight, Client, pc' = "failed"
  PROVE  \/ err' \in {"local", "write", "eof", "timeout", "reset"}
         \/ exit' \in {"eof", "timeout"}
<1>1. CASE SendClientHello \/ ReadFlight \/ SendFinished
  BY <1>1 DEF SendClientHello, ReadFlight, SendFinished, Fail
<1>2. ASSUME NEW k \in 0 .. (sent - got), NEW partial \in BOOLEAN,
             Receive(k, partial)
      PROVE  FALSE
  <2>1. GoodFlight'
    BY <1>2, GoodFlightFixed DEF Receive
  <2>2. ~AlertReceived(accumulated)'
    <3>1. (InductiveInv /\ GoodFlight => ~AlertReceived(accumulated))'
      BY NoAlertInPart, PTL
    <3>2. QED
      BY <2>1, <3>1
  <2>3. AlertReceived(accumulated')
    BY <1>2 DEF Receive, ReturnFlight
  <2>4. QED
    BY <2>2, <2>3 DEF AlertReceived
<1>3. CASE ReceiveEOF \/ ReceiveTimeout \/ ReceiveError
  BY <1>3 DEF ReceiveEOF, ReceiveTimeout, ReceiveError, GiveUp, ReturnFlight,
              Fail
<1>4. CASE ParseFlight \/ ParseHello \/ DeriveSecrets \/ DecodeFlight
             \/ VerifyChain \/ VerifyCertificateVerify \/ VerifyServerFinished
             \/ DeriveSessionKeys
  <2>1. pc \in Processing /\ UNCHANGED <<connVars, accumulated, exit>>
    BY <1>4 DEF ParseFlight, ParseHello, DeriveSecrets, DecodeFlight,
                VerifyChain, VerifyCertificateVerify, VerifyServerFinished,
                DeriveSessionKeys, Step, VerifyMessage, Processing
  <2>2. exit # "none" /\ exit' = exit
    BY <2>1 DEF InductiveInv, ExitInv
  <2>3. CASE exit = "complete"
    <3>1. got = script.burst
      BY <2>3, CompleteIsWhole
    <3>2. GoodFlight' /\ got' = script'.burst
      BY <2>1, <3>1, GoodFlightFixed DEF connVars
    <3>3. err' \in {"local", "write"}
      BY <3>2 DEF InductiveInv, SegmentationDoesNotMatter
    <3>4. QED
      BY <3>3
  <2>4. QED
    BY <2>2, <2>3 DEF InductiveInv, TypeOK
<1>5. QED
  BY <1>1, <1>2, <1>3, <1>4 DEF Client, Read

\* When the flight ends in its Finished, that is the only one, and the client's
\* transcript is what it covers and the Finished itself.
LEMMA OneTranscript ==
  ASSUME InductiveInv, pc = "done",
         LET types == TypesOf(FlightMessages(accumulated))
         IN  types[Len(types)] = "finished"
  PROVE  /\ Parsed(accumulated, "finished") # {}
         /\ \A finished \in Parsed(accumulated, "finished") :
              SessionTranscript(accumulated) = Append(finished.covers, "finished")
<1> DEFINE M == FlightMessages(accumulated)
           n == Len(M)
           T == TypesOf(SubSeq(M, 1, n - 1))
<1>1. /\ accumulated \in Bytes /\ DecodeFlightOK(accumulated)
      /\ FinishedVerifies(accumulated)
  BY DEF InductiveInv, TypeOK, StageInv, AfterParseRecords, AfterParseHello,
         AfterSecrets, AfterDecode, AfterChain, AfterSignature, AfterFinished,
         Processing
<1>2. M \in Seq(Message) /\ n \in Nat
  BY <1>1, FlightMessagesAre, LenProperties
<1>3. n # 0
  <2>1. Parsed(accumulated, "finished") # {}
    BY <1>1, VerifiedIsParsed
  <2>2. PICK i \in 1 .. n : TRUE
    BY <2>1, Zenon DEF Parsed, Occurrences
  <2>3. QED
    BY <1>2, <2>2
<1>4. M[n].type = "finished"
  <2>1. TypesOf(M)[n] = M[n].type /\ Len(TypesOf(M)) = n
    BY <1>2, <1>3 DEF TypesOf
  <2>2. TypesOf(M)[Len(TypesOf(M))] = "finished"
    OBVIOUS
  <2>3. QED
    BY <2>1, <2>2, Zenon
<1>5. /\ Occurrences(M, "finished") = {n}
      /\ FindFirst(M, "finished") = n
  BY <1>1, <1>2, <1>3, <1>4, LastFinished, Zenon
<1>6. T \in Seq(MessageType) /\ TypesOf(M) = Append(T, "finished")
  BY <1>2, <1>3, <1>4, TypesInTwoParts
<1> HIDE DEF T
<1>7. \A finished \in Parsed(accumulated, "finished") :
        finished.covers = HelloTranscript \o T
  <2>1. \A finished \in Parsed(accumulated, "finished") : finished = M[n]
    BY <1>5, Zenon DEF Parsed
  <2>2. PICK finished \in Parsed(accumulated, "finished") :
          finished.covers = HelloTranscript \o T
    BY <1>1, <1>5, Zenon DEF FinishedVerifies, TranscriptBefore, T
  <2>3. QED
    BY <2>1, <2>2, Zenon
<1>8. SessionTranscript(accumulated) = HelloTranscript \o Append(T, "finished")
  BY <1>6, Zenon DEF SessionTranscript
<1>9. HelloTranscript \o Append(T, "finished")
        = Append(HelloTranscript \o T, "finished")
  BY <1>6 DEF HelloTranscript, MessageType
<1>10. QED
  BY <1>1, <1>7, <1>8, <1>9, VerifiedIsParsed, Zenon

\* The transcripts of the two sides agree when the flight ends in its Finished.
LEMMA Agreement == InductiveInv => KeysAgree
BY OneTranscript, Zenon DEF KeysAgree

-----------------------------------------------------------------------------
(* The theorems.                                                           *)

\* Every step keeps the inductive invariant, whatever the server sends.
THEOREM StepInv == InductiveInv /\ [Next]_vars => InductiveInv'
<1> SUFFICES ASSUME InductiveInv, [Next]_vars PROVE InductiveInv'
  OBVIOUS
<1>1. ASSUME Read PROVE InductiveInv'
  BY <1>1, ReceiveInv, GiveUpInv
     DEF Read, ReceiveEOF, ReceiveTimeout, ReceiveError
<1>2. ASSUME Client PROVE InductiveInv'
  BY <1>1, <1>2, SendClientHelloInv, ReadFlightInv, ParseFlightInv,
     ParseHelloInv, DeriveSecretsInv, DecodeFlightInv, VerifyChainInv,
     VerifyCertificateVerifyInv, VerifyServerFinishedInv,
     DeriveSessionKeysInv, SendFinishedInv DEF Client
<1>3. QED
  BY <1>2, NetworkInv, StutterInv DEF Next, Terminated

\* The inductive invariant holds in every reachable state of doHandshake.
THEOREM InductiveInvariant == Spec => []InductiveInv
BY InitInv, StepInv, PTL DEF Spec

\* Every variable of doHandshake and of its connection keeps its type.
THEOREM TypeCorrect == Spec => []TypeOK
<1>1. InductiveInv => TypeOK
  BY DEF InductiveInv
<1>2. QED
  BY <1>1, InductiveInvariant, PTL

\* The flight is the stream read so far, however TCP cut it into reads.
THEOREM FlightPrefix == Spec => []FlightIsStreamPrefix
<1>1. InductiveInv => FlightIsStreamPrefix
  BY DEF InductiveInv
<1>2. QED
  BY <1>1, InductiveInvariant, PTL

\* No handshake, however its flight ends, dereferences a nil message.
THEOREM NilSafety == Spec => []NoNilDereference
<1>1. InductiveInv => NoNilDereference
  BY DEF InductiveInv
<1>2. QED
  BY <1>1, InductiveInvariant, PTL

\* A flight cut short by EOF or by the deadline never makes a handshake.
THEOREM SuccessIsComplete == Spec => []SuccessOnlyWhenComplete
<1>1. InductiveInv => SuccessOnlyWhenComplete
  BY VerifiedFlight DEF SuccessOnlyWhenComplete
<1>2. QED
  BY <1>1, InductiveInvariant, PTL

\* A complete flight is read up to the last byte of the handshake epoch and
\* not beyond it.
THEOREM NoOverread == Spec => []NothingOverread
<1>1. InductiveInv => NothingOverread
  <2> SUFFICES ASSUME InductiveInv, exit = "complete"
               PROVE  /\ ~cut
                      /\ \A i \in 1 .. got :
                           script.records[i].type = "application_data" =>
                             script.records[i].key = ServerHandshakeKey
    BY DEF NothingOverread
  <2>1. /\ ParseRecordsOK(accumulated)
        /\ Decodes(accumulated.recs, ServerHandshakeKey, 0)
    BY CompleteFlight DEF InductiveInv, ExitInv, DecodeFlightOK
  <2>2. accumulated = [recs |-> Prefix(got), rest |-> cut]
    BY DEF InductiveInv, FlightIsStreamPrefix
  <2>3. got \in 0 .. Len(script.records)
    BY ScriptShape DEF InductiveInv, TypeOK, ConnTypeOK
  <2>4. /\ Len(Prefix(got)) = got
        /\ \A i \in 1 .. got : Prefix(got)[i] = script.records[i]
    BY <2>3, PrefixType DEF InductiveInv
  <2>5. QED
    BY <2>1, <2>2, <2>4 DEF Decodes, Opens
<1>2. QED
  BY <1>1, InductiveInvariant, PTL

\* The outcome of a good flight does not depend on how it was cut into reads.
THEOREM SegmentationIndependence == Spec => []SegmentationDoesNotMatter
<1>1. InductiveInv => SegmentationDoesNotMatter
  BY DEF InductiveInv
<1>2. QED
  BY <1>1, InductiveInvariant, PTL

\* The read deadline is in force while the flight is read, and only then.
THEOREM DeadlineScope == Spec => []DeadlineScoped
<1>1. InductiveInv => DeadlineScoped
  BY DEF InductiveInv
<1>2. QED
  BY <1>1, InductiveInvariant, PTL

\* The client's Finished and application keys are computed over the messages
\* the server's Finished covers and that Finished, when no handshake message
\* follows it (key.go DeriveTLS13ChaCha20ClientSessionKeys).
THEOREM TranscriptsAgree == Spec => []KeysAgree
BY Agreement, InductiveInvariant, PTL
=============================================================================
