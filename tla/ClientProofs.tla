---------------------------- MODULE ClientProofs ----------------------------
(***************************************************************************)
(* Proofs about Client, for every set of scripts.  The invariant of        *)
(* Handshake is carried through the first phase of the program; what it    *)
(* says of a verified flight is carried through the second, in which the   *)
(* reader of AppData goes on in the stream where the first one stopped.    *)
(***************************************************************************)
EXTENDS Client, SequenceLemmas

HP == INSTANCE HandshakeProofs

-----------------------------------------------------------------------------
(* HP brings the theorems about Handshake, with operators of its own.  They *)
(* are the operators of H, which Client runs, one by one and in layers.     *)

\* The reassembly of messages, the flight and the transcripts.
LEMMA SameStream == \A r : H!HandshakeStream(r) = HP!HandshakeStream(r)
BY Zenon DEF H!HandshakeStream, HP!HandshakeStream, H!Payloads, HP!Payloads,
   H!Collect, HP!Collect, H!FlattenSeq, HP!FlattenSeq

LEMMA SameCollect == \A r : H!CollectOK(r) <=> HP!CollectOK(r)
BY SameStream DEF H!CollectOK, HP!CollectOK

LEMMA SameMessages == \A r : H!Messages(r) = HP!Messages(r)
BY Zenon DEF H!Messages, HP!Messages, H!HandshakeStream, HP!HandshakeStream,
   H!Payloads, HP!Payloads, H!Collect, HP!Collect, H!FlattenSeq, HP!FlattenSeq

LEMMA SamePlaintext == \A b : H!PlaintextRecords(b) = HP!PlaintextRecords(b)
BY Zenon DEF H!PlaintextRecords, HP!PlaintextRecords, H!OfTypes, HP!OfTypes,
   H!Collect, HP!Collect, H!FlattenSeq, HP!FlattenSeq, H!ContentType,
   HP!ContentType

LEMMA SameFlightMessages == \A b : H!FlightMessages(b) = HP!FlightMessages(b)
BY Zenon DEF H!Messages, HP!Messages, H!HandshakeStream, HP!HandshakeStream,
   H!Payloads, HP!Payloads, H!Collect, HP!Collect, H!FlattenSeq,
   HP!FlattenSeq, H!FlightRecords, HP!FlightRecords, H!CiphertextRecords,
   HP!CiphertextRecords, H!OfTypes, HP!OfTypes, H!Decoded, HP!Decoded,
   H!FlightMessages, HP!FlightMessages

LEMMA SameFlightRecords == \A b : H!FlightRecords(b) = HP!FlightRecords(b)
BY Zenon DEF H!FlightRecords, HP!FlightRecords, H!CiphertextRecords,
   HP!CiphertextRecords, H!OfTypes, HP!OfTypes, H!Decoded, HP!Decoded,
   H!Collect, HP!Collect, H!FlattenSeq, HP!FlattenSeq

LEMMA SameFindFirst == \A m, t : H!FindFirst(m, t) = HP!FindFirst(m, t)
BY Zenon DEF H!FindFirst, HP!FindFirst, H!Occurrences, HP!Occurrences, H!Min,
   HP!Min

LEMMA SameOccurrences == \A m, t : H!Occurrences(m, t) = HP!Occurrences(m, t)
BY Zenon DEF H!Occurrences, HP!Occurrences

LEMMA SameParsed == \A b, t : H!Parsed(b, t) = HP!Parsed(b, t)
BY Zenon DEF H!Messages, HP!Messages, H!HandshakeStream, HP!HandshakeStream,
   H!Payloads, HP!Payloads, H!Collect, HP!Collect, H!FlattenSeq,
   HP!FlattenSeq, H!FlightRecords, HP!FlightRecords, H!CiphertextRecords,
   HP!CiphertextRecords, H!OfTypes, HP!OfTypes, H!Decoded, HP!Decoded,
   H!FlightMessages, HP!FlightMessages, H!Parsed, HP!Parsed, H!Occurrences,
   HP!Occurrences

LEMMA SameTranscript ==
  \A b, t : H!TranscriptBefore(b, t) = HP!TranscriptBefore(b, t)
<1> TAKE b, t
<1>1. H!FlightMessages(b) = HP!FlightMessages(b)
  BY SameFlightMessages
<1>2. \A m : H!TypesOf(m) = HP!TypesOf(m)
  BY Zenon DEF H!TypesOf, HP!TypesOf
<1>3. \A m : H!FindFirst(m, t) = HP!FindFirst(m, t)
  BY SameFindFirst
<1>4. QED
  BY <1>1, <1>2, <1>3, Zenon DEF H!TranscriptBefore, HP!TranscriptBefore,
     H!HelloTranscript, HP!HelloTranscript

\* Opening records, and the predicates on a flight.
LEMMA SameCount == \A r, i : H!ProtectedBefore(r, i) = HP!ProtectedBefore(r, i)
BY Zenon DEF H!ProtectedBefore, HP!ProtectedBefore, H!Cardinality,
   HP!Cardinality

LEMMA SameOpens == \A r, k, s : H!Opens(r, k, s) <=> HP!Opens(r, k, s)
BY SMT DEF H!Opens, HP!Opens

LEMMA SameDecodes == \A r, k, s : H!Decodes(r, k, s) <=> HP!Decodes(r, k, s)
BY SameCount, SameOpens DEF H!Decodes, HP!Decodes

LEMMA SameServerMessages ==
  \A r : H!ParsesServerMessages(r) <=> HP!ParsesServerMessages(r)
BY SameMessages, SameOccurrences, SameCollect DEF H!ParsesServerMessages,
   HP!ParsesServerMessages, H!ParsedTypes, HP!ParsedTypes

LEMMA SameHello == \A b : H!ServerHello(b) = HP!ServerHello(b)
BY SameMessages, SamePlaintext, SameFindFirst DEF H!ServerHello,
   HP!ServerHello

LEMMA SameHelloParse ==
  \A b : H!ParseServerHelloOK(b) <=> HP!ParseServerHelloOK(b)
BY SameMessages, SamePlaintext, SameFindFirst, SameHello, SameCollect DEF
   H!ParseServerHelloOK, HP!ParseServerHelloOK

LEMMA SameCompleteness ==
  \A b : H!ServerHandshakeFlightComplete(b) <=> HP!ServerHandshakeFlightComplete(b)
BY SameHelloParse, SameHello, SameParsed, SameDecodes, SameServerMessages,
   SameFlightRecords DEF H!ServerHandshakeFlightComplete,
   HP!ServerHandshakeFlightComplete, H!ParseRecordsOK, HP!ParseRecordsOK,
   H!SharedSecretOK, HP!SharedSecretOK, H!DecodeFlightOK, HP!DecodeFlightOK,
   H!ServerHandshakeKey, HP!ServerHandshakeKey, H!HelloTranscript,
   HP!HelloTranscript

LEMMA SameDecodeFlight == \A b : H!DecodeFlightOK(b) <=> HP!DecodeFlightOK(b)
BY SameDecodes, SameServerMessages, SameFlightRecords DEF H!DecodeFlightOK,
   HP!DecodeFlightOK, H!ServerHandshakeKey, HP!ServerHandshakeKey,
   H!HelloTranscript, HP!HelloTranscript

LEMMA SameChain == \A b : H!ChainOK(b) <=> HP!ChainOK(b)
BY SameParsed DEF H!ChainOK, HP!ChainOK

LEMMA SameSignature ==
  \A b : H!SignatureVerifies(b) <=> HP!SignatureVerifies(b)
BY SameParsed, SameTranscript DEF H!SignatureVerifies, HP!SignatureVerifies

LEMMA SameFinished == \A b : H!FinishedVerifies(b) <=> HP!FinishedVerifies(b)
BY SameParsed, SameTranscript DEF H!FinishedVerifies, HP!FinishedVerifies

LEMMA SameAcceptable == \A b : H!Acceptable(b) <=> HP!Acceptable(b)
BY SameCompleteness, SameChain, SameSignature, SameFinished DEF H!Acceptable,
   HP!Acceptable

LEMMA SameFound ==
  \A b, t : H!TranscriptFound(b, t) <=> HP!TranscriptFound(b, t)
BY Zenon DEF H!Messages, HP!Messages, H!HandshakeStream, HP!HandshakeStream,
   H!Payloads, HP!Payloads, H!Collect, HP!Collect, H!FlattenSeq,
   HP!FlattenSeq, H!FlightRecords, HP!FlightRecords, H!CiphertextRecords,
   HP!CiphertextRecords, H!OfTypes, HP!OfTypes, H!Decoded, HP!Decoded,
   H!FlightMessages, HP!FlightMessages, H!TranscriptFound, HP!TranscriptFound,
   H!Occurrences, HP!Occurrences

LEMMA SameAlert == \A b : H!AlertReceived(b) <=> HP!AlertReceived(b)
BY Zenon DEF H!AlertReceived, HP!AlertReceived

LEMMA SameGoodFlight == H!GoodFlight <=> HP!GoodFlight
BY SameAcceptable, SameCompleteness, SameAlert DEF H!GoodFlight,
   HP!GoodFlight, H!Prefix, HP!Prefix

\* The steps.
LEMMA SameConcat == \A b : H!ConcatOK(b) <=> HP!ConcatOK(b)
BY SameCollect DEF H!ConcatOK, HP!ConcatOK

LEMMA SameWrites ==
  /\ (H!SendClientHello <=> HP!SendClientHello)
  /\ (H!ReadFlight <=> HP!ReadFlight)
  /\ (H!SendFinished <=> HP!SendFinished)
BY SMT DEF H!SendClientHello, HP!SendClientHello, H!ReadFlight, HP!ReadFlight,
   H!SendFinished, HP!SendFinished, H!Write, HP!Write, H!Fail, HP!Fail

LEMMA SameChunk == \A k : H!Chunk(k) = HP!Chunk(k)
BY Zenon DEF H!Chunk, HP!Chunk

LEMMA SameRead == \A k, p : H!ReadReturns(k, p) <=> HP!ReadReturns(k, p)
BY SMT DEF H!ReadReturns, HP!ReadReturns

LEMMA SameReturn == \A h : H!ReturnFlight(h) <=> HP!ReturnFlight(h)
BY SMT DEF H!ReturnFlight, HP!ReturnFlight, H!LeaveReader, HP!LeaveReader

LEMMA SameFail == \A r : H!Fail(r) <=> HP!Fail(r)
BY SMT DEF H!Fail, HP!Fail

LEMMA SameReceive == \A k, p : H!Receive(k, p) <=> HP!Receive(k, p)
BY SameChunk, SameRead, SameReturn, SameFail, SameAlert, SameCompleteness DEF
   H!Receive, HP!Receive, H!LeaveReader, HP!LeaveReader

LEMMA SameGiveUp ==
  /\ (H!ReceiveEOF <=> HP!ReceiveEOF)
  /\ (H!ReceiveTimeout <=> HP!ReceiveTimeout)
  /\ (H!ReceiveError <=> HP!ReceiveError)
BY SMT DEF H!ReceiveEOF, HP!ReceiveEOF, H!ReceiveTimeout, HP!ReceiveTimeout,
   H!ReceiveError, HP!ReceiveError, H!GiveUp, HP!GiveUp, H!ReadAtEOF,
   HP!ReadAtEOF, H!ReadTimesOut, HP!ReadTimesOut, H!ReadFails, HP!ReadFails,
   H!ReturnFlight, HP!ReturnFlight, H!LeaveReader, HP!LeaveReader, H!Fail,
   HP!Fail, H!NoBytes, HP!NoBytes

LEMMA SameSteps ==
  /\ (H!ParseFlight <=> HP!ParseFlight)
  /\ (H!ParseHello <=> HP!ParseHello)
  /\ (H!DeriveSecrets <=> HP!DeriveSecrets)
  /\ (H!DecodeFlight <=> HP!DecodeFlight)
  /\ (H!VerifyChain <=> HP!VerifyChain)
  /\ (H!DeriveSessionKeys <=> HP!DeriveSessionKeys)
BY SameHelloParse, SameHello, SameDecodeFlight, SameChain, SameConcat,
   SameFlightRecords DEF H!ParseFlight, HP!ParseFlight, H!ParseHello,
   HP!ParseHello, H!DeriveSecrets, HP!DeriveSecrets, H!DecodeFlight,
   HP!DecodeFlight, H!VerifyChain, HP!VerifyChain, H!DeriveSessionKeys,
   HP!DeriveSessionKeys, H!Step, HP!Step, H!Fail, HP!Fail, H!connVars,
   HP!connVars, H!ParseRecordsOK, HP!ParseRecordsOK, H!SharedSecretOK,
   HP!SharedSecretOK

LEMMA SameVerifications ==
  /\ (H!VerifyCertificateVerify <=> HP!VerifyCertificateVerify)
  /\ (H!VerifyServerFinished <=> HP!VerifyServerFinished)
BY SameSignature, SameFinished, SameFound, SameParsed DEF
   H!VerifyCertificateVerify, HP!VerifyCertificateVerify,
   H!VerifyServerFinished, HP!VerifyServerFinished, H!VerifyMessage,
   HP!VerifyMessage, H!Fail, HP!Fail, H!connVars, HP!connVars

LEMMA SameClient == H!Client <=> HP!Client
BY SameWrites, SameReceive, SameGiveUp, SameSteps, SameVerifications DEF
   H!Client, HP!Client, H!Read, HP!Read

-----------------------------------------------------------------------------
(* The operators of HP and of A that Client has as well.                    *)

LEMMA SameScript == HP!Script = Script
BY DEF HP!Script, Script, HP!Record, Record, HP!Content, Content, HP!Piece,
   Piece, HP!Message, Message, HP!Key, Key, HP!ContentType, ContentType,
   HP!MessageType, MessageType, HP!Fault, Fault, HP!Transcript,
   Transcript, HP!Epoch, Epoch

LEMMA ScriptsAreHP == Scripts \subseteq HP!Script
BY SameScript, ScriptsAssumption

LEMMA SameBytes == HP!Bytes = Bytes
BY DEF HP!Bytes, Bytes, HP!Record, Record, HP!Content, Content, HP!Piece,
   Piece, HP!Message, Message, HP!Key, Key, HP!ContentType, ContentType,
   HP!MessageType, MessageType, HP!Fault, Fault, HP!Transcript,
   Transcript, HP!Epoch, Epoch

LEMMA SameConnection ==
  /\ (HP!ConnTypeOK <=> ConnTypeOK)
  /\ (HP!ConnInit <=> ConnInit)
  /\ (HP!Environment <=> Environment)
BY SameScript
   DEF HP!ConnTypeOK, ConnTypeOK, HP!ConnInit, ConnInit,
       HP!Environment, Environment, HP!ServerSend, ServerSend, HP!MaySend,
       MaySend, HP!ServerClose, ServerClose, HP!ConnectionReset,
       ConnectionReset, HP!DeadlineExpires, DeadlineExpires

LEMMA SamePrefix == \A n : HP!Prefix(n) = Prefix(n)
BY Zenon DEF HP!Prefix, Prefix

LEMMA SameLabels ==
  /\ HP!Label = H!Label /\ HP!Error = H!Error
  /\ HP!Processing = H!Processing
BY DEF HP!Label, H!Label, HP!Error, H!Error, HP!Processing, H!Processing,
       HP!Terminal, H!Terminal

LEMMA SameParse == \A b, t : HP!Parsed(b, t) = Parsed(b, t)
BY Zenon DEF HP!Parsed, Parsed, HP!FlightMessages, FlightMessages,
   HP!Messages, Messages, HP!HandshakeStream, HandshakeStream,
   HP!Payloads, Payloads, HP!Collect, Collect, HP!FlattenSeq,
   FlattenSeq, HP!FlightRecords, FlightRecords, HP!CiphertextRecords,
   CiphertextRecords, HP!OfTypes, OfTypes, HP!Decoded, Decoded,
   HP!Occurrences, Occurrences

LEMMA SameTypesOf ==
  \A b : HP!TypesOf(HP!FlightMessages(b)) = TypesOf(FlightMessages(b))
BY Zenon DEF HP!TypesOf, TypesOf, HP!FlightMessages, FlightMessages,
   HP!Messages, Messages, HP!HandshakeStream, HandshakeStream,
   HP!Payloads, Payloads, HP!Collect, Collect, HP!FlattenSeq,
   FlattenSeq, HP!FlightRecords, FlightRecords, HP!CiphertextRecords,
   CiphertextRecords, HP!OfTypes, OfTypes, HP!Decoded, Decoded

LEMMA SameSessionTranscript ==
  \A b : HP!SessionTranscript(b) = SessionTranscript(b)
BY SameTypesOf, Zenon DEF HP!SessionTranscript, SessionTranscript,
   HP!HelloTranscript, HelloTranscript

LEMMA SameDataOf ==
  \A r : A!CollectApplicationData(Decoded(A!Extract(r))) = DataOf(r)
BY Zenon DEF A!CollectApplicationData, DataOf, OpenedOf, A!Extract,
   A!Payloads, Payloads, A!Collect, Collect, A!FlattenSeq, FlattenSeq,
   A!OfTypes, OfTypes

LEMMA SameBatchData ==
  \A r : A!CollectApplicationData(A!Decoded(A!Extract(r))) = DataOf(r)
BY Zenon DEF A!CollectApplicationData, DataOf, OpenedOf, A!Extract,
   A!Payloads, Payloads, A!Collect, Collect, A!FlattenSeq, FlattenSeq,
   A!OfTypes, OfTypes, A!Decoded, Decoded

LEMMA SameCounts ==
  \A r, i : A!ProtectedBefore(r, i) = ProtectedBefore(r, i)
BY Zenon DEF A!ProtectedBefore, ProtectedBefore, A!Cardinality, Cardinality

LEMMA SameBatchDecodes ==
  \A r, k, s : A!Decodes(r, k, s) <=> Decodes(r, k, s)
BY SameCounts DEF A!Decodes, Decodes, A!Opens, Opens

LEMMA SameNumber ==
  \A r : A!NumberProtected(r) = ProtectedBefore(r, Len(r) + 1)
BY SameCounts, Zenon DEF A!NumberProtected

LEMMA SameBatch == \A k : A!Chunk(k) = Chunk(k)
BY Zenon DEF A!Chunk, Chunk

-----------------------------------------------------------------------------
(* The inductive invariant.                                                *)

\* The labels at which the handshake runs, or has just returned its keys.
HandshakePhase ==
  {"start", "readFlight", "reading", "done"} \union HP!Processing

\* The labels of the reader of the response and of the print behind it.
ResponsePhase == {"readResponse", "readingResponse", "returned"}

\* The records the second reader has read: those behind the flight.
Response == SubSeq(script.records, Len(accumulated.recs) + 1, got)

\* Before the dial nothing has happened on the connection.
NotStarted ==
  pc = "dial" => ConnInit /\ accumulated = NoBytes /\ exit = "none"

\* In the response phase the flight is the verified one, and the whole burst
\* of a good server; the key is derived from it, and is the server's.
FlightCarried ==
  pc \in ResponsePhase =>
    /\ exit = "complete"
    /\ H!Acceptable(accumulated)
    /\ accumulated = [recs |-> Prefix(Len(accumulated.recs)), rest |-> FALSE]
    /\ Len(accumulated.recs) \in 0 .. got
    /\ key = ServerApplicationKey(accumulated)
    /\ ConformingServer => /\ Len(accumulated.recs) = script.burst
                           /\ \A k \in ServerKeys : k = key

\* The second reader has opened and collected all it has read.
ResponseSoFar ==
  /\ pc = "readResponse" => got = Len(accumulated.recs)
  /\ pc \in {"readingResponse", "returned"} =>
       /\ seq = ProtectedBefore(Response, Len(Response) + 1)
       /\ Decodes(Response, key, 0)
       /\ collected = DataOf(Response)

\* An error ends the program, and so does the print; an error of the print
\* may leave a part of it behind.
ErrorsAtTheEnd ==
  /\ pc \notin {"failed", "exited"} => err = "none"
  /\ output # <<>> => pc = "exited" \/ err = "print"
  /\ pc # "exited" => status = "none"

ClientInv ==
  /\ TypeOK
  /\ DeadlineScoped
  /\ NotStarted
  /\ pc \in HandshakePhase => HP!InductiveInv
  /\ FlightCarried
  /\ ResponseSoFar
  /\ ErrorsAtTheEnd
  /\ OutputIsTheServers
  /\ ConformingServerServed

\* What the invariant says of the stream as a sequence.
LEMMA Stream ==
  ASSUME ConnTypeOK
  PROVE  /\ script.records \in Seq(Record) /\ Len(script.records) \in Nat
         /\ script.burst \in 0 .. Len(script.records)
         /\ sent \in 0 .. Len(script.records) /\ got \in 0 .. sent
         /\ got \in 0 .. Len(script.records)
<1>1. script.records \in Seq(Record) /\ script.burst \in Nat
      /\ script.burst <= Len(script.records)
  BY DEF ConnTypeOK, Script
<1>2. Len(script.records) \in Nat
  BY <1>1, LenProperties
<1>3. QED
  BY <1>1, <1>2 DEF ConnTypeOK

\* Whether the server conforms is said of the script alone.
LEMMA ConformingFixed ==
  ASSUME script' = script
  PROVE  /\ (ConformingServer' <=> ConformingServer)
         /\ (H!GoodFlight' <=> H!GoodFlight)
         /\ ServerKeys' = ServerKeys
<1>1. H!GoodFlight' <=> H!GoodFlight
  BY DEF H!GoodFlight, H!Prefix
<1>2. WholeBurst' = WholeBurst /\ Answer' = Answer
  BY DEF WholeBurst, Prefix, Answer
<1>3. ServerKeys' = ServerKeys
  BY <1>2 DEF ServerKeys
<1>4. FinishedEndsFlight' <=> FinishedEndsFlight
  BY <1>2 DEF FinishedEndsFlight
<1>5. QED
  BY <1>1, <1>2, <1>3, <1>4 DEF ConformingServer

\* What is printed stays what it was, also when the program gives up.
LEMMA OutputKept ==
  ASSUME OutputIsTheServers, UNCHANGED <<script, got, accumulated, output, err>>,
         status' \in {status, "one"}
  PROVE  OutputIsTheServers'
BY DEF OutputIsTheServers, ServerApplicationKey

\* The initial states satisfy the invariant.
LEMMA InitInv == Init => ClientInv
<1> SUFFICES ASSUME Init PROVE ClientInv
  OBVIOUS
<1> USE DEF Init
<1>1. ConnTypeOK
  <2>1. script \in Script
    BY ScriptsAssumption DEF ConnInit
  <2>2. script.records \in Seq(Record)
    BY <2>1 DEF Script
  <2>3. Len(script.records) \in Nat
    BY <2>2, LenProperties
  <2>4. sent \in 0 .. Len(script.records) /\ got \in 0 .. sent
    BY <2>3 DEF ConnInit
  <2>5. QED
    BY <2>1, <2>4 DEF ConnTypeOK, ConnInit
<1>2. accumulated \in Bytes
  <2>1. <<>> \in Seq(Record)
    BY EmptySeq
  <2>2. QED
    BY <2>1, Zenon DEF NoBytes, Bytes
<1>3. key \in Key
  <2>1. <<>> \in Transcript
    BY EmptySeq DEF Transcript
  <2>2. QED
    BY <2>1 DEF NoKey, Key, Epoch
<1>4. collected \in Seq(Data) /\ output \in Seq(Data)
  BY EmptySeq
<1>5. TypeOK
  BY <1>1, <1>2, <1>3, <1>4 DEF TypeOK, H!Error, A!AppError
<1>6. pc \notin HandshakePhase \union ResponsePhase
  BY DEF HandshakePhase, ResponsePhase, HP!Processing
<1>7. QED
  BY <1>5, <1>6 DEF ClientInv, DeadlineScoped, ConnInit, NotStarted,
     FlightCarried, ResponseSoFar, ResponsePhase, ErrorsAtTheEnd,
     OutputIsTheServers, ConformingServerServed

-----------------------------------------------------------------------------
(* The handshake.                                                          *)

\* The handshake runs at its own labels, does not touch the script, sets an
\* error only where it fails, and writes at two of its steps.
LEMMA HandshakeRuns ==
  ASSUME HP!Client
  PROVE  /\ pc \in {"start", "readFlight", "reading"} \union HP!Processing
         /\ pc' = "failed" \/ err' = err
         /\ script' = script
         /\ written' # written => pc \in {"start", "sendFinished"}
<1> DEFINE Goal ==
      /\ pc \in {"start", "readFlight", "reading"} \union HP!Processing
      /\ pc' = "failed" \/ err' = err
      /\ script' = script
      /\ written' # written => pc \in {"start", "sendFinished"}
<1>1. HP!SendClientHello \/ HP!ReadFlight \/ HP!SendFinished => Goal
  BY DEF HP!SendClientHello, HP!ReadFlight, HP!SendFinished, HP!Fail,
         HP!Processing
<1>2. ASSUME NEW k \in 0 .. (sent - got), NEW partial \in BOOLEAN,
             HP!Receive(k, partial)
      PROVE  Goal
  BY <1>2 DEF HP!Receive, HP!Fail, HP!ReturnFlight
<1>3. HP!ReceiveEOF \/ HP!ReceiveTimeout \/ HP!ReceiveError => Goal
  BY DEF HP!ReceiveEOF, HP!ReceiveTimeout, HP!ReceiveError, HP!GiveUp,
         HP!Fail, HP!ReturnFlight
<1>4. HP!ParseFlight \/ HP!ParseHello \/ HP!DeriveSecrets => Goal
  BY DEF HP!ParseFlight, HP!ParseHello, HP!DeriveSecrets, HP!Step, HP!Fail,
         HP!connVars, HP!Processing
<1>5. HP!DecodeFlight \/ HP!VerifyChain \/ HP!DeriveSessionKeys => Goal
  BY DEF HP!DecodeFlight, HP!VerifyChain, HP!DeriveSessionKeys, HP!Step,
         HP!Fail, HP!connVars, HP!Processing
<1>6. HP!VerifyCertificateVerify \/ HP!VerifyServerFinished => Goal
  BY DEF HP!VerifyCertificateVerify, HP!VerifyServerFinished,
         HP!VerifyMessage, HP!Fail, HP!connVars, HP!Processing
<1>7. QED
  BY <1>1, <1>2, <1>3, <1>4, <1>5, <1>6 DEF HP!Client, HP!Read

\* What the invariant of Handshake says of types, in the terms of Client.
HandshakeTypes ==
  /\ ConnTypeOK /\ accumulated \in Bytes
  /\ exit \in {"none", "complete", "eof", "timeout"}
  /\ pc \in H!Label /\ err \in H!Error
  /\ pc # "panicked"
  /\ deadline = "off" <=> pc # "reading"

LEMMA HandshakeTyped == HP!InductiveInv => HandshakeTypes
BY SameConnection, SameBytes, SameLabels
   DEF HandshakeTypes, HP!InductiveInv, HP!TypeOK, HP!NoNilDereference, HP!DeadlineScoped

LEMMA HandshakeStep ==
  ASSUME HP!InductiveInv,
         HP!Client \/ (Environment /\ UNCHANGED <<pc, accumulated, exit, err>>)
  PROVE  HP!InductiveInv'
<1>1. HP!InductiveInv /\ [HP!Next]_(HP!vars) => HP!InductiveInv'
  BY ScriptsAreHP, HP!StepInv
<1>2. HP!Next
  BY SameConnection DEF HP!Next, HP!Network, HP!hsVars
<1>3. QED
  BY <1>1, <1>2

LEMMA HandshakeInit == HP!Init => HP!InductiveInv
BY ScriptsAreHP, HP!InitInv

\* A step of the handshake keeps the invariant of the program.
LEMMA DoHandshakeInv ==
  ASSUME ClientInv, DoHandshake PROVE ClientInv'
<1>1. /\ HP!Client /\ UNCHANGED <<key, seq, collected, decoded, output, status>>
  BY SameClient DEF DoHandshake, appOnly, runVars
<1>2. /\ pc \in {"start", "readFlight", "reading"} \union HP!Processing
      /\ pc' = "failed" \/ err' = err
      /\ script' = script
  BY <1>1, HandshakeRuns
<1>3. HP!InductiveInv
  BY <1>2 DEF ClientInv, HandshakePhase
<1>4. HP!InductiveInv'
  BY <1>1, <1>3, HandshakeStep
<1>5. /\ ConnTypeOK' /\ accumulated' \in Bytes
      /\ exit' \in {"none", "complete", "eof", "timeout"}
      /\ pc' \in H!Label /\ err' \in H!Error
      /\ pc' # "panicked"
      /\ deadline' = "off" <=> pc' # "reading"
  <2>1. HandshakeTypes'
    BY <1>4, HandshakeTyped, PTL
  <2>2. QED
    BY <2>1 DEF HandshakeTypes
<1>6. TypeOK'
  BY <1>1, <1>5 DEF ClientInv, TypeOK
<1>7. /\ pc' \notin ResponsePhase \union {"dial", "exited"}
      /\ pc' \in {"failed"} \union HandshakePhase
  BY <1>5, SameLabels DEF H!Label, H!Terminal, H!Processing, HP!Processing,
     ResponsePhase, HandshakePhase
<1>8. DeadlineScoped'
  BY <1>5, <1>7 DEF DeadlineScoped, ResponsePhase
<1>9. output = <<>> /\ status = "none" /\ err = "none"
  BY <1>2 DEF ClientInv, ErrorsAtTheEnd, HP!Processing
<1>10. ErrorsAtTheEnd' /\ OutputIsTheServers'
  BY <1>1, <1>2, <1>9 DEF ErrorsAtTheEnd, OutputIsTheServers
<1>11. ConformingServerServed'
  <2>1. CASE pc' # "failed"
    BY <1>2, <1>9, <2>1 DEF ConformingServerServed
  <2>2. CASE pc' = "failed"
    <3>1. SUFFICES ASSUME ConformingServer'
                   PROVE  \/ err' \in {"local", "print", "write", "eof", "timeout",
                                       "reset"}
                          \/ exit' \in {"eof", "timeout"}
      BY DEF ConformingServerServed
    <3>2. HP!GoodFlight
      BY <1>2, <3>1, ConformingFixed, SameGoodFlight DEF ConformingServer
    <3>3. QED
      BY <1>1, <1>3, <1>4, <2>2, <3>2, ScriptsAreHP, HP!FailureExplained
  <2>3. QED
    BY <2>1, <2>2
<1>12. NotStarted' /\ FlightCarried' /\ ResponseSoFar'
  BY <1>7 DEF NotStarted, FlightCarried, ResponseSoFar, ResponsePhase
<1>13. QED
  BY <1>4, <1>6, <1>8, <1>10, <1>11, <1>12 DEF ClientInv

\* The dial calls the handshake on a fresh connection, or fails.
LEMMA DialInv ==
  ASSUME ClientInv, Dial PROVE ClientInv'
<1>1. /\ pc = "dial" /\ pc' \in {"start", "failed"}
      /\ pc' = "start" => err' = err
      /\ pc' = "failed" => err' = "local"
      /\ UNCHANGED <<script, sent, got, cut, written, peer, deadline>>
      /\ UNCHANGED <<accumulated, exit, key, seq, collected, decoded, output,
                     status>>
  BY DEF Dial, connVars, hsOnly, appOnly, runVars
<1>2. err = "none" /\ output = <<>> /\ status = "none"
  BY <1>1 DEF ClientInv, ErrorsAtTheEnd
<1>3. TypeOK' /\ DeadlineScoped'
  BY <1>1, <1>2 DEF ClientInv, TypeOK, ConnTypeOK, DeadlineScoped, H!Label,
     H!Terminal, H!Error
<1>4. pc' = "start" => HP!InductiveInv'
  <2> SUFFICES ASSUME pc' = "start" PROVE HP!InductiveInv'
    OBVIOUS
  <2>1. ConnInit /\ accumulated = NoBytes /\ exit = "none"
    BY <1>1 DEF ClientInv, NotStarted
  <2>2. HP!Init'
    BY <1>1, <1>2, <2>1
       DEF HP!Init, HP!ConnInit, ConnInit, HP!NoBytes, NoBytes
  <2>3. QED
    BY <2>2, HandshakeInit, PTL
<1>5. pc' \in HandshakePhase => pc' = "start"
  BY <1>1 DEF HandshakePhase, HP!Processing
<1>6. QED
  BY <1>1, <1>2, <1>3, <1>4, <1>5
     DEF ClientInv, NotStarted, FlightCarried, ResponseSoFar, ResponsePhase,
         ErrorsAtTheEnd, OutputIsTheServers, ConformingServerServed

-----------------------------------------------------------------------------
(* The request.                                                            *)

\* A transcript is a sequence of message types, so that the key is a key.
LEMMA KeyType ==
  ASSUME NEW bytes \in Bytes PROVE ServerApplicationKey(bytes) \in Key
<1>1. bytes.recs \in Seq(Record)
  BY Zenon DEF Bytes
<1>2. FlightMessages(bytes) = Messages(OpenedOf(bytes.recs))
  BY Zenon DEF FlightMessages, FlightRecords, CiphertextRecords, OpenedOf
<1>3. FlightMessages(bytes) \in Seq(Message)
  BY <1>1, <1>2, FlightMessagesType, Zenon
<1>4. TypesOf(FlightMessages(bytes)) \in Seq(MessageType)
  <2> DEFINE M == FlightMessages(bytes)
  <2> HIDE DEF M
  <2>1. M \in Seq(Message) /\ Len(M) \in Nat
    BY <1>3, LenProperties DEF M
  <2>2. ASSUME NEW i \in 1 .. Len(M) PROVE M[i].type \in MessageType
    <3>1. M[i] \in Message
      BY <2>1, ElementOfSeq
    <3>2. QED
      BY <3>1, Zenon DEF Message
  <2>3. TypesOf(M) \in Seq(MessageType)
    BY <2>1, <2>2 DEF TypesOf
  <2>4. QED
    BY <2>3 DEF M
<1>5. HelloTranscript \in Seq(MessageType)
  BY DEF HelloTranscript, MessageType
<1>6. SessionTranscript(bytes) \in Transcript
  BY <1>4, <1>5, ConcatProperties DEF SessionTranscript, Transcript
<1>7. QED
  BY <1>6 DEF ServerApplicationKey, Key, Epoch

\* What a handshake that is done hands over to the rest of the program.
LEMMA HandshakeDone ==
  ASSUME HP!InductiveInv, pc = "done"
  PROVE  /\ exit = "complete"
         /\ H!Acceptable(accumulated)
         /\ accumulated = [recs |-> Prefix(got), rest |-> FALSE]
         /\ Len(accumulated.recs) = got
         /\ ConformingServer =>
              /\ got = script.burst
              /\ \A k \in ServerKeys : k = ServerApplicationKey(accumulated)
<1>1. exit = "complete" /\ HP!Acceptable(accumulated)
  BY ScriptsAreHP, HP!VerifiedFlight
<1>2. accumulated = [recs |-> Prefix(got), rest |-> cut]
  BY SamePrefix DEF HP!InductiveInv, HP!FlightIsStreamPrefix
<1>3. ~accumulated.rest
  BY <1>1 DEF HP!Acceptable, HP!ServerHandshakeFlightComplete,
     HP!ParseRecordsOK
<1>4. ConnTypeOK
  BY HandshakeTyped DEF HandshakeTypes
<1>5. accumulated = [recs |-> Prefix(got), rest |-> FALSE]
  BY <1>2, <1>3, <1>4 DEF ConnTypeOK
<1>6. Len(accumulated.recs) = got
  <2>1. Len(HP!Prefix(got)) = got
    <3>1. got \in 0 .. Len(script.records) /\ HP!TypeOK
      BY <1>4, Stream DEF HP!InductiveInv
    <3>2. QED
      BY <3>1, ScriptsAreHP, HP!PrefixType
  <2>2. QED
    BY <1>2, <2>1, SamePrefix
<1>7. ASSUME ConformingServer
      PROVE  /\ got = script.burst
             /\ \A k \in ServerKeys : k = ServerApplicationKey(accumulated)
  <2>1. HP!GoodFlight /\ FinishedEndsFlight
    BY <1>7, SameGoodFlight DEF ConformingServer
  <2>2. got = script.burst
    BY <1>1, <2>1, ScriptsAreHP, HP!CompleteIsWhole
  <2>3. WholeBurst = accumulated
    BY <1>5, <2>2 DEF WholeBurst
  <2>4. LET types == HP!TypesOf(HP!FlightMessages(accumulated))
        IN  types[Len(types)] = "finished"
    BY <2>1, <2>3, SameTypesOf, Zenon DEF FinishedEndsFlight
  <2>5. \A finished \in HP!Parsed(accumulated, "finished") :
          HP!SessionTranscript(accumulated) = Append(finished.covers, "finished")
    BY <2>4, ScriptsAreHP, HP!OneTranscript
  <2>6. \A finished \in Parsed(WholeBurst, "finished") :
          SessionTranscript(accumulated) = Append(finished.covers, "finished")
    BY <2>3, <2>5, SameParse, SameSessionTranscript, Zenon
  <2>7. QED
    BY <2>2, <2>6, Zenon DEF ServerKeys, ServerApplicationKey
<1>8. QED
  BY <1>1, <1>5, <1>6, <1>7, SameAcceptable

\* The request goes out under the keys of the flight, or the program fails.
LEMMA SendRequestInv ==
  ASSUME ClientInv, SendRequest PROVE ClientInv'
<1>1. /\ pc = "done" /\ pc' \in {"readResponse", "failed"}
      /\ pc' = "readResponse" =>
           err' = err /\ key' = ServerApplicationKey(accumulated)
      /\ pc' = "failed" => err' \in {"local", "write"} /\ key' = key
      /\ written' \in {written, written + 1}
      /\ UNCHANGED <<script, sent, got, cut, peer, deadline, accumulated, exit,
                     seq, collected, decoded, output, status>>
  BY DEF SendRequest, Write, hsOnly, runVars
<1>2. /\ TypeOK /\ HP!InductiveInv /\ err = "none" /\ output = <<>>
      /\ status = "none" /\ deadline = "off"
  BY <1>1 DEF ClientInv, ErrorsAtTheEnd, HandshakePhase, DeadlineScoped
<1>3. key' \in Key
  BY <1>1, <1>2, KeyType DEF TypeOK
<1>4. TypeOK'
  BY <1>1, <1>2, <1>3 DEF TypeOK, ConnTypeOK, H!Label, H!Terminal, H!Error,
     A!AppLabel
<1>5. pc' \notin HandshakePhase /\ pc' # "dial"
  BY <1>1 DEF HandshakePhase, HP!Processing
<1>6. FlightCarried'
  <2> SUFFICES ASSUME pc' = "readResponse" PROVE FlightCarried'
    BY <1>1 DEF FlightCarried, ResponsePhase
  <2>1. /\ exit = "complete"
        /\ H!Acceptable(accumulated)
        /\ accumulated = [recs |-> Prefix(got), rest |-> FALSE]
        /\ Len(accumulated.recs) = got
        /\ ConformingServer =>
             /\ got = script.burst
             /\ \A k \in ServerKeys : k = ServerApplicationKey(accumulated)
    BY <1>1, <1>2, HandshakeDone
  <2>2. got \in 0 .. got
    BY <1>2 DEF TypeOK, ConnTypeOK
  <2>3. /\ ConformingServer' <=> ConformingServer
        /\ ServerKeys' = ServerKeys
    BY <1>1, ConformingFixed
  <2>4. Prefix(Len(accumulated.recs))' = Prefix(got)
    BY <1>1, <2>1 DEF Prefix
  <2>5. QED
    BY <1>1, <2>1, <2>2, <2>3, <2>4 DEF FlightCarried, ServerApplicationKey
<1>7. ResponseSoFar'
  <2>1. Len(accumulated.recs) = got
    BY <1>1, <1>2, HandshakeDone
  <2>2. QED
    BY <1>1, <2>1 DEF ResponseSoFar
<1>8. QED
  BY <1>1, <1>2, <1>4, <1>5, <1>6, <1>7
     DEF ClientInv, DeadlineScoped, NotStarted, ErrorsAtTheEnd,
         OutputIsTheServers, ConformingServerServed

-----------------------------------------------------------------------------
(* The response.                                                           *)

\* A step that stays behind the flight keeps what the flight carries.
LEMMA FlightKept ==
  ASSUME FlightCarried, pc \in ResponsePhase,
         UNCHANGED <<script, accumulated, exit, key>>,
         ConnTypeOK, ConnTypeOK', got <= got'
  PROVE  FlightCarried'
<1>1. /\ ConformingServer' <=> ConformingServer
      /\ ServerKeys' = ServerKeys
  BY ConformingFixed
<1>2. \A n \in 0 .. got : n \in 0 .. got'
  BY DEF ConnTypeOK
<1>3. QED
  BY <1>1, <1>2 DEF FlightCarried, Prefix, ServerApplicationKey

\* The response is a part of the stream.
LEMMA ResponseShape ==
  ASSUME ConnTypeOK, FlightCarried, pc \in ResponsePhase,
         NEW n \in got .. Len(script.records)
  PROVE  /\ Len(accumulated.recs) \in 0 .. Len(script.records)
         /\ Response \in Seq(Record)
         /\ Len(Response) = got - Len(accumulated.recs)
         /\ SubSeq(script.records, got + 1, n) \in Seq(Record)
         /\ SubSeq(script.records, Len(accumulated.recs) + 1, n)
              = Response \o SubSeq(script.records, got + 1, n)
<1> DEFINE a == Len(accumulated.recs)
<1>1. a \in 0 .. got
  BY DEF FlightCarried
<1> HIDE DEF a
<1>2. /\ script.records \in Seq(Record) /\ Len(script.records) \in Nat
      /\ got \in 0 .. Len(script.records)
  BY Stream
<1>3. a \in 0 .. Len(script.records) /\ got \in a .. Len(script.records)
  BY <1>1, <1>2
<1>4. /\ SubSeq(script.records, a + 1, got) \in Seq(Record)
      /\ Len(SubSeq(script.records, a + 1, got)) = got - a
      /\ SubSeq(script.records, got + 1, n) \in Seq(Record)
      /\ SubSeq(script.records, a + 1, n)
           = SubSeq(script.records, a + 1, got)
               \o SubSeq(script.records, got + 1, n)
  BY <1>2, <1>3, MiddlePartsJoin
<1>5. QED
  BY <1>3, <1>4 DEF a, Response

\* The reader is called: it has read nothing behind the flight.
LEMMA StartReadingInv ==
  ASSUME ClientInv, A!StartReading, UNCHANGED <<accumulated, exit, output, status>>
  PROVE  ClientInv'
<1>1. /\ pc = "readResponse" /\ pc' \in {"readingResponse", "failed"}
      /\ seq' = 0 /\ collected' = <<>> /\ decoded' = 0
      /\ pc' = "readingResponse" => deadline' = "armed" /\ err' = err
      /\ pc' = "failed" => deadline' = deadline /\ err' = "local"
      /\ UNCHANGED <<script, sent, got, cut, written, peer, key>>
  BY DEF A!StartReading, A!Fail
<1>2. /\ TypeOK /\ ConnTypeOK /\ FlightCarried /\ pc \in ResponsePhase
      /\ err = "none" /\ output = <<>> /\ got = Len(accumulated.recs)
      /\ status = "none" /\ deadline = "off"
  BY <1>1 DEF ClientInv, TypeOK, ErrorsAtTheEnd, ResponsePhase, ResponseSoFar,
     DeadlineScoped
<1>3. <<>> \in Seq(Data)
  BY EmptySeq
<1>4. ConnTypeOK'
  BY <1>1, <1>2 DEF ConnTypeOK
<1>5. TypeOK'
  BY <1>1, <1>2, <1>3, <1>4 DEF TypeOK, H!Label, H!Terminal, H!Error, A!AppLabel
<1>6. got \in Nat
  BY <1>2 DEF ConnTypeOK
<1>7. FlightCarried'
  BY <1>1, <1>2, <1>4, <1>6, FlightKept
<1>8. ResponseSoFar'
  <2>1. Response' = <<>>
    <3>1. Response' = SubSeq(script.records, got + 1, got)
      BY <1>1, <1>2 DEF Response
    <3>2. QED
      BY <1>6, <3>1, SubSeqEmpty
  <2>2. ProtectedBefore(<<>>, Len(<<>>) + 1) = 0
    BY NothingBefore, EmptySeq
  <2>3. Decodes(<<>>, key, 0)
    BY EmptySeq DEF Decodes
  <2>4. DataOf(<<>>) = <<>>
    BY NothingCollected
  <2>5. QED
    BY <1>1, <2>1, <2>2, <2>3, <2>4 DEF ResponseSoFar
<1>9. pc' \notin HandshakePhase /\ pc' # "dial"
  BY <1>1 DEF HandshakePhase, HP!Processing
<1>10. QED
  BY <1>1, <1>2, <1>5, <1>7, <1>8, <1>9
     DEF ClientInv, DeadlineScoped, NotStarted, ErrorsAtTheEnd,
         OutputIsTheServers, ConformingServerServed

\* What the reader has with one batch more.
LEMMA NextBatch ==
  ASSUME ClientInv, pc = "readingResponse", NEW k \in 0 .. (sent - got)
  PROVE  /\ got + k \in 0 .. sent
         /\ Chunk(k) \in Seq(Record)
         /\ ProtectedBefore(Chunk(k), Len(Chunk(k)) + 1) \in Nat
         /\ DataOf(Chunk(k)) \in Seq(Data)
         /\ LET next == SubSeq(script.records, Len(accumulated.recs) + 1, got + k)
            IN  /\ next \in Seq(Record)
                /\ seq + ProtectedBefore(Chunk(k), Len(Chunk(k)) + 1)
                     = ProtectedBefore(next, Len(next) + 1)
                /\ Decodes(next, key, 0) <=> Decodes(Chunk(k), key, seq)
                /\ collected \o DataOf(Chunk(k)) = DataOf(next)
<1>1. /\ ConnTypeOK /\ FlightCarried /\ pc \in ResponsePhase
      /\ seq = ProtectedBefore(Response, Len(Response) + 1)
      /\ Decodes(Response, key, 0)
      /\ collected = DataOf(Response)
  BY DEF ClientInv, TypeOK, ResponsePhase, ResponseSoFar
<1>2. got \in Nat /\ k \in Nat /\ got + k \in 0 .. sent
      /\ got + k \in got .. Len(script.records)
  BY <1>1, Stream
<1>3. /\ Response \in Seq(Record) /\ Chunk(k) \in Seq(Record)
      /\ SubSeq(script.records, Len(accumulated.recs) + 1, got + k)
           = Response \o Chunk(k)
  BY <1>1, <1>2, ResponseShape DEF Chunk
<1> DEFINE r == Response
           c == Chunk(k)
<1> HIDE DEF r, c
<1>4. /\ r \in Seq(Record) /\ c \in Seq(Record)
      /\ Len(r) \in Nat /\ Len(c) \in Nat /\ Len(r \o c) = Len(r) + Len(c)
  BY <1>3, PartsOfConcat DEF r, c
<1>5. r \o c \in Seq(Record)
  BY <1>4, ConcatProperties
<1>6. /\ ProtectedBefore(r, Len(r) + 1) \in Nat
      /\ ProtectedBefore(c, Len(c) + 1) \in Nat
  BY <1>4, CountIsCardinality
<1>7. ProtectedBefore(r \o c, Len(r \o c) + 1)
        = ProtectedBefore(r, Len(r) + 1) + ProtectedBefore(c, Len(c) + 1)
  <2>1. Len(c) \in 0 .. Len(c)
    BY <1>4
  <2>2. ProtectedBefore(r \o c, Len(r) + Len(c) + 1)
          = ProtectedBefore(r, Len(r) + 1) + ProtectedBefore(c, Len(c) + 1)
    BY <1>4, <2>1, CountsJoin
  <2>3. QED
    BY <1>4, <2>2
<1>8. seq = ProtectedBefore(r, Len(r) + 1) /\ Decodes(r, key, 0)
      /\ collected = DataOf(r)
  BY <1>1 DEF r
<1>9. Decodes(r \o c, key, 0) <=> Decodes(c, key, seq)
  <2>1. PICK zero \in Nat : zero = 0
    OBVIOUS
  <2>2. DecodesJoin(r, c, key, zero)
    BY <1>4, DecodesConcat, Zenon
  <2>3. zero + ProtectedBefore(r, Len(r) + 1) = seq
    BY <1>6, <1>8, <2>1
  <2>4. QED
    BY <1>8, <2>1, <2>2, <2>3 DEF DecodesJoin
<1>10. DataOf(r) \o DataOf(c) = DataOf(r \o c) /\ DataOf(c) \in Seq(Data)
  <2>1. DataOfJoin(r, c)
    BY <1>4, DataOfConcat, Zenon
  <2>2. DataOf(c) \in Seq(Data)
    BY <1>4, DataOfType, Zenon
  <2>3. QED
    BY <2>1, <2>2, Zenon DEF DataOfJoin
<1>11. /\ seq + ProtectedBefore(c, Len(c) + 1)
            = ProtectedBefore(r \o c, Len(r \o c) + 1)
       /\ collected \o DataOf(c) = DataOf(r \o c)
  BY <1>7, <1>8, <1>10
<1>12. SubSeq(script.records, Len(accumulated.recs) + 1, got + k) = r \o c
  BY <1>3 DEF r, c
<1>13. QED
  BY <1>2, <1>4, <1>5, <1>6, <1>9, <1>10, <1>11, <1>12, Zenon DEF c

\* A batch that opens is collected behind those before it.
LEMMA CollectBatchInv ==
  ASSUME ClientInv, NEW k \in 0 .. (sent - got), NEW partial \in BOOLEAN,
         pc = "readingResponse", A!ReadReturns(k, partial),
         A!CollectBatch(A!Chunk(k)),
         UNCHANGED <<script, sent, written, peer, key>>,
         UNCHANGED <<accumulated, exit, output, status>>
  PROVE  ClientInv'
<1> DEFINE next == SubSeq(script.records, Len(accumulated.recs) + 1, got + k)
<1>1. /\ got' = got + k /\ cut' = partial
      /\ Decodes(Chunk(k), key, seq)
      /\ seq' = seq + ProtectedBefore(Chunk(k), Len(Chunk(k)) + 1)
      /\ decoded' = decoded + ProtectedBefore(Chunk(k), Len(Chunk(k)) + 1)
      /\ collected' = collected \o DataOf(Chunk(k))
      /\ UNCHANGED <<pc, err, deadline>>
  BY SameBatch, SameBatchDecodes, SameBatchData, SameNumber
     DEF A!ReadReturns, A!CollectBatch, A!NextSeq
<1>2. /\ TypeOK /\ ConnTypeOK /\ FlightCarried /\ pc \in ResponsePhase
      /\ err = "none" /\ output = <<>> /\ status = "none"
  BY DEF ClientInv, TypeOK, ErrorsAtTheEnd, ResponsePhase
<1>3. /\ got + k \in 0 .. sent
      /\ ProtectedBefore(Chunk(k), Len(Chunk(k)) + 1) \in Nat
      /\ DataOf(Chunk(k)) \in Seq(Data)
      /\ seq + ProtectedBefore(Chunk(k), Len(Chunk(k)) + 1)
           = ProtectedBefore(next, Len(next) + 1)
      /\ Decodes(next, key, 0) <=> Decodes(Chunk(k), key, seq)
      /\ collected \o DataOf(Chunk(k)) = DataOf(next)
  BY NextBatch
<1>4. ConnTypeOK'
  BY <1>1, <1>2, <1>3 DEF ConnTypeOK
<1>5. collected' \in Seq(Data)
  BY <1>1, <1>2, <1>3, ConcatProperties DEF TypeOK
<1>6. TypeOK'
  <2>1. seq' \in Nat /\ decoded' \in Nat
    <3>1. seq \in Nat /\ decoded \in Nat
      BY <1>2 DEF TypeOK
    <3>2. \A n \in Nat : seq + n \in Nat /\ decoded + n \in Nat
      BY <3>1
    <3>3. QED
      BY <1>1, <1>3, <3>2
  <2>2. QED
    BY <1>1, <1>2, <1>4, <1>5, <2>1 DEF TypeOK
<1>7. FlightCarried'
  <2>1. got <= got'
    BY <1>1, <1>2 DEF ConnTypeOK
  <2>2. QED
    BY <1>1, <1>2, <1>4, <2>1, FlightKept
<1>8. ResponseSoFar'
  <2>1. Response' = next
    BY <1>1 DEF Response
  <2> HIDE DEF next
  <2>2. QED
    BY <1>1, <1>3, <2>1 DEF ResponseSoFar
<1>9. QED
  BY <1>1, <1>2, <1>6, <1>7, <1>8
     DEF ClientInv, DeadlineScoped, NotStarted, ErrorsAtTheEnd,
         OutputIsTheServers, ConformingServerServed, HandshakePhase,
         HP!Processing

\* The answer of a conforming server opens, batch by batch.
LEMMA AnswerOpens ==
  ASSUME ClientInv, ConformingServer, pc = "readingResponse",
         NEW k \in 0 .. (sent - got)
  PROVE  Decodes(Chunk(k), key, seq)
<1> DEFINE next == SubSeq(script.records, Len(accumulated.recs) + 1, got + k)
           rest == SubSeq(script.records, got + k + 1, Len(script.records))
<1>1. /\ ConnTypeOK /\ Len(accumulated.recs) = script.burst
      /\ \A other \in ServerKeys : other = key
      /\ Len(accumulated.recs) \in 0 .. got
  BY DEF ClientInv, TypeOK, FlightCarried, ResponsePhase
<1>2. PICK answered \in ServerKeys : Decodes(Answer, answered, 0)
  BY DEF ConformingServer
<1>3. Decodes(Answer, key, 0)
  BY <1>1, <1>2
<1>4. /\ script.records \in Seq(Record) /\ Len(script.records) \in Nat
      /\ script.burst \in 0 .. Len(script.records)
      /\ got + k \in script.burst .. Len(script.records)
      /\ Len(script.records) \in got + k .. Len(script.records)
  BY <1>1, Stream
<1>5. /\ next \in Seq(Record) /\ rest \in Seq(Record)
      /\ Answer = next \o rest
  <2>1. /\ SubSeq(script.records, script.burst + 1, got + k) \in Seq(Record)
        /\ rest \in Seq(Record)
        /\ Answer = SubSeq(script.records, script.burst + 1, got + k) \o rest
    BY <1>4, MiddlePartsJoin DEF Answer
  <2>2. QED
    BY <1>1, <2>1
<1>6. Decodes(next, key, 0) <=> Decodes(Chunk(k), key, seq)
  BY NextBatch
<1> HIDE DEF next, rest
<1>7. PICK zero \in Nat : zero = 0
  OBVIOUS
<1>8. DecodesJoin(next, rest, key, zero)
  BY <1>5, DecodesConcat, Zenon
<1>9. Decodes(next, key, 0)
  BY <1>3, <1>5, <1>7, <1>8, Zenon DEF DecodesJoin
<1>10. QED
  BY <1>6, <1>9

\* A batch is refused only when the server does not conform.
LEMMA RejectBatchInv ==
  ASSUME ClientInv, NEW k \in 0 .. (sent - got), NEW partial \in BOOLEAN,
         pc = "readingResponse", A!ReadReturns(k, partial),
         A!RejectBatch(A!Chunk(k)),
         UNCHANGED <<script, sent, written, peer, key>>,
         UNCHANGED <<accumulated, exit, output, status>>
  PROVE  ClientInv'
<1>1. /\ got' = got + k /\ cut' = partial
      /\ ~Decodes(Chunk(k), key, seq)
      /\ pc' = "failed" /\ err' = "decode" /\ deadline' = "off"
      /\ UNCHANGED <<seq, collected, decoded>>
  BY SameBatch, SameBatchDecodes
     DEF A!ReadReturns, A!RejectBatch, A!Fail, A!LeaveReader
<1>2. /\ TypeOK /\ ConnTypeOK /\ output = <<>> /\ status = "none"
      /\ got + k \in 0 .. sent
  BY NextBatch DEF ClientInv, TypeOK, ErrorsAtTheEnd
<1>3. ConnTypeOK'
  BY <1>1, <1>2 DEF ConnTypeOK
<1>4. TypeOK'
  BY <1>1, <1>2, <1>3 DEF TypeOK, A!AppLabel, A!AppError
<1>5. ~ConformingServer /\ ~ConformingServer'
  BY <1>1, AnswerOpens, ConformingFixed
<1>6. QED
  BY <1>1, <1>2, <1>4, <1>5
     DEF ClientInv, DeadlineScoped, NotStarted, FlightCarried, ResponsePhase,
         ResponseSoFar, ErrorsAtTheEnd, OutputIsTheServers,
         ConformingServerServed, HandshakePhase, HP!Processing

\* The reader returns with what it has, or fails for a reason of the network.
LEMMA EndResponseInv ==
  ASSUME ClientInv,
         A!ResponseAtEOF \/ A!ResponseTimesOut \/ A!ResponseFails,
         UNCHANGED <<accumulated, exit, output, status>>
  PROVE  ClientInv'
<1>1. /\ pc = "readingResponse" /\ deadline' = "off"
      /\ \/ pc' = "returned" /\ err' = err
         \/ pc' = "failed" /\ err' \in {"eof", "timeout", "reset"}
      /\ UNCHANGED <<script, sent, got, cut, written, peer, key, seq, collected,
                     decoded>>
  BY DEF A!ResponseAtEOF, A!ResponseTimesOut, A!ResponseFails, A!EndResponse,
         A!Fail, A!LeaveReader
<1>2. /\ TypeOK /\ ConnTypeOK /\ FlightCarried /\ pc \in ResponsePhase
      /\ err = "none" /\ output = <<>> /\ status = "none"
  BY <1>1 DEF ClientInv, TypeOK, ErrorsAtTheEnd, ResponsePhase
<1>3. ConnTypeOK'
  BY <1>1, <1>2 DEF ConnTypeOK
<1>4. TypeOK'
  BY <1>1, <1>2, <1>3 DEF TypeOK, A!AppLabel, A!AppError
<1>5. FlightCarried'
  <2>1. got <= got'
    BY <1>1, <1>2 DEF ConnTypeOK
  <2>2. QED
    BY <1>1, <1>2, <1>3, <2>1, FlightKept
<1>6. ResponseSoFar'
  BY <1>1 DEF ClientInv, ResponseSoFar, Response
<1>7. QED
  BY <1>1, <1>2, <1>4, <1>5, <1>6
     DEF ClientInv, DeadlineScoped, NotStarted, ErrorsAtTheEnd,
         OutputIsTheServers, ConformingServerServed, HandshakePhase,
         HP!Processing

\* The reader of the response, whatever its step.
LEMMA ReadResponseInv ==
  ASSUME ClientInv, ReadResponse PROVE ClientInv'
<1>1. A!Reader /\ UNCHANGED <<accumulated, exit, output, status>>
  BY DEF ReadResponse, hsOnly, runVars
<1>2. ASSUME NEW k \in 0 .. (sent - got), NEW partial \in BOOLEAN,
             A!ReceiveData(k, partial)
      PROVE  ClientInv'
  <2>1. /\ pc = "readingResponse" /\ A!ReadReturns(k, partial)
        /\ A!CollectBatch(A!Chunk(k)) \/ A!RejectBatch(A!Chunk(k))
        /\ UNCHANGED <<script, sent, written, peer, key>>
    BY <1>2 DEF A!ReceiveData
  <2>2. QED
    BY <1>1, <2>1, CollectBatchInv, RejectBatchInv
<1>3. QED
  BY <1>1, <1>2, StartReadingInv, EndResponseInv DEF A!Reader

-----------------------------------------------------------------------------
(* The end of the program, and the world around it.                        *)

\* A front of a sequence is a beginning of it.
LEMMA FrontIsPrefix ==
  ASSUME NEW S, NEW q \in Seq(S), NEW n \in 0 .. Len(q)
  PROVE  /\ SubSeq(q, 1, n) \in Seq(S)
         /\ IsPrefix(SubSeq(q, 1, n), q) /\ Promise!IsPrefix(SubSeq(q, 1, n), q)
<1> DEFINE front == SubSeq(q, 1, n)
<1>1. Len(q) \in Nat /\ n \in Nat /\ n <= Len(q)
  BY LenProperties
<1>2. front \in Seq(S) /\ Len(front) = n
  BY <1>1, SubSeqProperties
<1>3. SubSeq(front, 1, Len(front)) = front
  BY <1>2, SubSeqFull
<1>4. Len(front) <= Len(q)
      /\ SubSeq(front, 1, Len(front)) = SubSeq(q, 1, Len(front))
  BY <1>1, <1>2, <1>3
<1> HIDE DEF front
<1>5. IsPrefix(front, q) /\ Promise!IsPrefix(front, q)
  BY <1>4, Zenon DEF IsPrefix, Promise!IsPrefix
<1> QED
  BY <1>2, <1>5 DEF front

\* The step of the print: all of the data, or a part and an error.
Printed ==
  \/ /\ pc' = "exited" /\ output' = collected /\ status' = "zero"
     /\ err' = err
  \/ /\ pc' = "failed" /\ err' = "print" /\ status' = status
     /\ \E n \in 0 .. Len(collected) : output' = SubSeq(collected, 1, n)

LEMMA PrintedIsCollected ==
  ASSUME Printed, collected \in Seq(Data)
  PROVE  /\ output' \in Seq(Data)
         /\ \/ /\ pc' = "exited" /\ output' = collected /\ status' = "zero"
               /\ err' = err
            \/ /\ pc' = "failed" /\ err' = "print" /\ status' = status
               /\ IsPrefix(output', collected)
               /\ Promise!IsPrefix(output', collected)
BY FrontIsPrefix DEF Printed

\* What is printed has been collected from the server's answer.
LEMMA PrintResponseInv ==
  ASSUME ClientInv, PrintResponse PROVE ClientInv'
<1>1. /\ pc = "returned" /\ Printed
      /\ UNCHANGED <<script, sent, got, cut, written, peer, deadline,
                     accumulated, exit, key, seq, collected, decoded>>
  BY DEF PrintResponse, Printed, connVars, hsOnly, appOnly
<1>2. /\ TypeOK /\ err = "none" /\ status = "none" /\ deadline = "off"
      /\ collected \in Seq(Data)
  BY <1>1 DEF ClientInv, TypeOK, ErrorsAtTheEnd, DeadlineScoped
<1>3. /\ output' \in Seq(Data)
      /\ \/ /\ pc' = "exited" /\ output' = collected /\ status' = "zero"
            /\ err' = err
         \/ /\ pc' = "failed" /\ err' = "print" /\ status' = status
            /\ IsPrefix(output', collected)
  BY <1>1, <1>2, PrintedIsCollected
<1>4. TypeOK'
  BY <1>1, <1>2, <1>3 DEF TypeOK, ConnTypeOK, H!Label, H!Terminal
<1>5. OutputIsTheServers'
  <2>1. /\ H!Acceptable(accumulated)
        /\ key = ServerApplicationKey(accumulated)
        /\ Decodes(Response, key, 0)
        /\ collected = DataOf(Response)
    BY <1>1 DEF ClientInv, FlightCarried, ResponseSoFar, ResponsePhase
  <2>2. collected = A!CollectApplicationData(Decoded(A!Extract(
                      SubSeq(script.records, Len(accumulated.recs) + 1, got))))
    BY <2>1, SameDataOf, Zenon DEF Response
  <2>3. \/ output' = collected
        \/ err' = "print" /\ IsPrefix(output', collected)
    BY <1>3
  <2>4. QED
    BY <1>1, <2>1, <2>2, <2>3
       DEF OutputIsTheServers, Response, ServerApplicationKey
<1>6. QED
  BY <1>1, <1>2, <1>3, <1>4, <1>5
     DEF ClientInv, DeadlineScoped, NotStarted, FlightCarried, ResponsePhase,
         ResponseSoFar, ErrorsAtTheEnd, ConformingServerServed,
         HandshakePhase, HP!Processing

\* The exit with an error changes nothing but the status.
LEMMA ExitOnErrorInv ==
  ASSUME ClientInv, ExitOnError PROVE ClientInv'
<1>1. /\ pc = "failed" /\ pc' = "exited" /\ status' = "one"
      /\ UNCHANGED <<script, sent, got, cut, written, peer, deadline,
                     accumulated, exit, key, seq, collected, decoded, err,
                     output>>
  BY DEF ExitOnError, connVars, hsOnly, appOnly
<1>2. /\ ConformingServer' <=> ConformingServer
      /\ OutputIsTheServers'
  BY <1>1, ConformingFixed, OutputKept DEF ClientInv
<1>3. TypeOK'
  BY <1>1 DEF ClientInv, TypeOK, ConnTypeOK
<1>4. QED
  BY <1>1, <1>2, <1>3
     DEF ClientInv, DeadlineScoped, NotStarted, FlightCarried, ResponsePhase,
         ResponseSoFar, ErrorsAtTheEnd, ConformingServerServed,
         HandshakePhase, HP!Processing

\* A step that leaves the program alone, of the network or of nobody.
LEMMA ProgramAlone ==
  ASSUME ClientInv, ConnTypeOK',
         UNCHANGED <<script, got, pc, err, accumulated, exit, key, seq,
                     collected, decoded, output, status>>,
         deadline' = "off" <=> deadline = "off",
         pc \in HandshakePhase => HP!InductiveInv',
         pc = "dial" => ConnInit'
  PROVE  ClientInv'
<1>1. /\ ConformingServer' <=> ConformingServer
      /\ OutputIsTheServers'
  BY ConformingFixed, OutputKept DEF ClientInv
<1>2. TypeOK'
  BY DEF ClientInv, TypeOK
<1>3. FlightCarried'
  <2>1. ConnTypeOK /\ got <= got' /\ FlightCarried
    BY DEF ClientInv, TypeOK, ConnTypeOK
  <2>2. pc \in ResponsePhase => FlightCarried'
    BY <2>1, FlightKept
  <2>3. QED
    BY <2>2 DEF FlightCarried
<1>4. ResponseSoFar'
  BY DEF ClientInv, ResponseSoFar, Response
<1>5. NotStarted' /\ DeadlineScoped' /\ ErrorsAtTheEnd'
  BY DEF ClientInv, NotStarted, DeadlineScoped, ErrorsAtTheEnd
<1>6. QED
  BY <1>1, <1>2, <1>3, <1>4, <1>5 DEF ClientInv, ConformingServerServed

\* The network and the clock.
LEMMA NetworkInv ==
  ASSUME ClientInv, Network PROVE ClientInv'
<1>1. /\ Environment
      /\ UNCHANGED <<pc, err, accumulated, exit, key, seq, collected, decoded,
                     output, status>>
  BY DEF Network, hsOnly, appOnly, runVars
<1>2. /\ UNCHANGED <<script, got, cut, written>>
      /\ deadline' = "off" <=> deadline = "off"
  BY <1>1 DEF Environment, ServerSend, ServerClose, ConnectionReset,
     DeadlineExpires
<1>3. ConnTypeOK'
  <2>1. ConnTypeOK /\ Len(script.records) \in Nat
    BY Stream DEF ClientInv, TypeOK
  <2>2. QED
    BY <1>1, <2>1 DEF ConnTypeOK, Environment, ServerSend, MaySend,
       ServerClose, ConnectionReset, DeadlineExpires
<1>4. pc \in HandshakePhase => HP!InductiveInv'
  BY <1>1, HandshakeStep DEF ClientInv
<1>5. pc # "dial"
  BY <1>1 DEF ClientInv, NotStarted, ConnInit, Environment, ServerSend,
     MaySend, ServerClose, ConnectionReset, DeadlineExpires
<1>6. QED
  BY <1>1, <1>2, <1>3, <1>4, <1>5, ProgramAlone

\* A step of nobody.
LEMMA StutterInv ==
  ASSUME ClientInv, UNCHANGED vars PROVE ClientInv'
<1>1. /\ UNCHANGED <<script, sent, got, cut, written, peer, deadline>>
      /\ UNCHANGED <<pc, err, accumulated, exit, key, seq, collected, decoded,
                     output, status>>
  BY DEF vars, connVars, hsOnly, appOnly, runVars
<1>2. ConnTypeOK' /\ (pc = "dial" => ConnInit')
  BY <1>1 DEF ClientInv, TypeOK, ConnTypeOK, NotStarted, ConnInit
<1>3. pc \in HandshakePhase => HP!InductiveInv'
  <2>1. HP!InductiveInv /\ [HP!Next]_(HP!vars) => HP!InductiveInv'
    BY ScriptsAreHP, HP!StepInv
  <2>2. UNCHANGED HP!vars
    BY <1>1 DEF HP!vars, HP!connVars, HP!hsVars
  <2>3. QED
    BY <2>1, <2>2 DEF ClientInv
<1>4. QED
  BY <1>1, <1>2, <1>3, ProgramAlone

\* Every step keeps the invariant.
LEMMA StepInv == ClientInv /\ [Next]_vars => ClientInv'
BY DialInv, DoHandshakeInv, SendRequestInv, ReadResponseInv, PrintResponseInv,
   ExitOnErrorInv, NetworkInv, StutterInv DEF Next, Program, Exited

-----------------------------------------------------------------------------
(* The theorems.                                                           *)

\* The invariant holds in every reachable state of the program.
THEOREM ClientInvariant == Spec => []ClientInv
BY InitInv, StepInv, PTL DEF Spec

\* Every variable keeps its type.
THEOREM TypeCorrect == Spec => []TypeOK
<1>1. ClientInv => TypeOK
  BY DEF ClientInv
<1>2. QED
  BY <1>1, ClientInvariant, PTL

\* The deadline is set only while one of the two readers waits for bytes.
THEOREM DeadlineScope == Spec => []DeadlineScoped
<1>1. ClientInv => DeadlineScoped
  BY DEF ClientInv
<1>2. QED
  BY <1>1, ClientInvariant, PTL

\* A conforming server is never turned away, however its records are cut.
THEOREM ConformingServed == Spec => []ConformingServerServed
<1>1. ClientInv => ConformingServerServed
  BY DEF ClientInv
<1>2. QED
  BY <1>1, ClientInvariant, PTL

\* What is printed is the verified server's, from its first record on.
THEOREM OutputServers == Spec => []OutputIsTheServers
<1>1. ClientInv => OutputIsTheServers
  BY DEF ClientInv
<1>2. QED
  BY <1>1, ClientInvariant, PTL

\* The second reader goes on at the byte where the first stopped.
THEOREM StreamShared == Spec => []ReadersShareTheStream
<1>1. ClientInv => ReadersShareTheStream
  <2> SUFFICES ASSUME ClientInv, pc = "readingResponse"
               PROVE  /\ accumulated.recs = Prefix(Len(accumulated.recs))
                      /\ ~accumulated.rest
                      /\ collected = A!CollectApplicationData(Decoded(A!Extract(
                           SubSeq(script.records, Len(accumulated.recs) + 1, got))))
    BY DEF ReadersShareTheStream
  <2>1. /\ accumulated = [recs |-> Prefix(Len(accumulated.recs)), rest |-> FALSE]
        /\ collected = DataOf(Response)
    BY DEF ClientInv, FlightCarried, ResponseSoFar, ResponsePhase
  <2>2. accumulated.recs = Prefix(Len(accumulated.recs)) /\ ~accumulated.rest
    <3>1. \A recs : [recs |-> recs, rest |-> FALSE].recs = recs
                      /\ ~[recs |-> recs, rest |-> FALSE].rest
      OBVIOUS
    <3>2. QED
      BY <2>1, <3>1
  <2>3. QED
    BY <2>1, <2>2, SameDataOf, Zenon DEF Response
<1>2. QED
  BY <1>1, ClientInvariant, PTL

\* The client writes its Finished and its request only on a flight that has
\* passed every verification (handshake.go 96-160).
THEOREM WritesAreVerified == Spec => VerifiedBeforeWriting
<1>1. ClientInv /\ [Next]_vars =>
        [written > 0 /\ written' # written =>
           exit = "complete" /\ H!Acceptable(accumulated)]_vars
  <2> SUFFICES ASSUME ClientInv, [Next]_vars, written > 0, written' # written
               PROVE  exit = "complete" /\ H!Acceptable(accumulated)
    OBVIOUS
  <2>1. CASE DoHandshake
    <3>1. HP!Client /\ pc \in {"start", "sendFinished"}
      BY <2>1, SameClient, HandshakeRuns DEF DoHandshake
    <3>2. HP!InductiveInv
      BY <3>1 DEF ClientInv, HandshakePhase, HP!Processing
    <3>3. pc # "start"
      BY <3>2 DEF HP!InductiveInv, HP!BurstInv
    <3>4. QED
      BY <3>1, <3>2, <3>3, ScriptsAreHP, HP!VerifiedFlight, SameAcceptable
  <2>2. CASE SendRequest
    <3>1. HP!InductiveInv /\ pc = "done"
      BY <2>2 DEF SendRequest, ClientInv, HandshakePhase
    <3>2. QED
      BY <3>1, HandshakeDone
  <2>3. written' = written \/ DoHandshake \/ SendRequest
    BY DEF Next, Program, Dial, ReadResponse, PrintResponse, ExitOnError,
       Network, Environment, ServerSend, ServerClose, ConnectionReset,
       DeadlineExpires, Exited, vars, connVars, A!Reader, A!StartReading,
       A!ReceiveData, A!ResponseAtEOF, A!ResponseTimesOut, A!EndResponse,
       A!ResponseFails
  <2>4. QED
    BY <2>1, <2>2, <2>3
<1>2. QED
  BY <1>1, ClientInvariant, PTL DEF Spec, VerifiedBeforeWriting

-----------------------------------------------------------------------------
(* The program implements Session.                                         *)

\* The verifications of HP are those of Client.
LEMMA SameChecks ==
  \A b : /\ HP!ChainOK(b) <=> ChainOK(b)
         /\ HP!SignatureVerifies(b) <=> SignatureVerifies(b)
         /\ HP!FinishedVerifies(b) <=> FinishedVerifies(b)
<1>1. \A b : HP!FlightMessages(b) = FlightMessages(b)
  BY Zenon DEF HP!FlightMessages, FlightMessages, HP!Messages, Messages,
     HP!HandshakeStream, HandshakeStream, HP!Payloads, Payloads, HP!Collect,
     Collect, HP!FlattenSeq, FlattenSeq, HP!FlightRecords, FlightRecords,
     HP!CiphertextRecords, CiphertextRecords, HP!OfTypes, OfTypes,
     HP!Decoded, Decoded
<1>2. \A m : HP!TypesOf(m) = TypesOf(m)
  BY Zenon DEF HP!TypesOf, TypesOf
<1>3. \A m, t : HP!FindFirst(m, t) = FindFirst(m, t)
  BY Zenon DEF HP!FindFirst, FindFirst, HP!Occurrences, Occurrences, HP!Min, Min
<1>4. \A b, t : HP!TranscriptBefore(b, t) = TranscriptBefore(b, t)
  BY <1>1, <1>2, <1>3, Zenon DEF HP!TranscriptBefore, TranscriptBefore,
     HP!HelloTranscript, HelloTranscript
<1> QED
  BY <1>4, SameParse
     DEF HP!ChainOK, ChainOK, HP!SignatureVerifies, SignatureVerifies,
         HP!FinishedVerifies, FinishedVerifies

\* An acceptable flight that was read to its end has been heard.
LEMMA AcceptableHeard ==
  ASSUME exit = "complete", H!Acceptable(accumulated) PROVE Heard
<1>1. HP!Acceptable(accumulated)
  BY SameAcceptable
<1>2. QED
  BY <1>1, SameChecks DEF Heard, HP!Acceptable

\* The beginnings of the answer that open.
Openable ==
  {i \in Len(accumulated.recs) .. Len(script.records) :
     Decodes(Behind(i), ServerApplicationKey(accumulated), 0)}

LEMMA SaidIsData ==
  /\ Heard => \A data : data \in Said <=> \E n \in Openable : data = DataOf(Behind(n))
  /\ ~Heard => Said = {}
<1>1. \A n : A!CollectApplicationData(Decoded(A!Extract(Behind(n))))
              = DataOf(Behind(n))
  BY SameDataOf, Zenon
<1> QED
  BY <1>1 DEF Said, Openable

\* What a server says is settled by its script and the flight.
LEMMA SaidSettled ==
  ASSUME UNCHANGED <<script, accumulated, exit>>
  PROVE  Said' = Said
<1>1. Heard' <=> Heard
  BY DEF Heard
<1>2. \A n : Behind(n)' = Behind(n)
  BY DEF Behind
<1> QED
  BY <1>1, <1>2 DEF Said, Behind, ServerApplicationKey

\* The shorter of two beginnings is a prefix of the longer.
LEMMA BeginningsNest ==
  ASSUME script.records \in Seq(Record),
         Len(accumulated.recs) \in 0 .. Len(script.records),
         NEW n \in Len(accumulated.recs) .. Len(script.records),
         NEW m \in n .. Len(script.records)
  PROVE  Promise!IsPrefix(DataOf(Behind(n)), DataOf(Behind(m)))
<1> DEFINE a == Len(accumulated.recs)
           low  == SubSeq(script.records, a + 1, n)
           high == SubSeq(script.records, n + 1, m)
<1>1. a \in 0 .. Len(script.records) /\ n \in a .. Len(script.records)
  OBVIOUS
<1>2. Behind(n) = low /\ Behind(m) = SubSeq(script.records, a + 1, m)
  BY DEF Behind
<1> HIDE DEF a
<1>3. /\ low \in Seq(Record) /\ high \in Seq(Record)
      /\ SubSeq(script.records, a + 1, m) = low \o high
  BY <1>1, MiddlePartsJoin
<1> HIDE DEF low, high
<1>4. DataOf(low) \in Seq(Data) /\ DataOf(high) \in Seq(Data)
  BY <1>3, DataOfType, Zenon
<1>5. DataOfJoin(low, high)
  BY <1>3, DataOfConcat, Zenon
<1>6. DataOf(Behind(n)) = DataOf(low)
      /\ DataOf(Behind(m)) = DataOf(low) \o DataOf(high)
  BY <1>2, <1>3, <1>5, Zenon DEF DataOfJoin
<1> DEFINE b == DataOf(low)
           c == DataOf(high)
<1> HIDE DEF b, c
<1>7. /\ b \in Seq(Data) /\ c \in Seq(Data)
      /\ DataOf(Behind(n)) = b /\ DataOf(Behind(m)) = b \o c
  BY <1>4, <1>6 DEF b, c
<1>8. /\ Len(b) <= Len(b \o c) /\ SubSeq(b \o c, 1, Len(b)) = b
      /\ SubSeq(b, 1, Len(b)) = b
  BY <1>7, FrontOfConcat, SubSeqFull
<1> QED
  BY <1>7, <1>8, Zenon DEF Promise!IsPrefix

\* When a flight has been heard, there is something that the server says.
LEMMA HeardSays ==
  ASSUME ConnTypeOK, Heard,
         Len(accumulated.recs) \in 0 .. Len(script.records)
  PROVE  Said # {} /\ Promise!OneStream(Said)
<1>1. script.records \in Seq(Record) /\ Len(script.records) \in Nat
  BY Stream
<1>2. Said # {}
  <2> DEFINE a == Len(accumulated.recs)
  <2>1. Behind(a) = <<>>
    <3>1. a \in Nat
      BY <1>1
    <3>2. SubSeq(script.records, a + 1, a) = <<>>
      BY <1>1, <3>1, SubSeqEmpty
    <3> QED
      BY <3>2 DEF Behind
  <2>2. Decodes(Behind(a), ServerApplicationKey(accumulated), 0)
    BY <2>1, EmptySeq DEF Decodes
  <2>3. a \in a .. Len(script.records)
    BY <1>1
  <2>4. a \in Openable
    BY <2>2, <2>3 DEF Openable
  <2> QED
    BY <2>4, SaidIsData
<1>3. ASSUME NEW b \in Said, NEW c \in Said
      PROVE  Promise!IsPrefix(b, c) \/ Promise!IsPrefix(c, b)
  <2>1. PICK n \in Openable : b = DataOf(Behind(n))
    BY SaidIsData, Zenon
  <2>2. PICK m \in Openable : c = DataOf(Behind(m))
    BY SaidIsData, Zenon
  <2>3. /\ n \in Len(accumulated.recs) .. Len(script.records)
        /\ m \in Len(accumulated.recs) .. Len(script.records)
    BY DEF Openable
  <2>4. m \in n .. Len(script.records) \/ n \in m .. Len(script.records)
    BY <1>1, <2>3
  <2>5. CASE m \in n .. Len(script.records)
    BY <1>1, <2>1, <2>2, <2>3, <2>5, BeginningsNest
  <2>6. CASE n \in m .. Len(script.records)
    BY <1>1, <2>1, <2>2, <2>3, <2>6, BeginningsNest
  <2> QED
    BY <2>4, <2>5, <2>6
<1> QED
  BY <1>2, <1>3 DEF Promise!OneStream

\* So in the handshake, where the flight is a part of the stream.
LEMMA HandshakeHeard ==
  HP!InductiveInv /\ Heard => Said # {} /\ Promise!OneStream(Said)
<1> SUFFICES ASSUME HP!InductiveInv, Heard
             PROVE  Said # {} /\ Promise!OneStream(Said)
  OBVIOUS
<1>1. ConnTypeOK
  BY HandshakeTyped DEF HandshakeTypes
<1>2. accumulated = [recs |-> Prefix(got), rest |-> cut]
  BY SamePrefix DEF HP!InductiveInv, HP!FlightIsStreamPrefix
<1>3. got \in 0 .. Len(script.records)
  BY <1>1, Stream
<1>4. Len(HP!Prefix(got)) = got
  <2>1. HP!TypeOK
    BY DEF HP!InductiveInv
  <2> QED
    BY <1>3, <2>1, ScriptsAreHP, HP!PrefixType
<1>5. Len(accumulated.recs) = got
  BY <1>2, <1>4, SamePrefix
<1> QED
  BY <1>1, <1>3, <1>5, HeardSays

\* What the program has written by its place, and how it has exited.
SessionInv ==
  /\ status = "none" <=> pc # "exited"
  /\ pc = "done" => written = 2
  /\ pc \in ResponsePhase => written = 3

LEMMA SessionInit == Init => SessionInv /\ Promise!Init
<1> SUFFICES ASSUME Init PROVE SessionInv /\ Promise!Init
  OBVIOUS
<1>1. ~Heard
  BY DEF Init, Heard
<1> QED
  BY <1>1, SaidIsData
     DEF Init, ConnInit, SessionInv, ResponsePhase, Promise!Init, Ending

\* A step of the session, or none of it.
SessionStep == Promise!Next \/ UNCHANGED <<written, Said, output, Ending>>

\* The session goes on while the program runs into no error of the print.
LEMMA EndingKept ==
  ASSUME ClientInv, pc \notin {"failed", "exited"}, status' = status,
         err' # "print"
  PROVE  Ending = "none" /\ Ending' = "none"
<1>1. err = "none" /\ status = "none"
  BY DEF ClientInv, ErrorsAtTheEnd
<1> QED
  BY <1>1 DEF Ending

\* Where the handshake writes, and what it leaves alone.
LEMMA HandshakeShape ==
  ASSUME HP!Client
  PROVE  /\ pc = "start" => written' \in {written, written + 1}
         /\ pc = "sendFinished" =>
              \/ written' = written + 1 /\ pc' = "done"
              \/ written' = written /\ pc' = "failed"
         /\ pc' = "done" => pc = "sendFinished"
         /\ pc # "reading" => UNCHANGED <<accumulated, exit>>
<1> DEFINE Goal ==
      /\ pc = "start" => written' \in {written, written + 1}
      /\ pc = "sendFinished" =>
           \/ written' = written + 1 /\ pc' = "done"
           \/ written' = written /\ pc' = "failed"
      /\ pc' = "done" => pc = "sendFinished"
      /\ pc # "reading" => UNCHANGED <<accumulated, exit>>
<1>1. HP!SendClientHello \/ HP!ReadFlight \/ HP!SendFinished => Goal
  BY DEF HP!SendClientHello, HP!ReadFlight, HP!SendFinished, HP!Fail, HP!Write
<1>2. ASSUME NEW k \in 0 .. (sent - got), NEW partial \in BOOLEAN,
             HP!Receive(k, partial)
      PROVE  Goal
  BY <1>2 DEF HP!Receive, HP!Fail, HP!ReturnFlight
<1>3. HP!ReceiveEOF \/ HP!ReceiveTimeout \/ HP!ReceiveError => Goal
  BY DEF HP!ReceiveEOF, HP!ReceiveTimeout, HP!ReceiveError, HP!GiveUp,
         HP!Fail, HP!ReturnFlight
<1>4. HP!ParseFlight \/ HP!ParseHello \/ HP!DeriveSecrets => Goal
  BY DEF HP!ParseFlight, HP!ParseHello, HP!DeriveSecrets, HP!Step, HP!Fail
<1>5. HP!DecodeFlight \/ HP!VerifyChain \/ HP!DeriveSessionKeys => Goal
  BY DEF HP!DecodeFlight, HP!VerifyChain, HP!DeriveSessionKeys, HP!Step,
         HP!Fail
<1>6. HP!VerifyCertificateVerify \/ HP!VerifyServerFinished => Goal
  BY DEF HP!VerifyCertificateVerify, HP!VerifyServerFinished,
         HP!VerifyMessage, HP!Fail
<1>7. QED
  BY <1>1, <1>2, <1>3, <1>4, <1>5, <1>6 DEF HP!Client, HP!Read

\* The handshake: the hello, the flight heard, and the Finished.
LEMMA DoHandshakeMaps ==
  ASSUME ClientInv, SessionInv, DoHandshake
  PROVE  SessionInv' /\ SessionStep
<1>1. HP!Client /\ UNCHANGED <<output, status>>
  BY SameClient DEF DoHandshake, runVars
<1>2. /\ pc \in {"start", "readFlight", "reading"} \union HP!Processing
      /\ script' = script
      /\ written' # written => pc \in {"start", "sendFinished"}
  BY <1>1, HandshakeRuns
<1>3. /\ pc = "start" => written' \in {written, written + 1}
      /\ pc = "sendFinished" =>
           \/ written' = written + 1 /\ pc' = "done"
           \/ written' = written /\ pc' = "failed"
      /\ pc' = "done" => pc = "sendFinished"
      /\ pc # "reading" => UNCHANGED <<accumulated, exit>>
  BY <1>1, HandshakeShape
<1>4. HP!InductiveInv
  BY <1>2 DEF ClientInv, HandshakePhase
<1>5. HP!InductiveInv'
  BY <1>1, <1>4, HandshakeStep
<1>6. status = "none" /\ Ending = "none" /\ Ending' = "none"
  <2>1. pc \notin {"failed", "exited"}
    BY <1>2 DEF HP!Processing
  <2>2. HandshakeTypes'
    BY <1>5, HandshakeTyped, PTL
  <2>3. err' # "print"
    BY <2>2 DEF HandshakeTypes, H!Error
  <2> QED
    BY <1>1, <2>1, <2>3, EndingKept DEF SessionInv
<1>7. /\ pc = "start" => written = 0
      /\ pc \in {"reading", "sendFinished"} => written = 1
      /\ pc = "reading" => exit = "none"
  BY <1>4 DEF HP!InductiveInv, HP!BurstInv, HP!ExitInv, HP!Processing
<1>8. pc' \notin ResponsePhase \union {"exited"}
  <2>1. HandshakeTypes'
    BY <1>5, HandshakeTyped, PTL
  <2> QED
    BY <2>1 DEF HandshakeTypes, H!Label, H!Processing, H!Terminal, ResponsePhase
<1>9. SessionInv'
  BY <1>1, <1>3, <1>6, <1>7, <1>8 DEF SessionInv
<1>10. CASE pc = "start"
  <2>1. Said' = Said
    BY <1>2, <1>3, <1>10, SaidSettled
  <2> QED
    BY <1>1, <1>3, <1>6, <1>7, <1>9, <1>10, <2>1
       DEF SessionStep, Promise!Next, Promise!SayHello, Promise!Running
<1>11. CASE pc = "reading"
  <2>1. Said = {} /\ written' = written /\ written = 1
    BY <1>2, <1>7, <1>11, SaidIsData DEF Heard
  <2>2. CASE Heard'
    <3>1. (Said # {} /\ Promise!OneStream(Said))'
      BY <1>5, <2>2, HandshakeHeard, PTL
    <3> QED
      BY <1>1, <1>6, <1>9, <2>1, <3>1
         DEF SessionStep, Promise!Next, Promise!Hear, Promise!Running
  <2>3. CASE ~Heard'
    <3>1. (~Heard => Said = {})'
      BY SaidIsData, PTL
    <3> QED
      BY <1>1, <1>6, <1>9, <2>1, <2>3, <3>1 DEF SessionStep
  <2> QED
    BY <2>2, <2>3
<1>12. CASE pc = "sendFinished"
  <2>1. Said' = Said
    BY <1>2, <1>3, <1>12, SaidSettled
  <2>2. Heard
    BY <1>4, <1>12, ScriptsAreHP, HP!VerifiedFlight, SameAcceptable,
       AcceptableHeard
  <2>3. Said # {}
    BY <1>4, <2>2, HandshakeHeard
  <2> QED
    BY <1>1, <1>3, <1>6, <1>7, <1>9, <1>12, <2>1, <2>3
       DEF SessionStep, Promise!Next, Promise!Answer, Promise!Running
<1>13. CASE pc \notin {"start", "reading", "sendFinished"}
  <2>1. Said' = Said
    BY <1>2, <1>3, <1>13, SaidSettled
  <2> QED
    BY <1>1, <1>2, <1>6, <1>9, <1>13, <2>1 DEF SessionStep
<1> QED
  BY <1>10, <1>11, <1>12, <1>13

\* The request, of a server that has been heard.
LEMMA SendRequestMaps ==
  ASSUME ClientInv, SessionInv, SendRequest
  PROVE  SessionInv' /\ SessionStep
<1>1. /\ pc = "done"
      /\ \/ pc' = "readResponse" /\ written' = written + 1
         \/ pc' = "failed" /\ written' = written
      /\ err' \in {err, "local", "write"}
      /\ UNCHANGED <<script, accumulated, exit, output, status>>
  BY DEF SendRequest, Write, hsOnly, runVars
<1>2. HP!InductiveInv
  BY <1>1 DEF ClientInv, HandshakePhase
<1>3. Said' = Said
  BY <1>1, SaidSettled
<1>4. Said # {}
  <2>1. Heard
    BY <1>1, <1>2, HandshakeDone, AcceptableHeard
  <2> QED
    BY <1>2, <2>1, HandshakeHeard
<1>5. status = "none" /\ written = 2 /\ Ending = "none" /\ Ending' = "none"
  <2>1. err' # "print"
    BY <1>1 DEF ClientInv, ErrorsAtTheEnd
  <2> QED
    BY <1>1, <2>1, EndingKept DEF SessionInv
<1>6. SessionInv'
  BY <1>1, <1>5 DEF SessionInv, ResponsePhase
<1>7. SessionStep
  BY <1>1, <1>3, <1>4, <1>5
     DEF SessionStep, Promise!Next, Promise!Answer, Promise!Running
<1> QED
  BY <1>6, <1>7

\* The print shows what the server says, or a part of it when stdout fails.
LEMMA PrintResponseMaps ==
  ASSUME ClientInv, SessionInv, PrintResponse
  PROVE  SessionInv' /\ SessionStep
<1>1. /\ pc = "returned" /\ Printed
      /\ UNCHANGED <<script, written, accumulated, exit>>
  BY DEF PrintResponse, Printed, connVars, hsOnly
<1>2. Said' = Said
  BY <1>1, SaidSettled
<1>3. /\ err = "none" /\ status = "none" /\ written = 3
      /\ collected \in Seq(Data)
  BY <1>1 DEF SessionInv, ResponsePhase, ClientInv, ErrorsAtTheEnd, TypeOK
<1>4. SessionInv'
  BY <1>1, <1>3 DEF SessionInv, ResponsePhase, Printed
<1>5. collected \in Said
  <2>1. /\ exit = "complete" /\ H!Acceptable(accumulated)
        /\ Len(accumulated.recs) \in 0 .. got
        /\ key = ServerApplicationKey(accumulated)
        /\ Decodes(Response, key, 0) /\ collected = DataOf(Response)
        /\ ConnTypeOK
    BY <1>1 DEF ClientInv, FlightCarried, ResponseSoFar, ResponsePhase, TypeOK
  <2>2. Heard
    BY <2>1, AcceptableHeard
  <2>3. Response = Behind(got)
    BY DEF Response, Behind
  <2>4. got \in Len(accumulated.recs) .. Len(script.records)
    BY <2>1, Stream
  <2>5. got \in Openable
    BY <2>1, <2>3, <2>4 DEF Openable
  <2> QED
    BY <2>1, <2>2, <2>3, <2>5, SaidIsData
<1>6. \/ output' = collected /\ status' = "zero" /\ err' = err
      \/ err' = "print" /\ Promise!IsPrefix(output', collected)
  BY <1>1, <1>3, PrintedIsCollected
<1>7. Ending = "none"
  BY <1>3 DEF Ending
<1>8. CASE output' = collected /\ status' = "zero" /\ err' = err
  <2>1. Ending' = "zero"
    BY <1>3, <1>8 DEF Ending
  <2> QED
    BY <1>1, <1>2, <1>3, <1>4, <1>5, <1>7, <1>8, <2>1
       DEF SessionStep, Promise!Next, Promise!Show, Promise!Running
<1>9. CASE err' = "print" /\ Promise!IsPrefix(output', collected)
  <2>1. Ending' = "broken"
    BY <1>9 DEF Ending
  <2>2. \E whole \in Said : Promise!IsPrefix(output', whole)
    BY <1>5, <1>9, Zenon
  <2> QED
    BY <1>1, <1>2, <1>3, <1>4, <1>7, <2>1, <2>2
       DEF SessionStep, Promise!Next, Promise!ShowSome, Promise!Running
<1> QED
  BY <1>6, <1>8, <1>9

\* The exit after an error shows nothing, or nothing more.
LEMMA ExitOnErrorMaps ==
  ASSUME SessionInv, ExitOnError
  PROVE  SessionInv' /\ SessionStep
<1>1. /\ pc = "failed" /\ pc' = "exited" /\ status' = "one"
      /\ UNCHANGED <<script, written, accumulated, exit, output, err>>
  BY DEF ExitOnError, connVars, hsOnly
<1>2. Said' = Said
  BY <1>1, SaidSettled
<1>3. SessionInv'
  BY <1>1 DEF SessionInv, ResponsePhase
<1>4. CASE err = "print"
  <2>1. Ending' = Ending
    BY <1>1, <1>4 DEF Ending
  <2> QED
    BY <1>1, <1>2, <1>3, <2>1 DEF SessionStep
<1>5. CASE err # "print"
  <2>1. Ending = "none" /\ Ending' = "one"
    BY <1>1, <1>5 DEF Ending, SessionInv
  <2> QED
    BY <1>1, <1>2, <1>3, <2>1
       DEF SessionStep, Promise!Next, Promise!GiveUp, Promise!Running
<1> QED
  BY <1>4, <1>5

\* All else the user does not see.
LEMMA OthersStutter ==
  ASSUME ClientInv, SessionInv, Dial \/ ReadResponse \/ Network \/ UNCHANGED vars
  PROVE  SessionInv' /\ SessionStep
<1>1. /\ UNCHANGED <<script, written, accumulated, exit, output, status>>
      /\ pc' # "done" \/ pc' = pc
      /\ pc' \in ResponsePhase => pc \in ResponsePhase
      /\ pc' = "exited" <=> pc = "exited"
      /\ err' = err \/ (pc \notin {"failed", "exited"} /\ err' # "print")
  <2>1. CASE Dial
    BY <2>1 DEF Dial, connVars, hsOnly, runVars, ResponsePhase
  <2>2. CASE ReadResponse
    BY <2>2
       DEF ReadResponse, hsOnly, runVars, A!Reader, A!StartReading,
           A!ReceiveData, A!CollectBatch, A!RejectBatch, A!ResponseAtEOF,
           A!ResponseTimesOut, A!EndResponse, A!ResponseFails, A!Fail,
           ResponsePhase
  <2>3. CASE Network
    BY <2>3
       DEF Network, Environment, ServerSend, ServerClose, ConnectionReset,
           DeadlineExpires, hsOnly, runVars
  <2>4. CASE UNCHANGED vars
    BY <2>4 DEF vars, connVars, hsOnly, runVars
  <2> QED
    BY <2>1, <2>2, <2>3, <2>4
<1>2. Said' = Said
  BY <1>1, SaidSettled
<1>3. Ending' = Ending
  <2>1. err' = err => Ending' = Ending
    BY <1>1 DEF Ending
  <2> QED
    BY <1>1, <2>1, EndingKept
<1> QED
  BY <1>1, <1>2, <1>3 DEF SessionInv, SessionStep

\* The program implements Session: initial states map to initial states, and
\* every step to a step of the session or to none.
THEOREM KeepsPromise == Spec => ImplementsSession
<1>1. ClientInv /\ SessionInv /\ [Next]_vars => SessionInv' /\ SessionStep
  BY DoHandshakeMaps, SendRequestMaps, PrintResponseMaps, ExitOnErrorMaps,
     OthersStutter DEF Next, Program, Exited
<1>2. SessionStep => [Promise!Next]_(Promise!sessionVars)
  BY DEF SessionStep, Promise!sessionVars
<1>3. Spec => []SessionInv
  BY <1>1, SessionInit, ClientInvariant, PTL DEF Spec
<1>4. QED
  BY <1>1, <1>2, <1>3, SessionInit, ClientInvariant, PTL
     DEF Spec, ImplementsSession, Promise!Spec
=============================================================================
