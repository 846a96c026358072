---------------------------- MODULE AppDataProofs ----------------------------
(***************************************************************************)
(* Proofs about AppData, for every set of responses and however the stream *)
(* is cut into batches: the sequence number under which the reader opens a *)
(* record is the record's place among the protected ones of the stream,    *)
(* and the data it collects is the data of the stream up to the last whole *)
(* record read.  The reader so takes a ByteStream, step by step.           *)
(***************************************************************************)
EXTENDS AppData, SequenceLemmas

-----------------------------------------------------------------------------
(* What a batch of the loop does to the count.                             *)

\* A script is a sequence of records, and a chunk is a part of it.
LEMMA ChunkShape ==
  ASSUME ControlTypeOK, NEW k \in 0 .. (sent - got)
  PROVE  /\ script.records \in Seq(Record)
         /\ Len(script.records) \in Nat
         /\ got \in Nat /\ sent \in Nat /\ k \in Nat
         /\ got + k \in 0 .. sent /\ got + k <= Len(script.records)
         /\ Len(Chunk(k)) = k
         /\ IsChunk(Chunk(k), script.records, got, k)
<1>1. script.records \in Seq(Record)
  BY DEF ControlTypeOK, ConnTypeOK, Script
<1>2. Len(script.records) \in Nat
  BY <1>1, LenProperties
<1>3. /\ got \in Nat /\ sent \in Nat /\ k \in Nat
      /\ got + k \in 0 .. sent /\ got + k <= Len(script.records)
  BY <1>2 DEF ControlTypeOK, ConnTypeOK
<1>4. /\ Len(Chunk(k)) = k
      /\ \A j \in 1 .. k : Chunk(k)[j] = script.records[got + j]
  <2>1. got + 1 \in 1 .. Len(script.records) + 1 /\ got + k \in got .. Len(script.records)
    BY <1>2, <1>3
  <2>2. (got + k) - (got + 1) + 1 = k /\ \A j \in 1 .. k : got + 1 + j - 1 = got + j
    BY <1>3
  <2>3. QED
    BY <1>1, <1>3, <2>1, <2>2, SubSeqProperties DEF Chunk
<1>5. QED
  BY <1>1, <1>2, <1>3, <1>4 DEF IsChunk

(***************************************************************************)
(* When the sequence number is the count of what has been read, it is so   *)
(* after the next chunk, and every record of the chunk is opened under its *)
(* place in the stream.                                                    *)
(***************************************************************************)
LEMMA ChunkCounted ==
  ASSUME ControlTypeOK, NEW k \in 0 .. (sent - got),
         seq = ProtectedBefore(script.records, got + 1)
  PROVE  /\ NextSeq(Chunk(k), seq) = ProtectedBefore(script.records, got + k + 1)
         /\ \A i \in 1 .. k :
              seq + ProtectedBefore(Chunk(k), i)
                = ProtectedBefore(script.records, got + i)
<1>1. /\ got \in Nat /\ k \in Nat
      /\ Len(Chunk(k)) = k
      /\ IsChunk(Chunk(k), script.records, got, k)
  BY ChunkShape
<1>2. ASSUME NEW n \in 0 .. k
      PROVE  ProtectedBefore(script.records, got + n + 1)
               = seq + ProtectedBefore(Chunk(k), n + 1)
  <2>1. ProtectedBefore(script.records, got + n + 1)
          = ProtectedBefore(script.records, got + 1)
              + ProtectedBefore(Chunk(k), n + 1)
    BY <1>1, CountsAdd
  <2>2. QED
    BY <2>1
<1>3. NextSeq(Chunk(k), seq) = ProtectedBefore(script.records, got + k + 1)
  <2>1. k \in 0 .. k
    BY <1>1
  <2>2. QED
    BY <1>1, <1>2, <2>1 DEF NextSeq, NumberProtected
<1>4. ASSUME NEW i \in 1 .. k
      PROVE  seq + ProtectedBefore(Chunk(k), i)
               = ProtectedBefore(script.records, got + i)
  <2>1. i - 1 \in 0 .. k /\ (i - 1) + 1 = i /\ got + (i - 1) + 1 = got + i
    BY <1>1
  <2>2. ProtectedBefore(script.records, got + (i - 1) + 1)
          = seq + ProtectedBefore(Chunk(k), (i - 1) + 1)
    BY <1>2, <2>1
  <2>3. QED
    BY <2>1, <2>2
<1>5. QED
  BY <1>3, <1>4

\* In a stream that opens as a whole, the next chunk opens.
LEMMA GoodChunkDecodes ==
  ASSUME ControlTypeOK, NEW k \in 0 .. (sent - got),
         seq = ProtectedBefore(script.records, got + 1),
         Decodes(script.records, key, 0)
  PROVE  Decodes(Chunk(k), key, seq)
<1>1. /\ Len(Chunk(k)) = k /\ k \in Nat /\ got \in Nat
      /\ Len(script.records) \in Nat /\ got + k <= Len(script.records)
      /\ \A j \in 1 .. k : Chunk(k)[j] = script.records[got + j]
  BY ChunkShape DEF IsChunk
<1>2. SUFFICES ASSUME NEW i \in 1 .. k, Chunk(k)[i].type = "application_data"
               PROVE  Opens(Chunk(k)[i], key, seq + ProtectedBefore(Chunk(k), i))
  BY <1>1 DEF Decodes
<1>3. got + i \in 1 .. Len(script.records)
  BY <1>1
<1>4. Chunk(k)[i] = script.records[got + i]
  BY <1>1
<1>5. Opens(script.records[got + i], key,
            0 + ProtectedBefore(script.records, got + i))
  BY <1>2, <1>3, <1>4 DEF Decodes
<1>6. got + (i - 1) + 1 = got + i /\ got + (i - 1) \in Nat
  BY <1>1
<1>7. ProtectedBefore(script.records, got + i) \in Nat
  BY <1>6, CountIsCardinality
<1>8. seq + ProtectedBefore(Chunk(k), i)
        = 0 + ProtectedBefore(script.records, got + i)
  BY <1>7, ChunkCounted
<1>9. QED
  BY <1>4, <1>5, <1>8

-----------------------------------------------------------------------------
(* What a batch of the loop adds to the data.                              *)

\* The data collected from records is DataOf of SequenceLemmas.
LEMMA CollectedData ==
  ASSUME NEW records
  PROVE  CollectApplicationData(Decoded(Extract(records))) = DataOf(records)
BY Zenon DEF CollectApplicationData, Extract, DataOf, OpenedOf

\* The data of the stream up to a record, as the loop has collected it.
LEMMA ServerDataIs ==
  ASSUME NEW n PROVE ServerData(n) = DataOf(Prefix(n))
BY CollectedData, Zenon DEF ServerData

\* A chunk adds its data to that of the stream before it.
LEMMA ChunkData ==
  ASSUME ControlTypeOK, NEW k \in 0 .. (sent - got)
  PROVE  /\ DataOf(Chunk(k)) \in Seq(Data)
         /\ ServerData(got + k) = ServerData(got) \o DataOf(Chunk(k))
<1>1. /\ script.records \in Seq(Record)
      /\ got \in 0 .. Len(script.records)
      /\ got + k \in got .. Len(script.records)
  BY ChunkShape
<1>2. /\ DataOf(SubSeq(script.records, got + 1, got + k)) \in Seq(Data)
      /\ DataOf(SubSeq(script.records, 1, got + k))
           = DataOf(SubSeq(script.records, 1, got))
               \o DataOf(SubSeq(script.records, got + 1, got + k))
  BY <1>1, DataInTwoParts
<1>3. QED
  BY <1>2, ServerDataIs, Zenon DEF Prefix, Chunk

\* What has been collected so far starts the data of the whole stream.
LEMMA ServerDataStarts ==
  ASSUME ControlTypeOK, NEW n \in 0 .. sent
  PROVE  /\ ServerData(n) \in Seq(Data)
         /\ ServerData(Len(script.records)) \in Seq(Data)
         /\ Len(ServerData(n)) <= Len(ServerData(Len(script.records)))
         /\ SubSeq(ServerData(Len(script.records)), 1, Len(ServerData(n)))
              = ServerData(n)
<1>1. /\ script.records \in Seq(Record)
      /\ n \in 0 .. Len(script.records)
  BY LenProperties DEF ControlTypeOK, ConnTypeOK, Script
<1>2. SubSeq(script.records, 1, Len(script.records)) = script.records
  BY <1>1, SubSeqFull
<1>3. /\ ServerData(n) = DataOf(SubSeq(script.records, 1, n))
      /\ ServerData(Len(script.records)) = DataOf(script.records)
  BY <1>2, ServerDataIs, Zenon DEF Prefix
<1>4. QED
  BY <1>1, <1>3, PrefixOfData

-----------------------------------------------------------------------------
(* The inductive invariant.                                                *)

\* Until a record has been refused, the sequence number is the count of what
\* has been read and the data collected is that of what has been read; a
\* stream that opens as a whole has none refused.
ReaderInv ==
  /\ TypeOK
  /\ pc = "readResponse" => got = 0 /\ collected = <<>>
  /\ NothingLostBetweenReads
  /\ pc \in {"readResponse", "readingResponse"} => err # "decode"
  /\ err # "decode" => seq = ProtectedBefore(script.records, got + 1)
  /\ GoodRecordsAccepted

\* There is no data before the first record.
LEMMA NoData == ServerData(0) = <<>>
<1>1. Prefix(0) = <<>>
  BY SubSeqEmpty DEF Prefix
<1>2. DataOf(<<>>) = <<>>
  BY NothingCollected
<1>3. QED
  BY <1>1, <1>2, ServerDataIs, Zenon

\* The initial states satisfy the invariant.
LEMMA InitInv == Init => ReaderInv
<1> SUFFICES ASSUME Init PROVE ReaderInv
  OBVIOUS
<1> USE DEF Init
<1>1. ControlTypeOK
  <2>1. script \in Script
    BY ScriptsAssumption
  <2>2. script.records \in Seq(Record)
    BY <2>1 DEF Script
  <2>3. Len(script.records) \in Nat
    BY <2>2, LenProperties
  <2>4. ConnTypeOK
    <3>1. sent \in 0 .. Len(script.records) /\ got \in 0 .. sent
      BY <2>3
    <3>2. QED
      BY <2>1, <3>1 DEF ConnTypeOK
  <2>5. ServerAppKey \in Key
    <3>1. HelloTranscript \in Transcript
      BY DEF HelloTranscript, Transcript, MessageType
    <3>2. Append(HelloTranscript, "finished") \in Transcript
      BY <3>1, AppendProperties DEF Transcript, MessageType
    <3>3. QED
      BY <3>2 DEF ServerAppKey, Key, Epoch
  <2>6. QED
    BY <2>4, <2>5 DEF ControlTypeOK, AppLabel, AppError
<1>2. seq = ProtectedBefore(script.records, got + 1)
  BY NothingBefore
<1>3. collected \in Seq(Data)
  BY EmptySeq
<1>4. collected = ServerData(got)
  BY NoData
<1>5. QED
  BY <1>1, <1>2, <1>3, <1>4
     DEF ReaderInv, TypeOK, NothingLostBetweenReads, GoodRecordsAccepted

\* The call, and the deadline it sets.
LEMMA StartReadingInv ==
  ASSUME ReaderInv, StartReading PROVE ReaderInv'
<1> USE DEF ReaderInv, TypeOK, StartReading, Fail
<1>1. TypeOK'
  BY EmptySeq DEF ControlTypeOK, ConnTypeOK, AppLabel, AppError
<1>2. got' = 0 /\ seq' = 0 /\ script' = script /\ collected' = <<>>
  OBVIOUS
<1>3. seq' = ProtectedBefore(script.records, got + 1)'
  BY <1>2, NothingBefore
<1>4. err' # "decode"
  OBVIOUS
<1>5. collected' = ServerData(got)'
  BY <1>2, NoData DEF ServerData, Prefix
<1>6. QED
  BY <1>1, <1>2, <1>3, <1>4, <1>5 DEF NothingLostBetweenReads, GoodRecordsAccepted

\* A batch that opens moves the count and the sequence number together.
LEMMA CollectBatchInv ==
  ASSUME ReaderInv, NEW k \in 0 .. (sent - got), NEW partial \in BOOLEAN,
         pc = "readingResponse", ReadReturns(k, partial),
         CollectBatch(Chunk(k)),
         UNCHANGED <<script, sent, written, peer, key>>
  PROVE  ReaderInv'
<1>1. /\ ControlTypeOK /\ err # "decode"
      /\ seq = ProtectedBefore(script.records, got + 1)
  BY DEF ReaderInv, TypeOK
<1>2. /\ got' = got + k /\ cut' = partial
      /\ seq' = NextSeq(Chunk(k), seq)
      /\ decoded' = decoded + NumberProtected(Chunk(k))
      /\ collected' =
           collected \o CollectApplicationData(Decoded(Extract(Chunk(k))))
      /\ pc' = pc /\ err' = err /\ deadline' = deadline
  BY DEF ReadReturns, CollectBatch
<1>3. /\ k \in Nat /\ got + k \in 0 .. sent /\ got + k \in Nat
      /\ Len(Chunk(k)) = k
  BY <1>1, ChunkShape
<1>4. NextSeq(Chunk(k), seq) = ProtectedBefore(script.records, got + k + 1)
  BY <1>1, ChunkCounted
<1>5. /\ ProtectedBefore(script.records, got + k + 1) \in Nat
      /\ NumberProtected(Chunk(k)) \in Nat
  BY <1>3, CountIsCardinality DEF NumberProtected
<1>6. ControlTypeOK'
  BY <1>1, <1>2, <1>3, <1>4, <1>5 DEF ControlTypeOK, ConnTypeOK
<1>7. (seq = ProtectedBefore(script.records, got + 1))'
  BY <1>2, <1>4
<1>8. collected' \in Seq(Data) /\ collected' = ServerData(got)'
  <2>1. collected \in Seq(Data) /\ collected = ServerData(got)
    BY <1>1 DEF ReaderInv, TypeOK, NothingLostBetweenReads
  <2>2. /\ DataOf(Chunk(k)) \in Seq(Data)
        /\ ServerData(got + k) = ServerData(got) \o DataOf(Chunk(k))
    BY <1>1, ChunkData
  <2>3. collected' = collected \o DataOf(Chunk(k))
    BY <1>2, CollectedData, Zenon
  <2>4. ServerData(got)' = ServerData(got + k)
    BY <1>2 DEF ServerData, Prefix
  <2>5. QED
    BY <2>1, <2>2, <2>3, <2>4, ConcatProperties
<1>9. QED
  BY <1>1, <1>2, <1>6, <1>7, <1>8
     DEF ReaderInv, TypeOK, NothingLostBetweenReads, GoodRecordsAccepted

\* A batch is refused only in a stream that does not open as a whole.
LEMMA RejectBatchInv ==
  ASSUME ReaderInv, NEW k \in 0 .. (sent - got), NEW partial \in BOOLEAN,
         pc = "readingResponse", ReadReturns(k, partial),
         RejectBatch(Chunk(k)),
         UNCHANGED <<script, sent, written, peer, key>>
  PROVE  ReaderInv'
<1>1. /\ ControlTypeOK
      /\ seq = ProtectedBefore(script.records, got + 1)
  BY DEF ReaderInv, TypeOK
<1>2. /\ got' = got + k /\ cut' = partial /\ deadline' = "off"
      /\ pc' = "failed" /\ err' = "decode"
      /\ UNCHANGED <<seq, collected, decoded>>
      /\ ~Decodes(Chunk(k), key, seq)
  BY DEF ReadReturns, RejectBatch, Fail, LeaveReader
<1>3. got + k \in 0 .. sent
  BY <1>1, ChunkShape
<1>4. ControlTypeOK'
  BY <1>1, <1>2, <1>3 DEF ControlTypeOK, ConnTypeOK, AppLabel, AppError
<1>5. ~Decodes(script.records, key, 0)
  BY <1>1, <1>2, GoodChunkDecodes
<1>6. QED
  BY <1>2, <1>4, <1>5
     DEF ReaderInv, TypeOK, NothingLostBetweenReads, GoodRecordsAccepted

\* The ends of the call change neither the stream nor the count.
LEMMA EndInv ==
  ASSUME ReaderInv, ResponseAtEOF \/ ResponseTimesOut \/ ResponseFails
  PROVE  ReaderInv'
<1>1. /\ pc = "readingResponse"
      /\ pc' \in {"returned", "failed"}
      /\ err' \in {err, "eof", "timeout", "reset"}
      /\ deadline' = "off"
      /\ UNCHANGED <<script, sent, got, cut, written, peer,
                     key, seq, collected, decoded>>
  BY DEF ResponseAtEOF, ResponseTimesOut, ResponseFails, EndResponse, Fail,
         LeaveReader
<1>2. ControlTypeOK'
  BY <1>1 DEF ReaderInv, TypeOK, ControlTypeOK, ConnTypeOK, AppLabel, AppError
<1>3. err # "decode" /\ err' # "decode"
  BY <1>1 DEF ReaderInv
<1>4. QED
  BY <1>1, <1>2, <1>3 DEF ReaderInv, TypeOK, NothingLostBetweenReads,
                         ServerData, Prefix, GoodRecordsAccepted

\* The server and the network only add to the stream.
LEMMA NetworkInv ==
  ASSUME ReaderInv, Network PROVE ReaderInv'
<1>1. ControlTypeOK'
  <2>1. Len(script.records) \in Nat
    BY LenProperties DEF ReaderInv, TypeOK, ControlTypeOK, ConnTypeOK, Script
  <2>2. QED
    BY <2>1 DEF ReaderInv, TypeOK, ControlTypeOK, ConnTypeOK, Network, Environment,
                ServerSend, MaySend, ServerClose, ConnectionReset,
                DeadlineExpires, appVars
<1>2. UNCHANGED <<script, got, pc, key, seq, collected, err>>
  BY DEF Network, Environment, ServerSend, ServerClose, ConnectionReset,
         DeadlineExpires, appVars
<1>3. QED
  BY <1>1, <1>2 DEF ReaderInv, TypeOK, NothingLostBetweenReads,
                   ServerData, Prefix, GoodRecordsAccepted

\* Every step keeps the invariant.
LEMMA StepInv == ReaderInv /\ [Next]_vars => ReaderInv'
<1> SUFFICES ASSUME ReaderInv, [Next]_vars PROVE ReaderInv'
  OBVIOUS
<1>1. ASSUME NEW k \in 0 .. (sent - got), NEW partial \in BOOLEAN,
             ReceiveData(k, partial)
      PROVE  ReaderInv'
  BY <1>1, CollectBatchInv, RejectBatchInv DEF ReceiveData
<1>2. CASE Reader
  BY <1>1, <1>2, StartReadingInv, EndInv DEF Reader
<1>3. CASE UNCHANGED vars
  BY <1>3 DEF ReaderInv, TypeOK, ControlTypeOK, ConnTypeOK,
              NothingLostBetweenReads, ServerData, Prefix, GoodRecordsAccepted,
              vars, connVars, appVars
<1>4. QED
  BY <1>2, <1>3, NetworkInv DEF Next, Returned

-----------------------------------------------------------------------------
(* The theorems.                                                           *)

\* The invariant holds in every reachable state of the call.
THEOREM ReaderInvariant == Spec => []ReaderInv
BY InitInv, StepInv, PTL DEF Spec

\* The sequence number counts the protected records read, however they came
\* in batches and whatever records lay between them (transport.go 174-197).
THEOREM SequenceCounts == Spec => []SequenceCountsRecords
<1>1. ReaderInv => SequenceCountsRecords
  <2> SUFFICES ASSUME ReaderInv, err # "decode"
               PROVE  seq = Cardinality({i \in 1 .. got :
                              script.records[i].type = "application_data"})
    BY DEF SequenceCountsRecords
  <2>1. got \in Nat /\ seq = ProtectedBefore(script.records, got + 1)
    BY DEF ReaderInv, TypeOK, ControlTypeOK, ConnTypeOK
  <2>2. QED
    BY <2>1, CountIsCardinality DEF Protected, IsProtected
<1>2. QED
  BY <1>1, ReaderInvariant, PTL

\* A response that opens as a whole is never refused, however it is cut into
\* reads (transport.go 236-248).
THEOREM GoodRecordsTaken == Spec => []GoodRecordsAccepted
<1>1. ReaderInv => GoodRecordsAccepted
  BY DEF ReaderInv
<1>2. QED
  BY <1>1, ReaderInvariant, PTL

\* Every variable keeps its type; the data collected is data of the server.
THEOREM TypeCorrect == Spec => []TypeOK
<1>1. ReaderInv => TypeOK
  BY DEF ReaderInv
<1>2. QED
  BY <1>1, ReaderInvariant, PTL

\* The data collected is the server's up to the last whole record read, in its
\* order, with nothing lost or repeated between reads (transport.go 225-261).
THEOREM NothingLost == Spec => []NothingLostBetweenReads
<1>1. ReaderInv => NothingLostBetweenReads
  BY DEF ReaderInv
<1>2. QED
  BY <1>1, ReaderInvariant, PTL

-----------------------------------------------------------------------------
(* The reader takes a ByteStream.                                          *)

\* The call starts with nothing taken.
LEMMA InitTakes == Init => Promise!Init
BY DEF Init, Promise!Init

\* A batch that opens takes the next run of the stream.
LEMMA BatchTakes ==
  ASSUME ReaderInv, ReaderInv', NEW k \in 0 .. (sent - got),
         pc = "readingResponse", got' = got + k, CollectBatch(Chunk(k)),
         UNCHANGED <<script, sent>>
  PROVE  Promise!Take
<1> DEFINE stream == ServerData(Len(script.records))
<1>1. /\ TypeOK /\ ControlTypeOK /\ ControlTypeOK'
      /\ err # "decode" /\ pc' = pc /\ err' = err
      /\ collected = ServerData(got) /\ collected' = ServerData(got)'
  BY DEF ReaderInv, TypeOK, NothingLostBetweenReads, CollectBatch
<1>2. /\ ServerData(got)' = ServerData(got + k)
      /\ stream' = stream
  BY DEF ServerData, Prefix
<1>3. got + k \in 0 .. sent
  BY <1>1, ChunkShape
<1>4. /\ collected' \in Seq(Data) /\ stream \in Seq(Data)
      /\ Len(collected') <= Len(stream)
      /\ SubSeq(stream, 1, Len(collected')) = collected'
  BY <1>1, <1>2, <1>3, ServerDataStarts, Zenon
<1>5. /\ collected \in Seq(Data)
      /\ collected' = collected \o DataOf(Chunk(k))
      /\ DataOf(Chunk(k)) \in Seq(Data)
  BY <1>1, ChunkData, CollectedData, Zenon DEF ReaderInv, TypeOK, CollectBatch
<1> HIDE DEF stream
<1>6. Len(collected) <= Len(collected')
  BY <1>5, ConcatProperties, LenProperties
<1>7. /\ Len(collected') \in Len(collected) .. Len(stream)
      /\ collected' = SubSeq(stream, 1, Len(collected'))
  BY <1>4, <1>5, <1>6, LenProperties
<1>8. \E n \in Len(collected) .. Len(stream) : collected' = SubSeq(stream, 1, n)
  BY <1>7
<1>9. QED
  BY <1>1, <1>2, <1>8 DEF Promise!Take, stream

\* A return finishes, with what was taken and nothing else.
LEMMA ReturnFinishes ==
  ASSUME pc \in {"readResponse", "readingResponse"},
         pc' \in {"returned", "failed"}, UNCHANGED <<script, collected>>
  PROVE  Promise!Finish
<1>1. ServerData(Len(script.records))' = ServerData(Len(script.records))
  BY DEF ServerData, Prefix
<1>2. QED
  BY <1>1 DEF Promise!Finish

\* A step that leaves the data and the call where they are changes nothing.
LEMMA OthersStutter ==
  ASSUME UNCHANGED <<script, collected>>,
         pc' \in {"returned", "failed"} \/ pc \in {"returned", "failed"} => pc' = pc
  PROVE  UNCHANGED Promise!streamVars
<1>1. ServerData(Len(script.records))' = ServerData(Len(script.records))
  BY DEF ServerData, Prefix
<1>2. QED
  BY <1>1 DEF Promise!streamVars

\* Every step of the call takes, finishes or stutters.
LEMMA StepTakes ==
  ReaderInv /\ ReaderInv' /\ [Next]_vars => [Promise!Next]_(Promise!streamVars)
<1> SUFFICES ASSUME ReaderInv, ReaderInv', [Next]_vars
             PROVE  Promise!Next \/ UNCHANGED Promise!streamVars
  OBVIOUS
<1>1. CASE StartReading
  <2>1. UNCHANGED <<script, collected>> /\ pc = "readResponse"
    BY <1>1 DEF ReaderInv, StartReading
  <2>2. pc' \in {"readingResponse", "failed"}
    BY <1>1 DEF StartReading, Fail
  <2>3. QED
    BY <2>1, <2>2, ReturnFinishes, OthersStutter DEF Promise!Next
<1>2. ASSUME NEW k \in 0 .. (sent - got), NEW partial \in BOOLEAN,
             ReceiveData(k, partial)
      PROVE  Promise!Next
  <2>1. /\ pc = "readingResponse" /\ got' = got + k
        /\ UNCHANGED <<script, sent>>
    BY <1>2 DEF ReceiveData, ReadReturns
  <2>2. CASE CollectBatch(Chunk(k))
    BY <2>1, <2>2, BatchTakes DEF Promise!Next
  <2>3. CASE RejectBatch(Chunk(k))
    BY <2>1, <2>3, ReturnFinishes DEF RejectBatch, Fail, Promise!Next
  <2>4. QED
    BY <1>2, <2>2, <2>3 DEF ReceiveData
<1>3. CASE ResponseAtEOF \/ ResponseTimesOut \/ ResponseFails
  BY <1>3, ReturnFinishes
     DEF ResponseAtEOF, ResponseTimesOut, ResponseFails, EndResponse, Fail,
         Promise!Next
<1>4. CASE Network \/ Returned \/ UNCHANGED vars
  BY <1>4, OthersStutter
     DEF Network, Environment, ServerSend, ServerClose, ConnectionReset,
         DeadlineExpires, Returned, vars, connVars, appVars
<1>5. QED
  BY <1>1, <1>2, <1>3, <1>4 DEF Next, Reader

\* The safety of DeliversByteStream: the call takes the server's data from its
\* start and in its order, and then returns or fails (transport.go 217-283).
THEOREM TakesByteStream ==
  Spec => Promise!Init /\ [][Promise!Next]_(Promise!streamVars)
<1>1. ReaderInv /\ ReaderInv' /\ [Next]_vars
        => [Promise!Next]_(Promise!streamVars)
  BY StepTakes
<1>2. QED
  BY <1>1, InitTakes, ReaderInvariant, PTL DEF Spec
=============================================================================
