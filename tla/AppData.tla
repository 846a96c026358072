------------------------------- MODULE AppData -------------------------------
(***************************************************************************)
(* ReadServerApplicationData of internal/utils/transport.go: the loop that *)
(* reads, opens and collects the server's response under one deadline.     *)
(* The remainder the source carries from one read to the next is the       *)
(* partial record that `cut' of Connection stands for.                     *)
(***************************************************************************)
EXTENDS Connection

VARIABLES
  pc,         \* where the call is
  key,        \* its argument: the server's application key
  seq,        \* the sequence number of the next record
  collected,  \* the application data collected
  decoded,    \* the number of records opened
  err         \* why the call failed

appVars == <<key, seq, collected, decoded, err>>

AppLabel == {"readResponse", "readingResponse", "returned", "failed"}
AppError == {"none", "local", "decode", "eof", "timeout", "reset"}

Fail(reason) == pc' = "failed" /\ err' = reason

\* Collecting records of every type, handshake messages and alerts included.
CollectEverything(records) ==
  FlattenSeq([i \in 1 .. Len(records) |-> records[i].payload])

\* CollectApplicationDataFromPlaintextRecords: the payloads of the records
\* whose inner type is application data, one after the other.
CollectApplicationData(records) == Payloads(records, "application_data")

\* ExtractApplicationDataCiphertextRecords: all other records are dropped.
Extract(records) == OfTypes(records, {"application_data"})

\* How many they are.
NumberProtected(records) == ProtectedBefore(records, Len(records) + 1)

\* A loop that opens every batch from sequence number zero.
NextSeqRestarting(records, first) == NumberProtected(records)

\* The sequence number after the protected records of a batch.
NextSeq(records, first) == first + NumberProtected(records)

-----------------------------------------------------------------------------
\* A call that does not set its deadline.
StartReadingWithoutDeadline ==
  /\ pc = "readResponse"
  /\ seq' = 0 /\ collected' = <<>> /\ decoded' = 0
  /\ \/ pc' = "readingResponse" /\ UNCHANGED <<deadline, err>>
     \/ Fail("local") /\ UNCHANGED deadline
  /\ UNCHANGED <<script, sent, got, cut, written, peer, key>>

\* The call: the deadline is set, and everything starts from nothing.
StartReading ==
  /\ pc = "readResponse"
  /\ seq' = 0 /\ collected' = <<>> /\ decoded' = 0
  /\ \/ pc' = "readingResponse" /\ deadline' = "armed" /\ UNCHANGED err
     \/ Fail("local") /\ UNCHANGED deadline
  /\ UNCHANGED <<script, sent, got, cut, written, peer, key>>

\* A return path that leaves the deadline in place.
LeaveReaderArmed == UNCHANGED deadline

\* Every return runs the deferred SetReadDeadline(time.Time{}).
LeaveReader == deadline' = "off"

\* A loop that keeps the data of the last batch only.
KeepLastBatch(records) ==
  /\ Decodes(records, key, seq)
  /\ seq' = NextSeq(records, seq)
  /\ decoded' = decoded + NumberProtected(records)
  /\ collected' = CollectApplicationData(Decoded(Extract(records)))
  /\ UNCHANGED <<pc, err, deadline>>

\* A batch that opens is collected.
CollectBatch(records) ==
  /\ Decodes(records, key, seq)
  /\ seq' = NextSeq(records, seq)
  /\ decoded' = decoded + NumberProtected(records)
  /\ collected' = collected \o CollectApplicationData(Decoded(Extract(records)))
  /\ UNCHANGED <<pc, err, deadline>>

\* A loop that goes on after a record that does not open.
SkipBatch(records) ==
  /\ ~Decodes(records, key, seq)
  /\ UNCHANGED <<pc, err, deadline, seq, collected, decoded>>

\* A record that does not open ends the call: nothing collected is returned,
\* and the sequence number and the rest of its locals end with it.
RejectBatch(records) ==
  /\ ~Decodes(records, key, seq)
  /\ Fail("decode") /\ LeaveReader
  /\ UNCHANGED <<seq, collected, decoded>>

\* One pass of the loop with bytes read.
ReceiveData(k, partial) ==
  /\ pc = "readingResponse"
  /\ ReadReturns(k, partial)
  /\ CollectBatch(Chunk(k)) \/ RejectBatch(Chunk(k))
  /\ UNCHANGED <<script, sent, written, peer, key>>

\* Anything at all has been opened: data, an alert, a ticket.
GotSomething == collected # <<>> \/ decoded > 0

\* One pass with a timeout or EOF: what was collected is returned as it is,
\* unless nothing at all has been opened.
EndResponse(how) ==
  /\ pc = "readingResponse"
  /\ IF GotSomething THEN pc' = "returned" /\ UNCHANGED err ELSE Fail(how)
  /\ LeaveReader
  /\ UNCHANGED <<script, sent, got, cut, written, peer,
                 key, seq, collected, decoded>>

ResponseAtEOF    == ReadAtEOF /\ EndResponse("eof")
ResponseTimesOut == ReadTimesOut /\ EndResponse("timeout")

\* Any other error ends the call without data.
ResponseFails ==
  /\ pc = "readingResponse"
  /\ ReadFails
  /\ Fail("reset") /\ LeaveReader
  /\ UNCHANGED <<script, sent, got, cut, written, peer,
                 key, seq, collected, decoded>>

Reader ==
  \/ StartReading
  \/ \E k \in 0 .. (sent - got), partial \in BOOLEAN : ReceiveData(k, partial)
  \/ ResponseAtEOF
  \/ ResponseTimesOut
  \/ ResponseFails

-----------------------------------------------------------------------------
\* The call alone: the handshake is over and the request has been written.
ServerAppKey == [epoch |-> "application",
                 transcript |-> Append(HelloTranscript, "finished")]

vars == <<connVars, pc, appVars>>

Init ==
  /\ script \in Scripts
  /\ sent = 0 /\ got = 0 /\ cut = FALSE /\ written = 3
  /\ peer = "open" /\ deadline = "off"
  /\ pc = "readResponse" /\ err = "none"
  /\ key = ServerAppKey
  /\ seq = 0 /\ collected = <<>> /\ decoded = 0

Returned == pc \in {"returned", "failed"} /\ UNCHANGED vars

Network == Environment /\ UNCHANGED <<pc, appVars>>

Next == Reader \/ Network \/ Returned

\* As in Handshake: the client runs and time passes, and that is all.
Fairness == WF_vars(Reader) /\ WF_vars(DeadlineExpires /\ UNCHANGED <<pc, appVars>>)

Spec == Init /\ [][Next]_vars /\ Fairness

-----------------------------------------------------------------------------
\* What is not data: positions, counts and states.
ControlTypeOK ==
  /\ ConnTypeOK
  /\ pc \in AppLabel
  /\ key \in Key
  /\ seq \in Nat
  /\ decoded \in Nat
  /\ err \in AppError

\* Every variable keeps its type.
TypeOK == ControlTypeOK /\ collected \in Seq(Data)

\* The data in the script's records, opened or not.
ServerData(n) == CollectApplicationData(Decoded(Extract(Prefix(n))))

(***************************************************************************)
(* The data collected is the server's, in its order, with nothing lost or  *)
(* repeated between reads: all of it up to the last whole record read      *)
(* before the call ended (transport.go 225-261).                           *)
(***************************************************************************)
NothingLostBetweenReads ==
  err # "decode" => collected = ServerData(got)

(***************************************************************************)
(* The next record is opened under its place among the protected records,  *)
(* whatever batches they came in and whatever records lay between them     *)
(* (transport.go 174-197 and 244-245).                                     *)
(***************************************************************************)
SequenceCountsRecords ==
  err # "decode" /\ pc # "readResponse" =>
    seq = Cardinality({i \in 1 .. got :
                         script.records[i].type = "application_data"})

(***************************************************************************)
(* Records that all open under the key are never refused, however they are *)
(* cut into reads and whatever unprotected records lie between them.       *)
(***************************************************************************)
GoodRecordsAccepted ==
  Decodes(script.records, key, 0) => err # "decode"

\* The stream of data this call reads, and how the call stands.
Promise == INSTANCE ByteStream WITH
  stream <- ServerData(Len(script.records)),
  taken  <- collected,
  status <- IF pc \in {"returned", "failed"} THEN pc ELSE "open"

(***************************************************************************)
(* The call keeps the promise of ByteStream: what it takes is the server's *)
(* data from the start, and it returns (transport.go 217-283).             *)
(***************************************************************************)
DeliversByteStream == Promise!Spec
=============================================================================
