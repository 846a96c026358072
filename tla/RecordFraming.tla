---------------------------- MODULE RecordFraming ----------------------------
(***************************************************************************)
(* The split of a byte stream into records, byte by byte: the loop of      *)
(* ParseTLSPlaintextRecordsWithRemainder (internal/messages/record) under  *)
(* the two readers that call it (internal/utils/transport.go).  The flight *)
(* reader parses everything it has accumulated after each read, the        *)
(* application data reader parses the remainder of the last parse and the  *)
(* bytes of the read.                                                      *)
(***************************************************************************)
EXTENDS Naturals, Sequences

Byte == 0 .. 255

RecordHeaderLen == 5

\* `version' is two bytes.  Neither it nor the type is looked at to split.
TLSPlaintext ==
  {rec \in [type : Byte, version : Byte \X Byte, payload : Seq(Byte)] :
     Len(rec.payload) < 65536}

Header(rec) ==
  <<rec.type, rec.version[1], rec.version[2],
    Len(rec.payload) \div 256, Len(rec.payload) % 256>>

Marshal(rec) == Header(rec) \o rec.payload

CONSTANT Streams    \* what a server may send: see Stream

(***************************************************************************)
(* A server's records and their bytes: record i lies behind the first      *)
(* start[i] bytes.                                                         *)
(***************************************************************************)
Stream ==
  {s \in [records : Seq(TLSPlaintext), start : Seq(Nat), bytes : Seq(Byte)] :
     /\ Len(s.start) = Len(s.records) + 1
     /\ s.start[1] = 0
     /\ s.start[Len(s.start)] = Len(s.bytes)
     /\ \A i, j \in 1 .. Len(s.start) : i <= j => s.start[i] <= s.start[j]
     /\ \A i \in 1 .. Len(s.records) :
          /\ s.start[i + 1] = s.start[i] + Len(Marshal(s.records[i]))
          /\ SubSeq(s.bytes, s.start[i] + 1, s.start[i + 1])
               = Marshal(s.records[i])}

ASSUME StreamsAssumption == Streams \subseteq Stream

-----------------------------------------------------------------------------
\* The length field of the header at an offset.
HeaderLength(bytes, at) == 256 * bytes[at + 4] + bytes[at + 5]

RecordLen(bytes, at) == RecordHeaderLen + HeaderLength(bytes, at)

\* ParseTLSPlaintext of the record at an offset.
ParseTLSPlaintext(bytes, at) ==
  [type    |-> bytes[at + 1],
   version |-> <<bytes[at + 2], bytes[at + 3]>>,
   payload |-> SubSeq(bytes, at + RecordHeaderLen + 1,
                             at + RecordLen(bytes, at))]

VARIABLES
  stream,   \* what the server sends
  reader,   \* which reader reads it
  pos,      \* the number of bytes read
  pc,       \* waiting in conn.Read, or parsing
  data,     \* the bytes being parsed, or parsed last
  offset,   \* how many of them are parsed
  parsed,   \* the records found by this parse
  rest,     \* the remainder the last parse returned
  records   \* the records the reader has got so far

vars == <<stream, reader, pos, pc, data, offset, parsed, rest, records>>

Init ==
  /\ stream \in Streams
  /\ reader \in {"flight", "application"}
  /\ pc = "read"
  /\ pos = 0 /\ offset = 0
  /\ data = <<>> /\ parsed = <<>> /\ rest = <<>> /\ records = <<>>

\* A reader that drops the remainder of the last parse.
KeptNothing == IF reader = "flight" THEN data ELSE <<>>

\* What a reader puts before the bytes of the next read.
Kept == IF reader = "flight" THEN data ELSE rest

\* conn.Read returns n bytes, and the parse starts.
Read(n) ==
  /\ pc = "read"
  /\ data' = Kept \o SubSeq(stream.bytes, pos + 1, pos + n)
  /\ pos' = pos + n
  /\ offset' = 0
  /\ parsed' = <<>>
  /\ pc' = "parse"
  /\ UNCHANGED <<stream, reader, rest, records>>

Remaining == Len(data) - offset

\* An off-by-one: a record that ends the data is taken for a partial one.
MoreThanRecordRemains ==
  /\ Remaining >= RecordHeaderLen
  /\ Remaining > RecordLen(data, offset)

\* A whole record is left: its header, and as many bytes as that says.
RecordRemains ==
  /\ Remaining >= RecordHeaderLen
  /\ Remaining >= RecordLen(data, offset)

\* A loop that passes over empty records, and does not move on.
ParseNonEmptyRecord ==
  /\ pc = "parse"
  /\ RecordRemains
  /\ IF HeaderLength(data, offset) = 0
     THEN UNCHANGED <<parsed, offset>>
     ELSE /\ parsed' = Append(parsed, ParseTLSPlaintext(data, offset))
          /\ offset' = offset + RecordLen(data, offset)
  /\ UNCHANGED <<stream, reader, pos, pc, data, rest, records>>

\* One pass of the loop that finds a record.
ParseRecord ==
  /\ pc = "parse"
  /\ RecordRemains
  /\ parsed' = Append(parsed, ParseTLSPlaintext(data, offset))
  /\ offset' = offset + RecordLen(data, offset)
  /\ UNCHANGED <<stream, reader, pos, pc, data, rest, records>>

\* A parse that returns all its data for the remainder.
AllOfData == data

\* What the parse leaves.
Unparsed == SubSeq(data, offset + 1, Len(data))

\* The last pass: the parse returns its records and what is left behind them.
\* The flight reader has all its records from this parse, the other one adds
\* them to those of the earlier reads.
ParseReturns ==
  /\ pc = "parse"
  /\ ~RecordRemains
  /\ rest' = Unparsed
  /\ records' = (IF reader = "flight" THEN <<>> ELSE records) \o parsed
  /\ pc' = "read"
  /\ UNCHANGED <<stream, reader, pos, data, offset, parsed>>

Parse == ParseRecord \/ ParseReturns

\* All that was sent has been read.  What the connection does then is the
\* business of Connection.
AllRead == pc = "read" /\ pos = Len(stream.bytes) /\ UNCHANGED vars

Next == (\E n \in 1 .. Len(stream.bytes) - pos : Read(n)) \/ Parse \/ AllRead

\* The loop runs; nothing is promised of the reads.
Fairness == WF_vars(Parse)

Spec == Init /\ [][Next]_vars /\ Fairness

-----------------------------------------------------------------------------
TypeOK ==
  /\ stream \in Stream
  /\ reader \in {"flight", "application"}
  /\ pos \in 0 .. Len(stream.bytes)
  /\ pc \in {"read", "parse"}
  /\ data \in Seq(Byte) /\ rest \in Seq(Byte)
  /\ offset \in 0 .. Len(data)
  /\ parsed \in Seq(TLSPlaintext) /\ records \in Seq(TLSPlaintext)

\* s is the end of what has been read.
ReadLast(s) ==
  /\ Len(s) <= pos
  /\ \A i \in 1 .. Len(s) : s[i] = stream.bytes[pos - Len(s) + i]

\* No whole record is at the start of s.
NoWholeRecord(s) ==
  Len(s) >= RecordHeaderLen => Len(s) < RecordLen(s, 0)

(***************************************************************************)
(* What a reader holds back for the next read are exactly the bytes it has *)
(* read last, and never a whole record: at every return to conn.Read each  *)
(* byte read is in a record handed over or in this rest, and nothing that  *)
(* could be handed over waits for another read, which may never come       *)
(* (record.go 190-228, transport.go 231-239).                              *)
(***************************************************************************)
RestIsTheUnparsedEnd ==
  pc = "read" => ReadLast(rest) /\ NoWholeRecord(rest)

\* found are the server's records behind the first n.
FoundAfter(n, found) ==
  /\ n + Len(found) <= Len(stream.records)
  /\ \A i \in 1 .. Len(found) : found[i] = stream.records[n + i]

\* The records a reader had before this parse; the flight reader none.
Before == IF reader = "flight" THEN 0 ELSE Len(records)

\* While parsing: the data starts where a record does, the offset is where
\* the next one does, and those between are the records parsed.
ParseInv ==
  /\ FoundAfter(Before, parsed)
  /\ pos - Len(data) = stream.start[Before + 1]
  /\ pos - Len(data) + offset = stream.start[Before + Len(parsed) + 1]

\* While reading: the rest starts where the first record not yet got does.
ReadInv ==
  /\ pos - Len(rest) = stream.start[Len(records) + 1]
  /\ reader = "flight" => Len(data) = pos

\* The inductive invariant.
FramingInv ==
  /\ TypeOK
  /\ ReadLast(data)
  /\ FoundAfter(0, records)
  /\ stream.start[Len(records) + 1] <= pos
  /\ pc = "parse" => ParseInv
  /\ pc = "read"  => ReadInv
  /\ RestIsTheUnparsedEnd

\* The stream of records under the stream of bytes.
Records == INSTANCE RecordStream WITH
  script  <- stream.records,
  partial <- rest # <<>>

(***************************************************************************)
(* Both readers get the server's records in order, each whole and once,    *)
(* and a rest exactly when the last read ended inside a record, wherever   *)
(* TCP cut the bytes, inside a header too: the loop under either reader    *)
(* implements RecordStream.                                                *)
(***************************************************************************)
ImplementsRecordStream == Records!Spec

(***************************************************************************)
(* Every parse comes to its end, also on records without a payload: each   *)
(* pass of the loop leaves at least a header behind it (record.go 225).    *)
(***************************************************************************)
ParseEnds == pc = "parse" ~> pc = "read"
=============================================================================
