---------------------------- MODULE FramingProofs ----------------------------
(***************************************************************************)
(* Theorems about RecordFraming, for every stream of records and every cut *)
(* of its bytes into reads: what a reader holds back is the unparsed end   *)
(* of what it has read, and both readers implement RecordStream.           *)
(***************************************************************************)
EXTENDS RecordFraming, SequenceTheorems, TLAPS

-----------------------------------------------------------------------------
(* The bytes of one record.                                                *)

\* c is a sequence over S that starts with a and goes on with b.
Joins(c, S, a, b) ==
  /\ c \in Seq(S)
  /\ Len(c) = Len(a) + Len(b)
  /\ \A i \in 1 .. Len(a) : c[i] = a[i]
  /\ \A i \in 1 .. Len(b) : c[Len(a) + i] = b[i]

\* Where the elements of a concatenation come from.
LEMMA Concat ==
  ASSUME NEW S, NEW a \in Seq(S), NEW b \in Seq(S)
  PROVE  Joins(a \o b, S, a, b)
BY ConcatProperties DEF Joins

\* The n bytes behind the first m of a string.
LEMMA BytesBehind ==
  ASSUME NEW bytes \in Seq(Byte), NEW m \in Nat, NEW n \in Nat,
         m + n <= Len(bytes)
  PROVE  /\ SubSeq(bytes, m + 1, m + n) \in Seq(Byte)
         /\ Len(SubSeq(bytes, m + 1, m + n)) = n
         /\ \A i \in 1 .. n : SubSeq(bytes, m + 1, m + n)[i] = bytes[m + i]
<1>1. Len(bytes) \in Nat /\ \A i \in 1 .. Len(bytes) : bytes[i] \in Byte
  BY ElementOfSeq, LenProperties
<1>2. \A i \in m + 1 .. m + n : bytes[i] \in Byte
  BY <1>1
<1>3. /\ SubSeq(bytes, m + 1, m + n) \in Seq(Byte)
      /\ Len(SubSeq(bytes, m + 1, m + n))
           = IF m + 1 <= m + n THEN (m + n) - (m + 1) + 1 ELSE 0
      /\ \A i \in 1 .. (m + n) - (m + 1) + 1 :
           SubSeq(bytes, m + 1, m + n)[i] = bytes[(m + 1) + i - 1]
  BY <1>2, SubSeqProperties
<1>4. (m + n) - (m + 1) + 1 = n /\ \A i \in 1 .. n : (m + 1) + i - 1 = m + i
  OBVIOUS
<1>5. Len(SubSeq(bytes, m + 1, m + n)) = n
  BY <1>3, <1>4
<1>6. ASSUME NEW i \in 1 .. n
      PROVE  SubSeq(bytes, m + 1, m + n)[i] = bytes[m + i]
  BY <1>3, <1>4, Zenon
<1> QED
  BY <1>3, <1>5, <1>6

\* The length field of a marshalled record says how long its payload is.
LEMMA MarshalBytes ==
  ASSUME NEW rec \in TLSPlaintext
  PROVE  /\ Marshal(rec) \in Seq(Byte)
         /\ Len(Marshal(rec)) = RecordHeaderLen + Len(rec.payload)
         /\ Marshal(rec)[1] = rec.type
         /\ Marshal(rec)[2] = rec.version[1]
         /\ Marshal(rec)[3] = rec.version[2]
         /\ 256 * Marshal(rec)[4] + Marshal(rec)[5] = Len(rec.payload)
         /\ \A i \in 1 .. Len(rec.payload) :
              Marshal(rec)[RecordHeaderLen + i] = rec.payload[i]
<1> DEFINE n  == Len(rec.payload)
           hi == n \div 256
           lo == n % 256
           v1 == rec.version[1]
           v2 == rec.version[2]
           h  == Header(rec)
           w  == Marshal(rec)
<1>1. /\ rec.type \in Byte
      /\ rec.version \in Byte \X Byte
      /\ rec.payload \in Seq(Byte)
      /\ n < 65536
  BY DEF TLSPlaintext
<1>2. n \in Nat
  BY <1>1
<1>3. v1 \in Byte /\ v2 \in Byte
  BY <1>1
<1> HIDE DEF n
<1>4. hi \in Byte /\ lo \in Byte /\ 256 * hi + lo = n
  BY <1>1, <1>2, SMT DEF Byte
<1>5. h = <<rec.type, v1, v2, hi, lo>>
  BY DEF Header, n
<1> HIDE DEF hi, lo, v1, v2, h
<1> DEFINE H == RecordHeaderLen
<1>6. /\ h \in Seq(Byte) /\ Len(h) = H
      /\ h[1] = rec.type /\ h[2] = v1 /\ h[3] = v2 /\ h[4] = hi /\ h[5] = lo
  BY <1>1, <1>3, <1>4, <1>5 DEF RecordHeaderLen
<1>7. w = h \o rec.payload
  BY DEF Marshal, h
<1>8. /\ w \in Seq(Byte) /\ Len(w) = H + n
      /\ \A i \in 1 .. H : w[i] = h[i]
      /\ \A i \in 1 .. n : w[H + i] = rec.payload[i]
  <2> DEFINE payload == rec.payload
  <2>1. payload \in Seq(Byte) /\ Len(payload) = n
    BY <1>1 DEF n
  <2> HIDE DEF payload, w, H
  <2>2. Joins(h \o payload, Byte, h, payload)
    BY <1>6, <2>1, Concat, Zenon
  <2>3. w = h \o payload
    BY <1>7 DEF payload
  <2>4. \A i \in 1 .. n : w[H + i] = payload[i]
    BY <1>6, <2>1, <2>2, <2>3, Zenon DEF Joins
  <2>5. /\ w \in Seq(Byte) /\ Len(w) = H + n
        /\ \A i \in 1 .. H : w[i] = h[i]
    BY <1>6, <2>1, <2>2, <2>3, Zenon DEF Joins
  <2> QED
    BY <2>4, <2>5, Zenon DEF payload
<1> HIDE DEF w
<1>9. w[1] = rec.type /\ w[2] = v1 /\ w[3] = v2 /\ w[4] = hi /\ w[5] = lo
  BY <1>6, <1>8 DEF RecordHeaderLen
<1>10. 256 * w[4] + w[5] = n
  BY <1>4, <1>9
<1> QED
  BY <1>8, <1>9, <1>10 DEF n, v1, v2, w

\* What the fields of a stream are.
LEMMA StreamFacts ==
  ASSUME NEW s \in Stream
  PROVE  /\ s.records \in Seq(TLSPlaintext)
         /\ s.start \in Seq(Nat)
         /\ s.bytes \in Seq(Byte)
         /\ Len(s.records) \in Nat /\ Len(s.bytes) \in Nat
         /\ Len(s.start) = Len(s.records) + 1
         /\ s.start[1] = 0
         /\ s.start[Len(s.records) + 1] = Len(s.bytes)
         /\ \A i \in 1 .. Len(s.records) + 1 :
              s.start[i] \in Nat /\ s.start[i] <= Len(s.bytes)
<1>1. /\ s.records \in Seq(TLSPlaintext)
      /\ s.start \in Seq(Nat)
      /\ s.bytes \in Seq(Byte)
      /\ Len(s.start) = Len(s.records) + 1
      /\ s.start[1] = 0
      /\ s.start[Len(s.start)] = Len(s.bytes)
      /\ \A i, j \in 1 .. Len(s.start) : i <= j => s.start[i] <= s.start[j]
  BY DEF Stream
<1>2. Len(s.records) \in Nat /\ Len(s.bytes) \in Nat
  BY <1>1
<1>3. \A i \in 1 .. Len(s.records) + 1 : s.start[i] \in Nat
  BY <1>1, ElementOfSeq
<1>4. ASSUME NEW i \in 1 .. Len(s.records) + 1
      PROVE  s.start[i] <= Len(s.bytes)
  <2>1. /\ i \in 1 .. Len(s.start) /\ Len(s.start) \in 1 .. Len(s.start)
        /\ i <= Len(s.start)
    BY <1>1, <1>2
  <2> QED
    BY <1>1, <2>1, Zenon
<1> QED
  BY <1>1, <1>2, <1>3, <1>4

\* The record behind start[i] of a stream.
LEMMA RecordOfStream ==
  ASSUME NEW s \in Stream, NEW i \in 1 .. Len(s.records)
  PROVE  /\ s.records[i] \in TLSPlaintext
         /\ s.start[i + 1]
              = s.start[i] + RecordHeaderLen + Len(s.records[i].payload)
         /\ \A k \in 1 .. Len(Marshal(s.records[i])) :
              s.bytes[s.start[i] + k] = Marshal(s.records[i])[k]
<1> DEFINE rec  == s.records[i]
           from == s.start[i]
           upto == s.start[i + 1]
           n    == Len(rec.payload)
           w    == Marshal(rec)
<1>1. rec \in TLSPlaintext
  BY StreamFacts, ElementOfSeq
<1>2. /\ upto = from + Len(w)
      /\ SubSeq(s.bytes, from + 1, upto) = w
  BY DEF Stream
<1>3. n \in Nat
  BY <1>1 DEF TLSPlaintext
<1>4. w \in Seq(Byte) /\ Len(w) = 5 + n
  BY <1>1, MarshalBytes DEF RecordHeaderLen
<1>5. from \in Nat /\ upto \in Nat /\ upto <= Len(s.bytes)
  <2>1. Len(s.records) \in Nat
    BY StreamFacts
  <2>2. i \in 1 .. Len(s.records) + 1 /\ i + 1 \in 1 .. Len(s.records) + 1
    BY <2>1
  <2>3. \A j \in 1 .. Len(s.records) + 1 :
          s.start[j] \in Nat /\ s.start[j] <= Len(s.bytes)
    BY StreamFacts, Zenon
  <2> QED
    BY <2>2, <2>3, Zenon
<1>6. s.bytes \in Seq(Byte)
  BY StreamFacts
<1> HIDE DEF rec, from, upto, n, w
<1>7. \A k \in 1 .. Len(w) : s.bytes[from + k] = w[k]
  <2> TAKE k \in 1 .. Len(w)
  <2>1. /\ Len(w) \in Nat /\ from + Len(w) <= Len(s.bytes)
        /\ upto = from + Len(w)
    BY <1>2, <1>3, <1>4, <1>5
  <2>2. SubSeq(s.bytes, from + 1, from + Len(w))[k] = s.bytes[from + k]
    BY <2>1, <1>5, <1>6, BytesBehind, Zenon
  <2> QED
    BY <2>1, <2>2, <1>2, Zenon
<1>8. upto = from + RecordHeaderLen + n
  BY <1>2, <1>3, <1>4, <1>5 DEF RecordHeaderLen
<1> QED
  BY <1>1, <1>7, <1>8 DEF rec, from, upto, n, w

(***************************************************************************)
(* Bytes that were read from where a record starts.  When the header is    *)
(* there it says how long the server's record is, and when the record is   *)
(* there it is the server's.                                               *)
(***************************************************************************)
LEMMA RecordInBytes ==
  ASSUME NEW s \in Stream, NEW i \in 1 .. Len(s.records),
         NEW bytes \in Seq(Byte), NEW at \in Nat,
         NEW base \in Nat,
         base + Len(bytes) <= Len(s.bytes),
         \A k \in 1 .. Len(bytes) : bytes[k] = s.bytes[base + k],
         base + at = s.start[i],
         at + RecordHeaderLen <= Len(bytes)
  PROVE  /\ RecordLen(bytes, at) \in Nat
         /\ RecordLen(bytes, at) >= RecordHeaderLen
         /\ base + at + RecordLen(bytes, at) = s.start[i + 1]
         /\ at + RecordLen(bytes, at) <= Len(bytes) =>
              ParseTLSPlaintext(bytes, at) = s.records[i]
<1> DEFINE rec == s.records[i]
           n == Len(rec.payload)
           wire == Marshal(rec)
<1>1. /\ rec \in TLSPlaintext
      /\ s.start[i + 1] = s.start[i] + 5 + n
      /\ \A k \in 1 .. Len(wire) : s.bytes[s.start[i] + k] = wire[k]
  BY RecordOfStream DEF RecordHeaderLen
<1>2. /\ wire \in Seq(Byte)
      /\ Len(wire) = 5 + n
      /\ wire[1] = rec.type /\ wire[2] = rec.version[1]
      /\ wire[3] = rec.version[2]
      /\ 256 * wire[4] + wire[5] = n
      /\ \A k \in 1 .. n : wire[5 + k] = rec.payload[k]
  BY <1>1, MarshalBytes, Zenon DEF RecordHeaderLen
<1>3. rec.payload \in Seq(Byte) /\ n \in Nat
  BY <1>1 DEF TLSPlaintext
<1>4. Len(bytes) \in Nat
  OBVIOUS
<1> HIDE DEF wire, n
<1>5. ASSUME NEW k \in 1 .. 5 + n, at + k <= Len(bytes)
      PROVE  bytes[at + k] = wire[k]
  <2>1. at + k \in 1 .. Len(bytes)
    BY <1>3, <1>4, <1>5
  <2>2. bytes[at + k] = s.bytes[base + (at + k)]
    BY <2>1
  <2>3. base + (at + k) = s.start[i] + k
    BY <1>3
  <2>4. k \in 1 .. Len(wire)
    BY <1>2
  <2> QED
    BY <1>1, <2>2, <2>3, <2>4, Zenon
<1>6. \A k \in 1 .. 5 : bytes[at + k] = wire[k]
  BY <1>3, <1>4, <1>5 DEF RecordHeaderLen
<1>7. RecordLen(bytes, at) = 5 + n
  BY <1>2, <1>6 DEF RecordLen, HeaderLength, RecordHeaderLen
<1>8. ASSUME at + (5 + n) <= Len(bytes)
      PROVE  ParseTLSPlaintext(bytes, at) = rec
  <2> DEFINE body == SubSeq(bytes, at + 6, at + (5 + n))
  <2>1. body \in Seq(Byte) /\ Len(body) = n
    BY <1>3, <1>4, <1>8, SubSeqProperties
  <2>2. \A k \in 1 .. n : body[k] = bytes[at + (5 + k)]
    <3> TAKE k \in 1 .. n
    <3>1. body[k] = bytes[at + 6 + k - 1]
      BY <1>3, <1>4, <1>8, SubSeqProperties
    <3> QED
      BY <3>1, <1>3
  <2>3. \A k \in 1 .. n : body[k] = rec.payload[k]
    <3> TAKE k \in 1 .. n
    <3> DEFINE m == 5 + k
    <3>1. m \in 1 .. 5 + n /\ at + m <= Len(bytes)
      BY <1>3, <1>4, <1>8
    <3> HIDE DEF m
    <3>2. bytes[at + m] = wire[m]
      BY <3>1, <1>5
    <3> QED
      BY <3>2, <2>2, <1>2 DEF m
  <2>4. body = rec.payload
    BY <2>1, <2>3, <1>3, SeqEqual DEF n
  <2>5. /\ at + RecordHeaderLen + 1 = at + 6
        /\ at + RecordLen(bytes, at) = at + (5 + n)
    BY <1>7 DEF RecordHeaderLen
  <2> HIDE DEF body
  <2>6. ParseTLSPlaintext(bytes, at)
          = [type |-> bytes[at + 1],
             version |-> <<bytes[at + 2], bytes[at + 3]>>, payload |-> body]
    BY <2>5, Zenon DEF ParseTLSPlaintext, body
  <2>7. /\ bytes[at + 1] = rec.type
        /\ bytes[at + 2] = rec.version[1]
        /\ bytes[at + 3] = rec.version[2]
    BY <1>2, <1>6
  <2>8. /\ rec = [type |-> rec.type, version |-> rec.version,
                  payload |-> rec.payload]
        /\ rec.version = <<rec.version[1], rec.version[2]>>
    <3> HIDE DEF rec
    <3> QED
      BY <1>1 DEF TLSPlaintext
  <2> QED
    BY <2>4, <2>6, <2>7, <2>8, Zenon
<1>9. RecordLen(bytes, at) \in Nat /\ RecordLen(bytes, at) >= RecordHeaderLen
  BY <1>3, <1>7 DEF RecordHeaderLen
<1>10. base + at + RecordLen(bytes, at) = s.start[i + 1]
  <2>1. /\ s.start[i + 1] = s.start[i] + 5 + n
        /\ base + at = s.start[i]
    BY <1>1
  <2>2. s.start[i + 1] = base + at + (5 + n)
    BY <2>1, <1>3
  <2> QED
    BY <2>2, <1>7, Zenon
<1> QED
  BY <1>7, <1>8, <1>9, <1>10, Zenon DEF rec

-----------------------------------------------------------------------------
(* The parse, in a state of the invariant.                                 *)

\* The index of the record the parse has come to.
At == Before + Len(parsed) + 1

\* While parsing, the offset is where the next of the server's records
\* starts, and if bytes are left there is such a record.
LEMMA AtRecord ==
  ASSUME FramingInv, pc = "parse"
  PROVE  /\ At \in 1 .. Len(stream.records) + 1
         /\ pos - Len(data) \in Nat
         /\ pos - Len(data) + offset = stream.start[At]
         /\ Remaining \in Nat
         /\ Remaining > 0 => At \in 1 .. Len(stream.records)
<1>1. stream \in Stream /\ TypeOK /\ ReadLast(data) /\ ParseInv
  BY DEF FramingInv, TypeOK
<1>2. /\ Len(stream.records) \in Nat /\ Len(stream.bytes) \in Nat
      /\ stream.start[Len(stream.records) + 1] = Len(stream.bytes)
  BY <1>1, StreamFacts
<1>3. /\ pos \in Nat /\ pos <= Len(stream.bytes)
      /\ Len(data) \in Nat /\ offset \in Nat /\ offset <= Len(data)
      /\ Len(data) <= pos
  BY <1>1, <1>2 DEF TypeOK, ReadLast
<1>4. Before \in Nat /\ Len(parsed) \in Nat
  BY <1>1 DEF TypeOK, Before
<1>5. /\ Before + Len(parsed) <= Len(stream.records)
      /\ pos - Len(data) + offset = stream.start[Before + Len(parsed) + 1]
  BY <1>1 DEF ParseInv, FoundAfter
<1>6. At \in 1 .. Len(stream.records) + 1
  BY <1>2, <1>4, <1>5 DEF At
<1>7. At = Len(stream.records) + 1 => Remaining = 0
  BY <1>2, <1>3, <1>5 DEF At, Remaining
<1> QED
  BY <1>2, <1>3, <1>5, <1>6, <1>7 DEF At, Remaining

\* When its header is there, it ends where the next record starts.
LEMMA RecordAtOffset ==
  ASSUME FramingInv, pc = "parse", Remaining >= RecordHeaderLen
  PROVE  /\ At \in 1 .. Len(stream.records)
         /\ RecordLen(data, offset) \in Nat
         /\ RecordLen(data, offset) >= RecordHeaderLen
         /\ pos - Len(data) + offset + RecordLen(data, offset)
              = stream.start[At + 1]
         /\ RecordRemains =>
              ParseTLSPlaintext(data, offset) = stream.records[At]
<1> DEFINE base == pos - Len(data)
<1>1. stream \in Stream /\ TypeOK /\ ReadLast(data)
  BY DEF FramingInv, TypeOK
<1>2. /\ At \in 1 .. Len(stream.records)
      /\ base \in Nat /\ base + offset = stream.start[At]
  BY AtRecord DEF RecordHeaderLen
<1>3. /\ data \in Seq(Byte) /\ offset \in Nat
      /\ pos <= Len(stream.bytes) /\ pos \in Nat /\ Len(data) \in Nat
  BY <1>1, StreamFacts DEF TypeOK
<1>4. \A k \in 1 .. Len(data) : data[k] = stream.bytes[base + k]
  BY <1>1 DEF ReadLast
<1>5. base + Len(data) <= Len(stream.bytes)
  BY <1>1, <1>3, StreamFacts
<1>6. offset + RecordHeaderLen <= Len(data)
  BY <1>3 DEF Remaining, RecordHeaderLen
<1> HIDE DEF base
<1>7. /\ RecordLen(data, offset) \in Nat
      /\ RecordLen(data, offset) >= RecordHeaderLen
      /\ base + offset + RecordLen(data, offset) = stream.start[At + 1]
      /\ offset + RecordLen(data, offset) <= Len(data) =>
           ParseTLSPlaintext(data, offset) = stream.records[At]
  BY <1>1, <1>2, <1>3, <1>4, <1>5, <1>6, RecordInBytes
<1>8. RecordRemains => offset + RecordLen(data, offset) <= Len(data)
  BY <1>3, <1>7 DEF RecordRemains, Remaining
<1> QED
  BY <1>2, <1>7, <1>8 DEF base

-----------------------------------------------------------------------------
(* The invariant is kept.                                                  *)

LEMMA InitFraming == Init => FramingInv
<1> SUFFICES ASSUME Init PROVE FramingInv
  OBVIOUS
<1>1. stream \in Stream
  BY StreamsAssumption DEF Init
<1>2. stream.start[1] = 0 /\ Len(stream.bytes) \in Nat /\ Len(stream.records) \in Nat
  BY <1>1, StreamFacts
<1>3. TypeOK
  BY <1>1, <1>2 DEF Init, TypeOK
<1>4. ReadLast(data) /\ RestIsTheUnparsedEnd
  BY DEF Init, ReadLast, RestIsTheUnparsedEnd, NoWholeRecord, RecordHeaderLen
<1>5. FoundAfter(0, records) /\ ReadInv /\ stream.start[Len(records) + 1] <= pos
  BY <1>2 DEF Init, FoundAfter, ReadInv
<1> QED
  BY <1>3, <1>4, <1>5 DEF FramingInv, Init

LEMMA ReadStep ==
  ASSUME FramingInv, NEW n \in 1 .. Len(stream.bytes) - pos, Read(n)
  PROVE  FramingInv'
<1> DEFINE chunk == SubSeq(stream.bytes, pos + 1, pos + n)
<1>1. /\ stream \in Stream /\ TypeOK /\ ReadLast(data) /\ ReadInv
      /\ ReadLast(rest) /\ FoundAfter(0, records)
      /\ stream.start[Len(records) + 1] <= pos
  BY DEF FramingInv, TypeOK, Read, RestIsTheUnparsedEnd
<1>2. /\ stream' = stream /\ reader' = reader /\ rest' = rest
      /\ records' = records /\ pos' = pos + n /\ offset' = 0
      /\ parsed' = <<>> /\ pc' = "parse" /\ data' = Kept \o chunk
  BY DEF Read
<1>3. /\ stream.bytes \in Seq(Byte) /\ Len(stream.bytes) \in Nat
      /\ Len(stream.records) \in Nat /\ stream.start[1] = 0
  BY <1>1, StreamFacts
<1>4. /\ pos \in Nat /\ n \in Nat /\ pos + n <= Len(stream.bytes)
  BY <1>1, <1>3 DEF TypeOK
<1>5. /\ chunk \in Seq(Byte) /\ Len(chunk) = n
      /\ \A i \in 1 .. n : chunk[i] = stream.bytes[pos + i]
  BY <1>3, <1>4, BytesBehind, Zenon
<1>6. /\ Kept \in Seq(Byte) /\ ReadLast(Kept)
      /\ pos - Len(Kept) = stream.start[Before + 1]
  <2>1. data \in Seq(Byte) /\ rest \in Seq(Byte)
    BY <1>1 DEF TypeOK
  <2>2. CASE reader = "flight"
    BY <2>1, <2>2, <1>1, <1>3, <1>4 DEF Kept, Before, ReadInv
  <2>3. CASE reader # "flight"
    BY <2>1, <2>3, <1>1 DEF Kept, Before, ReadInv
  <2> QED
    BY <2>2, <2>3
<1> HIDE DEF chunk
<1>7. /\ data' \in Seq(Byte)
      /\ Len(data') = Len(Kept) + n
      /\ \A i \in 1 .. Len(Kept) : data'[i] = Kept[i]
      /\ \A i \in 1 .. n : data'[Len(Kept) + i] = chunk[i]
  <2>1. /\ data' = Kept \o chunk
        /\ Kept \in Seq(Byte) /\ chunk \in Seq(Byte) /\ Len(chunk) = n
    BY <1>2, <1>5, <1>6
  <2>2. Joins(Kept \o chunk, Byte, Kept, chunk)
    BY <2>1, Concat, Zenon
  <2> QED
    BY <2>1, <2>2, Zenon DEF Joins
<1>8. Len(Kept) \in Nat /\ Len(Kept) <= pos
  BY <1>6 DEF ReadLast
<1>9. ReadLast(data)'
  <2>1. Len(data') <= pos'
    BY <1>2, <1>4, <1>7, <1>8
  <2>2. ASSUME NEW i \in 1 .. Len(data')
        PROVE  data'[i] = stream.bytes[pos' - Len(data') + i]
    <3>1. CASE i <= Len(Kept)
      <4>1. i \in 1 .. Len(Kept)
        BY <3>1, <1>4, <1>7, <1>8
      <4>2. data'[i] = stream.bytes[pos - Len(Kept) + i]
        BY <4>1, <1>6, <1>7 DEF ReadLast
      <4>3. pos' - Len(data') = pos - Len(Kept)
        BY <1>2, <1>4, <1>7, <1>8
      <4> QED
        BY <4>2, <4>3
    <3>2. CASE i > Len(Kept)
      <4> DEFINE j == i - Len(Kept)
      <4>1. j \in 1 .. n /\ Len(Kept) + j = i
        BY <3>2, <1>4, <1>7, <1>8
      <4>2. pos' - Len(data') + i = pos + j
        BY <4>1, <1>2, <1>4, <1>7, <1>8
      <4> HIDE DEF j
      <4> QED
        BY <4>1, <4>2, <1>5, <1>7
    <3> QED
      BY <3>1, <3>2, <1>7, <1>8
  <2> QED
    BY <2>1, <2>2, <1>2 DEF ReadLast
<1>10. TypeOK'
  BY <1>1, <1>2, <1>3, <1>4, <1>7, <1>8 DEF TypeOK
<1>11. ParseInv'
  <2>1. Before' = Before /\ Before \in Nat /\ Before <= Len(stream.records)
    BY <1>1, <1>2, <1>3 DEF Before, FoundAfter, TypeOK
  <2>2. FoundAfter(Before, parsed)'
    BY <2>1, <1>2, <1>3 DEF FoundAfter
  <2>3. pos' - Len(data') = stream.start[Before + 1]
    BY <1>2, <1>4, <1>6, <1>7, <1>8
  <2> QED
    BY <2>1, <2>2, <2>3, <1>2, <1>4, <1>7, <1>8 DEF ParseInv
<1>12. FoundAfter(0, records)' /\ (stream.start[Len(records) + 1] <= pos)'
  <2>1. Len(records) \in Nat /\ Len(records) <= Len(stream.records)
    BY <1>1 DEF FoundAfter, TypeOK
  <2>2. Len(records) + 1 \in 1 .. Len(stream.records) + 1
    BY <2>1, <1>3
  <2>3. stream.start[Len(records) + 1] \in Nat
    BY <2>2, <1>1, StreamFacts
  <2>4. stream.start[Len(records) + 1] <= pos + n
    BY <2>3, <1>1, <1>4
  <2>5. FoundAfter(0, records)'
    BY <1>1, <1>2 DEF FoundAfter
  <2> QED
    BY <2>4, <2>5, <1>2
<1> QED
  BY <1>2, <1>9, <1>10, <1>11, <1>12 DEF FramingInv, RestIsTheUnparsedEnd

LEMMA ParseRecordStep ==
  ASSUME FramingInv, ParseRecord
  PROVE  FramingInv'
<1> DEFINE rec == ParseTLSPlaintext(data, offset)
           len == RecordLen(data, offset)
<1>1. /\ stream \in Stream /\ TypeOK /\ ReadLast(data) /\ ParseInv
      /\ FoundAfter(0, records) /\ stream.start[Len(records) + 1] <= pos
      /\ pc = "parse" /\ RecordRemains
  BY DEF FramingInv, TypeOK, ParseRecord
<1>2. /\ stream' = stream /\ reader' = reader /\ rest' = rest
      /\ records' = records /\ pos' = pos /\ data' = data /\ pc' = "parse"
      /\ parsed' = Append(parsed, rec) /\ offset' = offset + len
  BY <1>1 DEF ParseRecord
<1>3. /\ Len(stream.records) \in Nat
      /\ stream.records \in Seq(TLSPlaintext)
      /\ At \in 1 .. Len(stream.records)
      /\ len \in Nat
      /\ pos - Len(data) + offset + len = stream.start[At + 1]
      /\ rec = stream.records[At]
  BY <1>1, StreamFacts, RecordAtOffset DEF RecordRemains
<1>4. rec \in TLSPlaintext
  BY <1>3, ElementOfSeq
<1>5. /\ parsed \in Seq(TLSPlaintext) /\ Len(parsed) \in Nat
      /\ offset \in Nat /\ Len(data) \in Nat /\ pos \in Nat
      /\ Before \in Nat
  BY <1>1, StreamFacts DEF TypeOK, Before
<1> HIDE DEF rec, len
<1>6. /\ parsed' \in Seq(TLSPlaintext)
      /\ Len(parsed') = Len(parsed) + 1
      /\ \A i \in 1 .. Len(parsed) : parsed'[i] = parsed[i]
      /\ parsed'[Len(parsed) + 1] = rec
  BY <1>2, <1>4, <1>5, AppendProperties
<1>7. offset + len <= Len(data)
  BY <1>1, <1>3, <1>5 DEF RecordRemains, Remaining, len
<1>8. TypeOK'
  BY <1>1, <1>2, <1>3, <1>5, <1>6, <1>7 DEF TypeOK
<1>9. Before' = Before
  BY <1>2 DEF Before
<1>10. FoundAfter(Before, parsed)'
  <2>1. Before + Len(parsed') <= Len(stream.records)
    BY <1>3, <1>5, <1>6 DEF At
  <2>2. ASSUME NEW i \in 1 .. Len(parsed')
        PROVE  parsed'[i] = stream.records[Before + i]
    <3>1. CASE i \in 1 .. Len(parsed)
      BY <3>1, <1>1, <1>6 DEF ParseInv, FoundAfter
    <3>2. CASE i = Len(parsed) + 1
      BY <3>2, <1>3, <1>5, <1>6 DEF At
    <3> QED
      BY <3>1, <3>2, <1>5, <1>6
  <2> QED
    BY <2>1, <2>2, <1>2, <1>9 DEF FoundAfter
<1>11. ParseInv'
  <2>1. pos' - Len(data') + offset' = stream'.start[Before' + Len(parsed') + 1]
    BY <1>2, <1>3, <1>5, <1>6, <1>9 DEF At
  <2>2. pos' - Len(data') = stream'.start[Before' + 1]
    BY <1>1, <1>2, <1>9 DEF ParseInv
  <2> QED
    BY <2>1, <2>2, <1>10 DEF ParseInv
<1> QED
  BY <1>1, <1>2, <1>8, <1>11
  DEF FramingInv, RestIsTheUnparsedEnd, ReadLast, FoundAfter

(***************************************************************************)
(* The records a reader has when the parse returns: the server's, in order *)
(* and from the first, no fewer than before.  Something is left behind     *)
(* them only if a record is still to come.                                 *)
(***************************************************************************)
LEMMA ParseReturnsRecords ==
  ASSUME FramingInv, ParseReturns
  PROVE  /\ records' \in Seq(TLSPlaintext)
         /\ FoundAfter(0, records)'
         /\ Len(records') + 1 = At
         /\ Len(records) <= Len(records')
         /\ pos - Remaining = stream.start[Len(records') + 1]
         /\ Remaining > 0 => Len(records') < Len(stream.records)
<1>1. /\ stream \in Stream /\ TypeOK /\ ParseInv
      /\ FoundAfter(0, records) /\ stream.start[Len(records) + 1] <= pos
      /\ pc = "parse" /\ ~RecordRemains
      /\ stream' = stream /\ pos' = pos
      /\ records' = (IF reader = "flight" THEN <<>> ELSE records) \o parsed
  BY DEF FramingInv, TypeOK, ParseReturns
<1>2. /\ Len(stream.records) \in Nat /\ Len(stream.bytes) \in Nat
      /\ \A i \in 1 .. Len(stream.records) + 1 : stream.start[i] \in Nat
      /\ \A i, j \in 1 .. Len(stream.records) + 1 :
           i <= j => stream.start[i] <= stream.start[j]
  BY <1>1, StreamFacts DEF Stream
<1>3. /\ parsed \in Seq(TLSPlaintext) /\ Len(parsed) \in Nat
      /\ records \in Seq(TLSPlaintext) /\ Len(records) \in Nat
      /\ pos \in Nat /\ Len(data) \in Nat /\ offset \in Nat
      /\ Before \in Nat
  BY <1>1, <1>2 DEF TypeOK, Before
<1>4. /\ At \in 1 .. Len(stream.records) + 1
      /\ pos - Len(data) + offset = stream.start[At]
      /\ Remaining > 0 => At \in 1 .. Len(stream.records)
  BY <1>1, AtRecord
<1>5. /\ records' \in Seq(TLSPlaintext)
      /\ Len(records') = Before + Len(parsed)
      /\ FoundAfter(0, records)'
  <2>1. CASE reader = "flight"
    <3>1. records' = parsed
      BY <2>1, <1>1, <1>3
    <3> QED
      BY <2>1, <3>1, <1>1, <1>3 DEF Before, ParseInv, FoundAfter
  <2>2. CASE reader # "flight"
    <3>1. records' = records \o parsed
      BY <2>2, <1>1
    <3>2. /\ records' \in Seq(TLSPlaintext)
          /\ Len(records') = Len(records) + Len(parsed)
          /\ \A i \in 1 .. Len(records) : records'[i] = records[i]
          /\ \A i \in 1 .. Len(parsed) :
               records'[Len(records) + i] = parsed[i]
      <4>1. Joins(records \o parsed, TLSPlaintext, records, parsed)
        BY <1>3, Concat, Zenon
      <4> QED
        BY <3>1, <4>1, Zenon DEF Joins
    <3>3. Before = Len(records)
      BY <2>2 DEF Before
    <3>4. ASSUME NEW i \in 1 .. Len(records')
          PROVE  records'[i] = stream.records[i]
      <4>1. CASE i <= Len(records)
        BY <4>1, <3>2, <1>1, <1>3 DEF FoundAfter
      <4>2. CASE i > Len(records)
        <5> DEFINE k == i - Len(records)
        <5>1. k \in 1 .. Len(parsed) /\ Len(records) + k = i
          BY <4>2, <3>2, <1>3
        <5> HIDE DEF k
        <5> QED
          BY <5>1, <3>2, <3>3, <1>1 DEF ParseInv, FoundAfter
      <4> QED
        BY <4>1, <4>2, <1>3, <3>2
    <3> QED
      BY <3>2, <3>3, <3>4, <1>1, <1>3 DEF ParseInv, FoundAfter
  <2> QED
    BY <2>1, <2>2
<1>6. Len(records') + 1 = At
  BY <1>3, <1>5 DEF At
<1>7. pos - Remaining = stream.start[At]
  BY <1>3, <1>4 DEF Remaining
<1>8. Len(records) <= Len(records')
  <2> SUFFICES ASSUME Len(records') < Len(records) PROVE FALSE
    BY <1>3, <1>4, <1>6
  <2>1. /\ At + 1 <= Len(records) + 1
        /\ Len(records) + 1 \in 1 .. Len(stream.records) + 1
        /\ At \in 1 .. Len(stream.records)
        /\ At + 1 \in 1 .. Len(stream.records) + 1
    <3>1. Len(records) <= Len(stream.records)
      BY <1>1, <1>3 DEF FoundAfter
    <3>2. /\ Len(records') \in Nat /\ Len(records') + 1 = At
          /\ Len(records') < Len(records)
      BY <1>5, <1>6
    <3> QED
      BY <3>1, <3>2, <1>2, <1>3
  <2>2. stream.start[At + 1] <= pos
    <3>1. stream.start[At + 1] <= stream.start[Len(records) + 1]
      BY <2>1, <1>2, Zenon
    <3>2. /\ stream.start[At + 1] \in Nat
          /\ stream.start[Len(records) + 1] \in Nat
      BY <2>1, <1>2, Zenon
    <3> QED
      BY <3>1, <3>2, <1>1, <1>3
  <2>3. /\ stream.start[At + 1] = stream.start[At] + RecordHeaderLen
                                    + Len(stream.records[At].payload)
        /\ Len(stream.records[At].payload) \in Nat
    <3>1. /\ stream.records[At] \in TLSPlaintext
          /\ stream.start[At + 1] = stream.start[At] + RecordHeaderLen
                                      + Len(stream.records[At].payload)
      BY <2>1, <1>1, RecordOfStream
    <3>2. Len(stream.records[At].payload) \in Nat
      BY <3>1 DEF TLSPlaintext
    <3> QED
      BY <3>1, <3>2
  <2>4. Remaining >= RecordHeaderLen
    <3>1. Remaining \in Int
      BY <1>3 DEF Remaining
    <3>2. stream.start[At] \in Nat /\ pos \in Nat
      BY <2>1, <1>2, <1>3
    <3> DEFINE here  == stream.start[At]
               there == stream.start[At + 1]
               len   == Len(stream.records[At].payload)
    <3>3. /\ there <= pos /\ there = here + RecordHeaderLen + len
          /\ len \in Nat /\ here \in Nat /\ pos - Remaining = here
      BY <2>2, <2>3, <3>2, <1>7, Zenon
    <3> HIDE DEF here, there, len
    <3> QED
      BY <3>1, <3>2, <3>3 DEF RecordHeaderLen
  <2>5. /\ RecordLen(data, offset) \in Nat
        /\ pos - Len(data) + offset + RecordLen(data, offset)
             = stream.start[At + 1]
    BY <2>4, <1>1, RecordAtOffset
  <2>6. Remaining >= RecordLen(data, offset)
    BY <2>2, <2>5, <1>3 DEF Remaining
  <2> QED
    BY <2>4, <2>6, <1>1 DEF RecordRemains
<1> QED
  BY <1>4, <1>5, <1>6, <1>7, <1>8, <1>2, <1>3

LEMMA ParseReturnsStep ==
  ASSUME FramingInv, ParseReturns
  PROVE  FramingInv'
<1>1. /\ stream \in Stream /\ TypeOK /\ ReadLast(data) /\ ParseInv
      /\ pc = "parse" /\ ~RecordRemains
  BY DEF FramingInv, TypeOK, ParseReturns
<1>2. /\ stream' = stream /\ reader' = reader /\ pos' = pos
      /\ data' = data /\ offset' = offset /\ parsed' = parsed
      /\ pc' = "read" /\ rest' = Unparsed
  BY DEF ParseReturns
<1>3. /\ records' \in Seq(TLSPlaintext)
      /\ FoundAfter(0, records)'
      /\ pos - Remaining = stream.start[Len(records') + 1]
  BY ParseReturnsRecords
<1>4. /\ pos \in Nat /\ Len(data) \in Nat /\ offset \in Nat
      /\ offset <= Len(data) /\ Len(data) <= pos /\ data \in Seq(Byte)
      /\ Len(stream.bytes) \in Nat
  BY <1>1, StreamFacts DEF TypeOK, ReadLast
<1>5. /\ rest' \in Seq(Byte) /\ Len(rest') = Remaining
      /\ \A i \in 1 .. Remaining : rest'[i] = data[offset + i]
  BY <1>2, <1>4 DEF Unparsed, Remaining
<1>6. Remaining \in Nat /\ Remaining = Len(data) - offset
  BY <1>4 DEF Remaining
<1>7. ReadLast(rest)'
  <2>1. ASSUME NEW i \in 1 .. Remaining
        PROVE  rest'[i] = stream.bytes[pos - Remaining + i]
    <3>1. offset + i \in 1 .. Len(data)
      BY <1>4, <1>6
    <3>2. data[offset + i] = stream.bytes[pos - Len(data) + (offset + i)]
      BY <3>1, <1>1 DEF ReadLast
    <3>3. pos - Len(data) + (offset + i) = pos - Remaining + i
      BY <1>4, <1>6
    <3> QED
      BY <3>2, <3>3, <1>5
  <2> QED
    BY <2>1, <1>2, <1>4, <1>5, <1>6 DEF ReadLast
<1>8. NoWholeRecord(rest)'
  <2> SUFFICES ASSUME Remaining >= RecordHeaderLen
               PROVE  Remaining < RecordLen(rest', 0)
    BY <1>5 DEF NoWholeRecord, RecordLen, HeaderLength
  <2>1. RecordLen(rest', 0) = RecordLen(data, offset)
    BY <1>4, <1>5, <1>6 DEF RecordLen, HeaderLength, RecordHeaderLen
  <2>2. RecordLen(data, offset) \in Nat
    BY <1>1, RecordAtOffset
  <2> QED
    BY <2>1, <2>2, <1>1, <1>6 DEF RecordRemains
<1>9. ReadLast(data)'
  BY <1>1, <1>2 DEF ReadLast
<1>10. TypeOK'
  BY <1>1, <1>2, <1>3, <1>5 DEF TypeOK
<1>11. ReadInv'
  <2>1. reader = "flight" => Len(data) = pos
    BY <1>1, <1>4, StreamFacts DEF ParseInv, Before
  <2> QED
    BY <2>1, <1>2, <1>3, <1>5 DEF ReadInv
<1>12. (stream.start[Len(records) + 1] <= pos)'
  BY <1>2, <1>3, <1>4, <1>6
<1> QED
  BY <1>2, <1>3, <1>7, <1>8, <1>9, <1>10, <1>11, <1>12
  DEF FramingInv, RestIsTheUnparsedEnd

LEMMA StepFraming == FramingInv /\ [Next]_vars => FramingInv'
<1> SUFFICES ASSUME FramingInv, [Next]_vars PROVE FramingInv'
  OBVIOUS
<1>1. ASSUME NEW n \in 1 .. Len(stream.bytes) - pos, Read(n)
      PROVE  FramingInv'
  BY <1>1, ReadStep
<1>2. CASE ParseRecord
  BY <1>2, ParseRecordStep
<1>3. CASE ParseReturns
  BY <1>3, ParseReturnsStep
<1>4. CASE UNCHANGED vars
  BY <1>4 DEF vars, FramingInv, TypeOK, ReadLast, FoundAfter, ParseInv, Before,
              ReadInv, RestIsTheUnparsedEnd
<1> QED
  BY <1>1, <1>2, <1>3, <1>4 DEF Next, Parse, AllRead

-----------------------------------------------------------------------------
(* The theorems.                                                           *)

\* The invariant of the two readers holds in every reachable state, for every
\* stream of records and every cut of its bytes.
THEOREM FramingInvariant == Spec => []FramingInv
<1>1. Init => FramingInv
  BY InitFraming
<1>2. FramingInv /\ [Next]_vars => FramingInv'
  BY StepFraming
<1> QED
  BY <1>1, <1>2, PTL DEF Spec

\* What a reader holds back is the unparsed end of what it has read, and never
\* a whole record (record.go 190-228).
THEOREM RestUnparsed == Spec => []RestIsTheUnparsedEnd
<1>1. FramingInv => RestIsTheUnparsedEnd
  BY DEF FramingInv
<1> QED
  BY <1>1, FramingInvariant, PTL

-----------------------------------------------------------------------------
(* The refinement.                                                         *)

LEMMA InitRefines == Init => Records!Init
BY DEF Init, Records!Init

LEMMA StepRefines ==
  FramingInv /\ FramingInv' /\ [Next]_vars
    => [Records!Deliver]_<<stream.records, records, rest # <<>>>>
<1> SUFFICES ASSUME FramingInv, FramingInv', [Next]_vars
             PROVE  [Records!Deliver]_<<stream.records, records, rest # <<>>>>
  OBVIOUS
<1>1. ASSUME NEW n \in 1 .. Len(stream.bytes) - pos, Read(n)
      PROVE  UNCHANGED <<stream, records, rest>>
  BY <1>1 DEF Read
<1>2. CASE ParseRecord
  BY <1>2 DEF ParseRecord
<1>3. CASE ParseReturns
  <2> DEFINE n == Len(records')
  <2>1. /\ stream' = stream
        /\ rest' = Unparsed /\ pc = "parse"
    BY <1>3 DEF ParseReturns
  <2>2. /\ records' \in Seq(TLSPlaintext)
        /\ FoundAfter(0, records)'
        /\ Len(records) <= n
        /\ Remaining > 0 => n < Len(stream.records)
    BY <1>3, ParseReturnsRecords
  <2>3. /\ stream.records \in Seq(TLSPlaintext)
        /\ Len(stream.records) \in Nat
        /\ Len(records) \in Nat /\ n \in Nat
    <3>1. stream \in Stream /\ records \in Seq(TLSPlaintext)
      BY DEF FramingInv, TypeOK
    <3> QED
      BY <3>1, <2>2, StreamFacts
  <2>4. n <= Len(stream.records)
    BY <2>1, <2>2, <2>3 DEF FoundAfter
  <2>5. records' = SubSeq(stream.records, 1, n)
    <3>1. \A i \in 1 .. n : records'[i] = stream.records[i]
      BY <2>1, <2>2, <2>3 DEF FoundAfter
    <3>2. /\ SubSeq(stream.records, 1, n) \in Seq(TLSPlaintext)
          /\ Len(SubSeq(stream.records, 1, n)) = n
          /\ \A i \in 1 .. n :
               SubSeq(stream.records, 1, n)[i] = stream.records[i]
      BY <2>3, <2>4
    <3> QED
      BY <2>2, <3>1, <3>2, SeqEqual
  <2>6. rest' # <<>> => n < Len(stream.records)
    <3>1. /\ data \in Seq(Byte) /\ offset \in Nat /\ Len(data) \in Nat
      BY DEF FramingInv, TypeOK
    <3>2. Remaining = 0 => rest' = <<>>
      BY <2>1, <3>1 DEF Unparsed, Remaining
    <3>3. Remaining \in Nat
      BY <2>1, AtRecord
    <3> QED
      BY <3>2, <3>3, <2>2
  <2>7. n \in Len(records) .. Len(stream.records)
    BY <2>2, <2>3, <2>4
  <2>8. Records!Deliver
    <3>1. stream'.records = stream.records
      BY <2>1
    <3> HIDE DEF n
    <3> QED
      BY <3>1, <2>5, <2>6, <2>7 DEF Records!Deliver
  <2> QED
    BY <2>8
<1>4. CASE UNCHANGED vars
  BY <1>4 DEF vars
<1> QED
  BY <1>1, <1>2, <1>3, <1>4 DEF Next, Parse, AllRead

\* Both readers implement RecordStream, however TCP cuts the bytes
\* (transport.go 46-49 and 231-239, record.go 190-228).
THEOREM Refinement == Spec => ImplementsRecordStream
<1>1. Init => Records!Init
  BY InitRefines
<1>2. FramingInv /\ FramingInv' /\ [Next]_vars
        => [Records!Deliver]_<<stream.records, records, rest # <<>>>>
  BY StepRefines
<1> QED
  BY <1>1, <1>2, FramingInvariant, PTL
  DEF Spec, ImplementsRecordStream, Records!Spec
=============================================================================
