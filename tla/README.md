# A verified model of the TLS 1.3 client

The repository is a small TLS 1.3 client in Go. It dials `www.example.com:443`,
performs the handshake with one cipher suite (ChaCha20-Poly1305, X25519), sends
one HTTP request and prints the response. This directory holds TLA+ models of
that program, the TLC runs that check them and TLAPS proofs about them.

The program is one goroutine. What makes it hard is its other half: a TCP stream
cut anywhere into reads, a server that may say anything or nothing, two readers
that share one stream and one deadline, and a flight that is handed from the
first reader to the rest of the program even when it is incomplete.

## The system

| Component | State it keeps | Operations | What makes it correct |
|---|---|---|---|
| Program (`cmd/main.go`) | the connection, the session keys | dial, handshake, request, response, print, exit | it ends; it prints only what the verified server sent; nothing but a ClientHello is written before verification |
| Handshake driver (`cmd/handshake.go`) | results of 13 steps, as locals | `doHandshake` | no nil message is used; success only on a complete and verified flight; both ends derive the same keys |
| Flight reader (`internal/utils/transport.go` 35-83) | bytes accumulated, read deadline | `ReadServerHandshakeFlight` | the outcome does not depend on how TCP cuts the burst; it takes no byte too many; the deadline is cleared on every path |
| Flight parsing (`internal/utils/client_flow.go`, `utils.go`) | none | `ServerHandshakeFlightComplete`, `ParseRecords`, parsers, transcript builder | complete means complete; one message of each kind at most; transcripts end at the right message |
| Application data reader (`transport.go` 217-283) | remainder, sequence number, data and records collected, read deadline | `ReadServerApplicationData` | the data is a prefix of the server's, in order, without loss or repetition; the sequence number counts protected records |
| Record framing (`internal/messages/record/record.go`) | none | splitting bytes into records and a remainder | every byte in exactly one record or in the remainder |
| Record protection (`utils.go` 72-146, 304-314, `transport.go` 104-148) | none | seal, open, inner plaintext, nonce | a record opens only under its key and number; lengths fit their fields |
| Handshake reassembly (`utils.go` 242-281, `key.go` 343-383) | a byte stream, as a local | `CollectHandshakeMessages` and its copy | independent of the record boundaries; both copies agree |
| Key schedule (`internal/key/key.go`) | secrets and keys, immutable | derive handshake secrets, session keys, verify Finished | each key is derived from the right transcript |
| Certificates (`internal/cert`) | none | chain and CertificateVerify | the signature is over the right transcript, by the leaf of the verified chain |
| Codecs (`internal/messages/record/**`) | none | Marshal, Unmarshal | round trip, no panic on short input |

The program calls the driver, the driver calls the flight reader with a callback
(the completeness predicate), and after it the parsers again, the certificate
checks and the key schedule. The application reader gets the connection and two
slices of the session keys. There is no shared memory and no callback but the
predicate; all interaction that can go wrong is in time and in order on the
connection. Nothing is persisted, so there is no crash recovery.

Behaviours that are hard: reads that cut records and messages; records of the
next epoch in the same read as the Finished; EOF, timeout or reset at any point;
alerts in the clear and encrypted; messages missing, repeated, in another order
or after the Finished; a response cut short; a stdout that fails with part of
the response written. `PROJECT.json` lists each with the
line where it bites.

## The modules

| Module | Models |
|---|---|
| `TLSRecords` | the vocabulary: content types, messages, records, keys; splitting and opening records |
| `HandshakeMessages` | the pure part of the handshake: reassembly, parsers, transcripts, the completeness predicate, the verifications |
| `Connection` | external: `net.Conn` with its read deadline, and the server behind it |
| `Handshake` | `doHandshake` with the read loop of `ReadServerHandshakeFlight` |
| `AppData` | `ReadServerApplicationData` |
| `ByteStream` | abstract: what `ReadServerApplicationData` promises its caller; `AppData` implements it |
| `Client` | `main` and `run`; composes `Handshake` and `AppData` on one connection |
| `Session` | abstract: what the program promises its user; `Client` implements it |
| `RecordFraming` | `ParseTLSPlaintextRecordsWithRemainder` byte by byte, under the loop of either reader |
| `RecordStream` | abstract: the records a reader gets; `RecordFraming` implements it |
| `Reassembly` | `CollectHandshakeMessages` byte by byte, and its copy in `key.go` |
| `KeySchedule` | the key schedule of `key.go`, as terms |
| `RecordProtection` | inner plaintext, lengths, nonce, sealing and opening of one record |
| `Traffic` | composes the last two with a server that has seen the same handshake or another |
| `Extensions`, `MessageCodecs` | the codecs of extensions and of messages, byte by byte |
| `Messages` | one message each way through the codecs, and what the client does with it |
| `MCRecords`, `MCHandshake`, `MCAppData`, `MCClient`, `MCRecordFraming`, `MCReassembly`, `MCTraffic`, `MCMessages` | the instances TLC checks |
| `SequenceLemmas` | lemmas: induction over numbers, what `FlattenSeq` and loops over a sequence return, the operators of `TLSRecords` and `HandshakeMessages` over a concatenation |
| `HandshakeProofs`, `AppDataProofs`, `ClientProofs`, `FramingProofs`, `ReassemblyProofs`, `TrafficProofs`, `MessageProofs` | the theorems |

The modules are in two layers. `Handshake`, `AppData` and `Client` work on whole
records and pieces of messages; there the interleavings are. `RecordFraming`,
`Reassembly`, `Traffic` and `Messages` work on bytes, lengths and keys, and check
what the first layer takes for granted.

### How the data is abstracted

* Bytes are what the parsers make of them: the whole records and whether a
  partial one follows (`Bytes`). That is the result of
  `ParseTLSPlaintextRecordsWithRemainder`, the only view the code has of a
  buffer. `RecordFraming` shows that the parser gives this view: it implements
  `RecordStream`, which is what `ReadReturns` of `Connection` says of a read. The
  parser's own error cannot occur: it is called with bytes to split, and a record
  of any type, version and length splits.
* A record has its outer type and, symbolically, the key and sequence number it
  was sealed under, its inner type and its content. It opens under that key and
  number alone, so a record of another cipher suite, of a server with another
  shared secret, or with a broken tag, is one under the key `foreign`.
* Handshake content is a sequence of pieces of messages, so that records may
  split messages anywhere; the first read of a header and the reading of its
  body are not told apart. `PiecesAreFaithful` of `Reassembly` is that the
  collector finds in the pieces what its loop finds in the bytes.
* A message has its type, what is wrong with it if anything, and the transcript
  its signature or MAC covers. A transcript is a sequence of message types.
  That loses nothing here: a message of a parsed type comes once at most.
* A loop that appends is `Collect`: what each element contributes, one after the
  other. `OfTypes`, `Payloads`, `Messages` and `Decoded` are such loops.
* A Go pointer that may be nil is a set with at most one member.
* In `Traffic` hashes, MACs and HKDF are terms, equal when they are made of the
  same parts; a nonce is the pair of the IV and the sequence number, for the
  exclusive or with an IV loses nothing; a sealed record opens under its key,
  nonce and additional data alone. A plaintext is a number of bytes that are not
  zero and a tail given byte by byte, so that lengths run beyond 2^16 and the
  zeros at the end are still seen. Length fields are taken modulo 2^16.
* In `Extensions` and `MessageCodecs` nothing is abstract but the library: the
  cryptobyte reader and builder are modelled by what they do, a certificate is a
  string of bytes that parses or not, and a signature is genuine or not.

### How the actions correspond to the code

`Handshake` has one action for each numbered step of `doHandshake`, and `pc`
names the step. Steps 1 and 2 are one action, for only their writes and errors
can be seen; so are steps 6 and 7. Step 3 is the read loop: `Receive` is a pass
with bytes, with its append, alert scan and completeness check in one action;
`ReceiveEOF`, `ReceiveTimeout` and `ReceiveError` are the passes with an error.
The deferred `SetReadDeadline(time.Time{})` is part of every return. Reading a
field of a message the parser left nil leads to the state `panicked`.

`AppData` has the same shape. A batch either opens whole and is collected, or
ends the call, as in the code. The remainder is not a variable: it is the partial
record of the connection, `cut`.

`Client` instances both with a shared `pc` and `err`, because the Go functions
run on one goroutine and return one error up the stack. The key of the second
reader is the one derived from the flight of the first. `PrintResponse` has both
outcomes of the write to stdout: all of the response, or any part of it from the
front and an error (`print`). The part is counted in pieces of data, one for each
record; where in a piece the write stops makes no difference to what is checked.

`RecordFraming` has the passes of the parser's loop as actions: `ParseRecord` cuts
one record from the data at `offset`, and `ParseReturns` ends the parse when no
whole record is left, be it for a header or for a payload. The flight reader
parses its whole buffer anew after each read, and the application reader the
remainder with the new bytes; `reader` says which of the two it is. `Reassembly`
has the two loops of the collector, record by record and message by message.

In `Traffic` the client writes its Finished, then its request, and opens the
answers one by one, with the keys its view of the handshake gives; the server
derives its own from its view after RFC 8446, seals with padding, and may update
its key. The client of `Traffic` goes on also when it does not take the server's
Finished, where the program would end: that the two agree must come out of the
keys. A flight has one Finished, for the parser refuses a second and the transcript
builder a flight without (`utils.go` 213-222, `client_flow.go` 141-143); what the
client has seen may go on behind it, what the server has sent ends with it. The
MAC of the server's Finished is over what comes before it
(`TranscriptBeforeMessageType`), that of the client's over the whole flight.

In `Messages` the client marshals its hello, which a server after the RFC
reads, and unmarshals what the server sent, damaged or not. What the client then
takes from the message is an action of its own: the key share, the leaf, the
signature.

In `Connection` the server's records are a script chosen at the start: a burst
that answers the ClientHello and a rest that follows the client's Finished, as
the comment at `transport.go` 70 describes a server. A read returns any number of
whole records that have been sent and may end inside the next; the server may
close between records or inside one; the connection may be reset; the deadline
may pass whenever it is set. Writes succeed, or fail and end the program.

## What the runs check

| Run | Instance | What it shows |
|---|---|---|
| `handshake_flights` | 27 bursts, chosen one by one: six good ones (one record, several, the Finished apart, a certificate over three records, a ticket that waits, a certificate request) and one for each way to be wrong | all properties of `Handshake`, the inductive invariant, and that `doHandshake` returns |
| `handshake_orders` | the four encrypted messages in every order, with omissions and repetitions, at most four, the last signature or MAC right or wrong | no nil dereference, and keys agree in every order |
| `app_data` | every response of at most three records of six kinds (data, empty, ticket, alert, in the clear, under another key) | the properties of the reader, and that it implements `ByteStream` |
| `client` | eleven conversations, three with conforming servers | the composition: a conforming server is served, the output is the server's, the readers share the stream, nothing is written unverified, the program implements `Session`, and it ends |
| `record_framing` | streams of at most three records (empty, one byte, one that looks like a record), or one of 256 bytes and an empty one, cut at every byte, under either reader | the remainder is never a whole record, the inductive invariant, the refinement of `RecordStream`, and that every parse ends |
| `reassembly` | at most two messages of length 0, 1 or 2, or a long one, cut into at most three records at every byte, with another record between, whole or cut short | the messages are well framed, the record boundaries do not matter, and the pieces stand for the bytes |
| `traffic` | twelve views of the handshake on the client's side, with a flight of one or two messages and one that goes on behind its Finished, and eight on the server's; requests and answers on both sides of 16384, 65518 and 2^16 bytes, with zeros at the end, empty, padded, without a type; two records of the server | no nonce is used twice; the client takes the server's Finished exactly when they agree up to it, and the server the client's exactly when nothing came behind; each side reads the other exactly when the handshakes agree; the client stops for the right reason and no content that is too long gets past |
| `messages` | five hellos of the program and of the library; 30 messages of every type, each whole, cut at each byte, longer by a byte, and with each byte changed or dropped; three kinds of key | the hello says what was offered, what is read is exactly what the bytes spell, no slice is out of range, and the client goes on with what the server meant |
| `key_update_frame` | a KeyUpdate the client frames, beside a Finished | refutes the frame of one header; see below |
| `encrypted_alert`, `early_record`, `after_finished` | one script or the orders above | each refutes a comment of the source; see below |

The bounds. A burst of at most six records is enough: the reader and the
predicate look at a buffer as a whole, and what they distinguish is a first
record, one that follows, a partial one and one of another epoch. Four messages
let each type be missing, doubled, or on either side of each other type. In a
response, a third record is the first one that can be wrong because of a count
that went wrong twice, and each of the six kinds occurs before and after each
other. Everything else is exhaustive: every cut, close, reset and deadline.

In `record_framing` three records let a read end in the header, in the payload or
between two records, with a record before and after; 256 bytes need both bytes of
the length. In `reassembly` two messages are enough for a record to hold the end of
one and the start of another, and three records for a message to run over a whole
one. In `traffic` the second record is the first with another number or another
key. `CHECK_DEADLOCK FALSE` stands where a run ends when its work is done, in
`reassembly`, `traffic`, `messages` and `key_update_frame`.

The fairness. The client's own steps are weakly fair: it is one goroutine that
runs when it can. The deadline is weakly fair: time passes. Nothing is assumed of
the server or of the network. `Termination` and `ProgramExits` rest on these
two alone. The dial, the writes and the local computations are assumed to
return: the code sets no deadline for them. `ParseEnds` assumes that the parser,
once it has data, goes on; nothing is assumed of the reads.

## What the runs found

* `encrypted_alert`. `ErrAlertReceived` is documented for any alert while the
  flight is read (`transport.go` 19, `handshake.go` 46). The scan looks at the
  outer type, so the alert of a server that has sent its ServerHello, which is
  encrypted, is not seen; the client waits for EOF or the deadline and reports
  something else.
* `early_record`. The predicate is documented to accept a ServerHello and the
  records up to the Finished (`client_flow.go` 16). A record of the application
  epoch, or part of one, that is read together with the Finished makes it reject
  the buffer for good.
* `after_finished`. Step 11 is documented to confirm the integrity of the
  decrypted handshake (`handshake.go` 122). A message after the Finished is
  accepted, and enters the client's transcript, without having been covered.

* `key_update_frame`. `KeyUpdate.Marshal` writes the header that
  `Handshake.Marshal` writes for every message (`key_update.go` 24, `handshake.go`
  13-17), so a KeyUpdate that is framed has two, and its own parser refuses it.
  The program sends none.

In the first two the handshake fails safely, late and with another error. In the
third a server that hashes as RFC 8446 says derives other keys, so the connection
fails at its first application record; `ServerReadsTheClient` says both halves, that
the client takes such a flight and that the server does not take its Finished.

Seen while modelling, and no claim of the code or its docs: the version, the
cipher suite and the group of the key share of a ServerHello are never compared
with what was offered, so a server that chose another is noticed only when a record
does not open; more than 65518 bytes of application data are sealed without an
error under a length that has wrapped (`transport.go` 115), which
`ServerReadsTheClient` states as the limit; and the encoder of the server name
writes a name that ends in a dot, which the parser of the extension refuses.

## What is proved

Eight modules hold proofs. Each theorem is for every value of the constants: any
set of scripts, streams, inputs or views, of any length. No theorem assumes
more than the `ASSUME` of its module, which TLC evaluates in every run.

### The lemmas

What the handshake and the readers do to data is said with loops over sequences
of any length, and that needs induction. The induction theorems of the library
take a predicate, which the provers cannot instantiate. `SequenceLemmas` goes
around it: a set of numbers that is not empty has a least element
(`LeastNumber`, from the library's `NatLessThanWellFounded`), so a set with 0 and
all successors is `Nat` (`SetInduction`); the predicate is the membership in a
set. From this follow the functions that a recursion defines (`FlattenExists`),
what `FlattenSeq` makes of a concatenation (`FlattenConcat`), and what a loop
collects from two sequences joined (`CollectedConcat`). The module carries the
last through the operators of the model: records of a type, payloads, opened
records, messages. Its last part is about counting: the protected records
before a place in the stream are those before the chunk and those of the chunk
before it (`CountsJoin`), and so a stream opens if and only if its first part does,
and its second from the next number on (`DecodesConcat`).

### Handshake

`HandshakeProofs` proves `TypeCorrect`, `FlightPrefix`, `NilSafety`,
`SuccessIsComplete`, `NoOverread`, `SegmentationIndependence`, `DeadlineScope` and
`TranscriptsAgree`. The assumption is `ScriptsAssumption`: a script is a sequence
of records of which the burst is a prefix.

None of the properties is inductive by itself, and all follow from
`InductiveInv`, a conjunction of named parts in `Handshake`:

* `FlightIsStreamPrefix`: what the reader holds is the stream it has read. All
  that is said of the flight can then be said of the script, which never changes.
* `BurstInv`: until the client's second write the server is in its burst, so the
  reader cannot hold more than the burst, nor part of a record beyond it. That
  the handshake itself never reads beyond the burst had to be added for `Client`.
* `ExitInv`: while the reader waits, what it holds is not complete; a flight
  returned as complete is complete, and one returned at EOF or at the deadline is
  not. The last part is what makes `SuccessOnlyWhenComplete` work.
* `StageInv`: the checks behind the current step hold of the flight, the chain, the
  signature and the MAC included. Together they are the completeness predicate; so
  a flight that is not complete cannot pass step 11.
* `SegmentationDoesNotMatter` is part of it: the read that completes a good flight
  ends the loop, and each later step lets an acceptable flight pass.

The operators on messages stay closed in these proofs, but for the conjuncts of
the predicate and the fact that the transcript builder finds a message exactly
when the parser does (`FoundIffParsed`), which is what excludes the nil dereference.
`TranscriptsAgree` (`KeysAgree`) opens them: the first message of a type, which the
builder takes, is the only one, which the parser takes, and so the transcript
before the Finished is the one that the Finished covers; when the Finished comes
last, the transcript behind it is the whole flight.

### The readers and the program

`AppDataProofs` proves `TypeCorrect`, `SequenceCounts`, `GoodRecordsTaken`,
`NothingLost` and `TakesByteStream`, under `ScriptsAssumption`. `ReaderInv` ties the
sequence number to the position in the stream until a record has been refused,
and the data collected to the records before that position. A batch is then a
step from one position to the next, for which `SequenceLemmas` says what is opened
and collected. `TakesByteStream` is the refinement of `ByteStream` without its
fairness: initial states map to initial states and steps to steps or stutters.

`ClientProofs` proves the properties of the composition: `TypeCorrect`,
`DeadlineScope`, `ConformingServed`, `OutputServers`, `StreamShared`, the action
property `WritesAreVerified`, and the refinement `KeepsPromise`. `Client` instantiates `Handshake`, and so does the
proof module with the theorems about it; the first part of the module shows that
the operators of both are the same, one by one. `ClientInv` has `InductiveInv` for
the phase of the handshake, with the facts that the handshake ends in: a verified
flight that is a prefix of the stream without a partial record, and the deadline
cleared. These stand still while the second reader runs, whose part of the
invariant is like `ReaderInv` with the flight in front. That a conforming server is
served needs the two together: its first application record is the one behind
the flight, and number 0 under the key of the transcript that both have.

`KeepsPromise` is that `Client` implements `Session`, in which there are no records,
no keys and no reads: the program says hello, hears a server that it may trust,
answers it and asks for a page, and exits, with a beginning of what that server
says and status zero or with nothing and status one. One error is neither: when
stdout fails (`main.go` 48), a part of that may have been shown and the status is
one. `Session` calls this end `broken`; `Ending` maps the error of the print to it
and is the exit status otherwise, so that all other errors must have shown
nothing. What is written, shown and
returned are variables of `Client`; what may be shown (`Said`) is a function of its
state. It is empty until the reader has returned a complete flight whose chain,
signature and MAC hold, and from then on the data of the records behind that
flight, as many as open under the key of the handshake. Three things carry the
proof. `SessionInv` adds to `ClientInv` what has been written and how the program
has exited, place by place. The step of the reader that completes the flight is
the step in which a server is heard: before it `Said` is empty, and after it no step
changes the flight or the script. And the possible outputs are beginnings of one
stream, for what comes from a concatenation is what comes from its parts
(`DataOfConcat`). `Session` states no fairness, so the whole refinement is proved;
that the program does exit is `ProgramExits`, which TLC checks.

### Records, messages and keys

`FramingProofs` proves `FramingInvariant`, `RestUnparsed` and `Refinement`: the
parser, under either reader, gets the records of the server in order, each whole
and once, wherever the bytes are cut. The assumption is `StreamsAssumption`: a
stream is the marshalled records one after the other, and `start[i]` is the place
where record i begins, which the environment knows and the parser does not. The
argument is that the offset is always such a place (`ParseInv`), that the five
bytes there give back the length of the record (`MarshalBytes`), and that a parse
stops only where less than a record is left.

`ReassemblyProofs` proves `AllFramed` and `StreamsDecide`, for all bytes and records
(`InputsAssumption`), and `PiecesStandForBytes`. The first: every message the collector hands out has a
header, a body and the length the header says; the parsers behind it slice by
that length. The second is `BoundariesDoNotMatter`: the collector returns what the
bytes of the handshake alone come to, messages or error, however they are cut
into records and whatever lies between. `Split` is the reference, a recursive
function on the position; that it exists and what it returns is shown from the
end of the bytes backwards (`SplitterExists`, `SplitterTyped`). The invariant,
`CollectorInv`, places the pending bytes among all bytes (`PendingInPlace`), and
says that all bytes come to the messages cut so far followed by what the rest
comes to (`MessagesComeFirst`), and that nothing is left to cut when a record is
taken (`NothingToCut`), without which the last record could hide a message.

`PiecesStandForBytes` is `PiecesAreFaithful`, which ties the two layers of the project
together: what `Handshake` and `Client` collect from pieces of messages is what the
loop of the code finds in the bytes. It needs to be told which pieces stand for
which bytes. `PiecesAssumption` does that for the flight as a whole: an input has
the place where each piece's message begins (`start`), the bytes between two such
places are a message of the type the piece names (`Spells`), and what is left at the
end is the beginning of one (`Unfinished`). Nothing is said of the records the bytes
are cut into, and nothing of how a collector works. The proof takes `StreamsDecide`,
by which the bytes alone decide, and goes backwards through the pieces: from each
place on, what the pieces come to and what the bytes come to agree (`PiecesAgree`).

`TrafficProofs` proves `NoncesApart`, `ServerReads`, `ClientReads` and
`FailuresExplained`, for all views of the handshake, requests and answers. Secrets
are terms, equal exactly when they are made of the same parts (`ExpandParts` and its
like), so the keys of the two sides agree exactly when their transcripts do
(`SecretsAgree`). What is sealed is read back: the inner type is the last byte that
is not zero, and content, type and padding are told apart for every length
(`RoundTrip`, `NoTypeIsZeros`). The server's Finished is the one place where the two
sides hash different things: the client what comes before the first Finished it
has, the server its flight without the last message. `FrontsAgree` says that these
are equal exactly when the flights agree up to and with the Finished
(`FinishedAgreed`), whatever the client has behind it, and `FinishedTaken` that the
client takes the Finished exactly then. `TrafficInv` lists what each side has sealed, under
which secret and number, what the client has made of it, and why it stopped. The
secrets of two epochs, and of the server before an update and after it, carry
other labels; that is what keeps the nonces apart.

`MessageProofs` proves the four properties of `Messages`: `ParsersSliceInRange`,
`ReadingAlwaysExact`, `OfferAlwaysSurvives` and `ClientGoesOnWithTheServers`. They are
for every message a server can encode, of any size its length fields can say,
with lists of any number of extensions, certificates, key shares and schemes,
for every damage, and for every hello made of extensions of the program's types.
`MessagesAssumption` says that much and no more; whether a hello fits in a record
is decided by `NewClientHelloRecord`, and the proof gets the bounds of its length
fields from that (a hello that does not fit is not sent).

The parsers are nested loops over bytes, and the argument is that writers and
readers are inverse, in both directions: what is written is read back, and
what is read spells out its bytes. The second is what turns down a damaged
message. It is proved of numbers of one, two and three bytes (`NumberRead`,
`ValueSpelled`), of a vector behind its length (`ReadsVector`, `ReadVectorSplits`), and
then once for all loops: `Reader` says of a function that it takes what its encoder
has written from the front of the bytes and nothing else, and `AllReads` and
`AllSpelled` say of the loop over such a reader that it takes exactly the
concatenations of what the encoder writes. Extensions, key shares and certificate
entries are such readers. `ReadAll`, `Value` and `ParseServerName` are recursive functions, so that
each has a solution is a lemma (`FoldExists`, `AllReadExists`, `NamesFromExists`), by
the induction of `SequenceLemmas`.

Above the parsers there are two inductive invariants. `ReadInv` says that what has
arrived is framed as the collector of `Reassembly` leaves it (a body that is not
empty and whose length is in the header) and that what has been read is
`Unmarshal` of it. From the first part follows that EncryptedExtensions, which slices by the
length in the header, does not slice too far. `UseInv` adds that the hello is the marshalled
offer and that what the client goes on with is what its checks made of the message
read. That the server sees the schemes the client has offered, and so that a
signature is accepted exactly under one of them, comes from `OfferSurvives`.

### What the proofs found about the model

* `ConformingServerServed` was false of a server that sends a NewSessionTicket in
  the flight, behind its Finished: the client hashes it, as `after_finished` shows.
  No conversation of the run had one. A conforming server now ends its flight with
  the Finished (`FinishedEndsFlight`), and the run has such a conversation.
* `ClientReadsTheServer` was false of a server that seals a KeyUpdate and goes on
  with its old key, which `ServerSeals` allowed if the answers had such a message.
  `ServerSeals` now leaves the KeyUpdate to the action that changes the key, and the
  state has the secret itself in the place of a number of updates.
* The two hellos of a view are one message each. With any number of messages,
  two handshakes that differ have the same transcript when they are cut into
  hellos in different places.
* A record's payload is of the kind its content type says (`Content`), in every
  record, also in one that the runs have not.
* `ReadingIsExact` said of a message whether it is legal with a flag of the run's
  own. It is an operator now (`Legal`): which messages a client should take, said
  without the parsers where the bytes can be described, so a message of which the run has no
  example is judged as well.
* `Messages` let a damage make a body longer than the length in a header can say.
  The collector passes no such message on, and `ServerAnswers` now has its bound
  (`MaxBodyLen`).
* `GoesOnWithTheServers` spoke of the schemes in the offer as the run gives it; it now
  speaks of those the server finds in the hello (`SchemesSeen`).
* `PiecesAreFaithful` is false of bytes and pieces that nobody has paired. The pairing
  was how the run built its inputs; it is now `PiecesAssumption`, which the run checks.

### Only model-checked

* Liveness: `Termination`, `ProgramExits`, `ParseEnds`, and the fairness that is part
  of `DeliversByteStream`. The prover does not reach it.
* The four refuted claims: each is a counterexample in one instance.

## What is not modelled

* X.509 path building, the signature functions, the AEAD and the hash functions:
  the Go library's, used through what they promise.
* The error of a cryptobyte builder whose content does not fit its length field,
  which the code drops: the extensions of the program are constants and a key of 32
  bytes, and the server's messages are only read.
* What no code of the program calls or reads: the codecs of alert,
  change_cipher_spec and invalid records, the certificate summaries of `cert.go`,
  the hexadecimal helpers of `key.go`, the fields of a CertificateRequest.
* Wording: the `String` methods of `const.go`, the error texts, the printing.
* The branch of the parsers for a message without its header. Every message of the
  program comes with one.
* Unbounded counters: the sequence number is 64 bits wide and counts records of a
  single short response; the runs bound it by the script, the proofs not at all.
* `conn.Close()` at the end of `run`, and the error of the deferred
  `SetReadDeadline`, which the code drops.
* Writes that succeed in part: the program gives up on them, and nothing it does
  afterwards depends on what arrived.

## What is left

Every component that keeps state is modelled, every invariant and action property
that a passing run checks is a theorem, and so are the refinements of
`RecordStream` and `Session` and, without its fairness, that of `ByteStream`. What
remains with TLC is listed under "Only model-checked". The operators for what the Go library
does (the cryptobyte readers, the AEAD, the signatures) are the part of the models
that rests on its documentation, and would be the next to look at.
