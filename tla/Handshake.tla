------------------------------ MODULE Handshake ------------------------------
(***************************************************************************)
(* doHandshake of cmd/handshake.go, with the read loop of                  *)
(* ReadServerHandshakeFlight it waits in.  One action per numbered step of *)
(* the source; the read loop has one action per outcome of conn.Read.      *)
(* What the source keeps in local variables after the loop are functions   *)
(* of the flight it returned, so the flight is the only data kept here.    *)
(***************************************************************************)
EXTENDS Connection

VARIABLES
  pc,           \* the step doHandshake is at
  accumulated,  \* the bytes of the flight read so far
  exit,         \* how the read loop returned a flight
  err           \* why doHandshake failed

hsVars == <<pc, accumulated, exit, err>>
vars   == <<connVars, hsVars>>

\* The steps from the flight's return to the client's Finished, in order.
Processing ==
  {"parseRecords", "parseServerHello", "deriveSecrets", "decodeFlight",
   "verifyChain", "certificateVerify", "serverFinished", "sessionKeys",
   "sendFinished"}

Terminal == {"done", "failed", "panicked"}

Label == {"start", "readFlight", "reading"} \union Processing \union Terminal

Error == {"none", "local", "write", "alert", "eof", "timeout", "reset",
          "records", "serverHello", "keyShare", "decode", "chain",
          "transcript", "signature", "finished"}

Init ==
  /\ ConnInit
  /\ pc = "start"
  /\ accumulated = NoBytes
  /\ exit = "none"
  /\ err = "none"

Fail(reason) == pc' = "failed" /\ err' = reason

-----------------------------------------------------------------------------
\* Steps 1 and 2: the key pair and the ClientHello, and its write.
SendClientHello ==
  /\ pc = "start"
  /\ \/ pc' = "readFlight" /\ Write /\ UNCHANGED err
     \/ \E reason \in {"local", "write"} : Fail(reason) /\ UNCHANGED written
  /\ UNCHANGED <<script, sent, got, cut, peer, deadline, accumulated, exit>>

\* A reader that does not set its deadline.
ReadFlightWithoutDeadline ==
  /\ pc = "readFlight"
  /\ \/ pc' = "reading" /\ UNCHANGED <<deadline, err>>
     \/ Fail("local") /\ UNCHANGED deadline
  /\ UNCHANGED <<script, sent, got, cut, written, peer, accumulated, exit>>

\* Step 3: ReadServerHandshakeFlight sets the read deadline and starts to read.
ReadFlight ==
  /\ pc = "readFlight"
  /\ \/ pc' = "reading" /\ deadline' = "armed" /\ UNCHANGED err
     \/ Fail("local") /\ UNCHANGED deadline
  /\ UNCHANGED <<script, sent, got, cut, written, peer, accumulated, exit>>

\* A return path that leaves the deadline in place.
LeaveReaderArmed == UNCHANGED deadline

\* Every return of the reader runs its deferred SetReadDeadline(time.Time{}).
LeaveReader == deadline' = "off"

\* ReadServerHandshakeFlight returns the bytes it has, and no error.
ReturnFlight(how) ==
  /\ LeaveReader
  /\ exit' = how
  /\ pc' = "parseRecords"
  /\ UNCHANGED err

AlertReceived(bytes) ==
  \E i \in 1 .. Len(bytes.recs) : bytes.recs[i].type = "alert"

\* A pass of the loop that forgets what the earlier ones read.
ReceiveForgetting(k, partial) ==
  LET bytes == [recs |-> Chunk(k), rest |-> partial]
  IN  /\ pc = "reading"
      /\ ReadReturns(k, partial)
      /\ accumulated' = bytes
      /\ IF ServerHandshakeFlightComplete(bytes)
         THEN ReturnFlight("complete")
         ELSE UNCHANGED <<pc, deadline, exit, err>>
      /\ UNCHANGED <<script, sent, written, peer>>

\* A pass of the loop that checks only after an error of conn.Read.
ReceiveWithoutChecking(k, partial) ==
  LET bytes == [recs |-> accumulated.recs \o Chunk(k), rest |-> partial]
  IN  /\ pc = "reading"
      /\ ReadReturns(k, partial)
      /\ accumulated' = bytes
      /\ UNCHANGED <<pc, deadline, exit, err>>
      /\ UNCHANGED <<script, sent, written, peer>>

\* One pass of the loop with bytes read: they are appended, and the whole is
\* searched for an alert record and then tried as a complete flight.
Receive(k, partial) ==
  LET bytes == [recs |-> accumulated.recs \o Chunk(k), rest |-> partial]
  IN  /\ pc = "reading"
      /\ ReadReturns(k, partial)
      /\ accumulated' = bytes
      /\ \/ AlertReceived(bytes) /\ Fail("alert") /\ LeaveReader /\ UNCHANGED exit
         \/ /\ ~AlertReceived(bytes)
            /\ ServerHandshakeFlightComplete(bytes)
            /\ ReturnFlight("complete")
         \/ /\ ~AlertReceived(bytes)
            /\ ~ServerHandshakeFlightComplete(bytes)
            /\ UNCHANGED <<pc, deadline, exit, err>>
      /\ UNCHANGED <<script, sent, written, peer>>

\* A loop that takes every error for the end of the burst.
GiveUpOnAnyError(how) ==
  /\ pc = "reading"
  /\ IF accumulated # NoBytes
     THEN ReturnFlight(how)
     ELSE Fail(how) /\ LeaveReader /\ UNCHANGED exit
  /\ UNCHANGED <<script, sent, got, cut, written, peer, accumulated>>

\* One pass with an error: EOF and a timeout return what has been read, if
\* anything has; every other error is returned as it is.
GiveUp(how) ==
  /\ pc = "reading"
  /\ IF accumulated # NoBytes /\ how \in {"eof", "timeout"}
     THEN ReturnFlight(how)
     ELSE Fail(how) /\ LeaveReader /\ UNCHANGED exit
  /\ UNCHANGED <<script, sent, got, cut, written, peer, accumulated>>

ReceiveEOF     == ReadAtEOF /\ GiveUp("eof")
ReceiveTimeout == ReadTimesOut /\ GiveUp("timeout")
ReceiveError   == ReadFails /\ GiveUp("reset")

-----------------------------------------------------------------------------
\* A step that goes on when its check holds, and else returns an error.
Step(from, to, ok, reason) ==
  /\ pc = from
  /\ \/ ok /\ pc' = to /\ UNCHANGED err
     \/ ~ok /\ Fail(reason)
  /\ UNCHANGED <<connVars, accumulated, exit>>

\* Steps 4 to 9.
ParseFlight == Step("parseRecords", "parseServerHello",
                    ParseRecordsOK(accumulated), "records")

ParseHello == Step("parseServerHello", "deriveSecrets",
                   ParseServerHelloOK(accumulated), "serverHello")

DeriveSecrets == Step("deriveSecrets", "decodeFlight",
                      SharedSecretOK(accumulated), "keyShare")

DecodeFlight == Step("decodeFlight", "verifyChain",
                     DecodeFlightOK(accumulated), "decode")

VerifyChain == Step("verifyChain", "certificateVerify",
                    ChainOK(accumulated), "chain")

\* Steps 10 and 11 build a transcript, then read a field of the message the
\* parser returned: a nil pointer there is a panic, not an error.
VerifyMessage(from, type, verified, to, reason) ==
  /\ pc = from
  /\ \/ ~TranscriptFound(accumulated, type) /\ Fail("transcript")
     \/ /\ TranscriptFound(accumulated, type)
        /\ Parsed(accumulated, type) = {}
        /\ pc' = "panicked" /\ UNCHANGED err
     \/ /\ TranscriptFound(accumulated, type)
        /\ Parsed(accumulated, type) # {}
        /\ IF verified
           THEN pc' = to /\ UNCHANGED err
           ELSE Fail(reason)
  /\ UNCHANGED <<connVars, accumulated, exit>>

\* A step 10 that drops the error of the signature check.
AcceptAnySignature ==
  Step("certificateVerify", "serverFinished",
       Parsed(accumulated, "certificate_verify") # {}, "transcript")

\* Step 10, against the leaf certificate of step 9.
VerifyCertificateVerify ==
  VerifyMessage("certificateVerify", "certificate_verify",
                SignatureVerifies(accumulated), "serverFinished", "signature")

\* A step 11 that drops the error of the MAC check, and does not ask first
\* whether there is a Finished.
SkipServerFinished == Step("serverFinished", "sessionKeys", TRUE, "finished")

\* Step 11, under the server's handshake traffic secret.
VerifyServerFinished ==
  VerifyMessage("serverFinished", "finished",
                FinishedVerifies(accumulated), "sessionKeys", "finished")

\* Step 12: key.go reassembles the same records again to derive the keys.
DeriveSessionKeys == Step("sessionKeys", "sendFinished",
                          ConcatOK(FlightRecords(accumulated)), "decode")

\* Step 13: the client's Finished is built and written.
SendFinished ==
  /\ pc = "sendFinished"
  /\ \/ pc' = "done" /\ Write /\ UNCHANGED err
     \/ \E reason \in {"local", "write"} : Fail(reason) /\ UNCHANGED written
  /\ UNCHANGED <<script, sent, got, cut, peer, deadline, accumulated, exit>>

-----------------------------------------------------------------------------
\* The reads of the loop, whatever they return.
Read ==
  \/ \E k \in 0 .. (sent - got), partial \in BOOLEAN : Receive(k, partial)
  \/ ReceiveEOF
  \/ ReceiveTimeout
  \/ ReceiveError

Client ==
  \/ SendClientHello
  \/ ReadFlight
  \/ Read
  \/ ParseFlight
  \/ ParseHello
  \/ DeriveSecrets
  \/ DecodeFlight
  \/ VerifyChain
  \/ VerifyCertificateVerify
  \/ VerifyServerFinished
  \/ DeriveSessionKeys
  \/ SendFinished

\* doHandshake has returned: nothing more of it runs.
Terminated == pc \in Terminal /\ UNCHANGED vars

Network == Environment /\ UNCHANGED hsVars

Next == Client \/ Network \/ Terminated

\* The client runs when it can, and time passes.  Nothing is promised of the
\* server or of the network.
Fairness == WF_vars(Client) /\ WF_vars(DeadlineExpires /\ UNCHANGED hsVars)

Spec == Init /\ [][Next]_vars /\ Fairness

-----------------------------------------------------------------------------
\* Every variable keeps its type.
TypeOK ==
  /\ ConnTypeOK
  /\ pc \in Label
  /\ accumulated \in Bytes
  /\ exit \in {"none", "complete", "eof", "timeout"}
  /\ err \in Error

(***************************************************************************)
(* The bytes the reader has accumulated are those taken off the connection *)
(* in order, whatever the reads were: the records read whole, and a rest   *)
(* exactly when the last read ended inside one (handshake.go step 3,       *)
(* transport.go ReadServerHandshakeFlight).                                *)
(***************************************************************************)
FlightIsStreamPrefix ==
  accumulated = [recs |-> Prefix(got), rest |-> cut]

(***************************************************************************)
(* doHandshake never dereferences a message pointer the parser left nil,   *)
(* even when the reader gave up on an incomplete flight and returned it as *)
(* if it were one (transport.go 70-80, handshake.go 113-137).              *)
(***************************************************************************)
NoNilDereference == pc # "panicked"

(***************************************************************************)
(* The handshake succeeds only on a flight the predicate called complete.  *)
(* A flight handed over at EOF or at the deadline is returned without an   *)
(* error, and it is the later steps that must turn it down before the      *)
(* client's Finished is sent (transport.go 70-80).                         *)
(***************************************************************************)
SuccessOnlyWhenComplete ==
  pc \in {"sessionKeys", "sendFinished", "done"} => exit = "complete"

(***************************************************************************)
(* A flight accepted as complete leaves the application reader in step:    *)
(* the reader stopped between two records, and every protected record it   *)
(* took was sealed under the handshake key.  ReadServerApplicationData     *)
(* starts from an empty buffer and sequence number zero, so a byte of the  *)
(* next epoch taken here would be lost to it.                              *)
(***************************************************************************)
NothingOverread ==
  exit = "complete" =>
    /\ ~cut
    /\ \A i \in 1 .. got :
         script.records[i].type = "application_data" =>
           script.records[i].key = ServerHandshakeKey

\* What the verification steps require of a whole flight, taken together.
Acceptable(bytes) ==
  /\ ServerHandshakeFlightComplete(bytes)
  /\ ChainOK(bytes)
  /\ SignatureVerifies(bytes)
  /\ FinishedVerifies(bytes)

\* The server's burst is a flight the client accepts, with nothing after it
\* until the client answers, and no part of it passes for the whole.
GoodFlight ==
  /\ Acceptable([recs |-> Prefix(script.burst), rest |-> FALSE])
  /\ ~AlertReceived([recs |-> Prefix(script.burst), rest |-> FALSE])
  /\ \A n \in 0 .. script.burst - 1 :
       ~ServerHandshakeFlightComplete([recs |-> Prefix(n), rest |-> FALSE])

(***************************************************************************)
(* How TCP cuts the server's burst into reads does not decide the outcome: *)
(* once all of a good flight has been read, the reader does not wait for   *)
(* more, and only the client's own work or its last write can still fail   *)
(* (client_flow.go ServerHandshakeFlightComplete, transport.go 46-64).     *)
(***************************************************************************)
SegmentationDoesNotMatter ==
  GoodFlight /\ got = script.burst =>
    /\ pc # "reading"
    /\ pc = "failed" => err \in {"local", "write"}

(***************************************************************************)
(* When the handshake succeeds, the client's Finished and its application  *)
(* keys are computed over what the server computed them over, the messages *)
(* its own Finished covers and that Finished, as long as the server sends  *)
(* no handshake message after it (key.go DeriveTLS13ChaCha20Client-        *)
(* SessionKeys, which hashes every message in the decrypted records).      *)
(***************************************************************************)
KeysAgree ==
  pc = "done" =>
    LET types == TypesOf(FlightMessages(accumulated))
    IN  types[Len(types)] = "finished" =>
          \E finished \in Parsed(accumulated, "finished") :
            SessionTranscript(accumulated)
              = Append(finished.covers, "finished")

(***************************************************************************)
(* The read deadline is in force while the flight is being read and at no  *)
(* other time, on whichever path the reader returns: the application phase *)
(* must not inherit an expired one (transport.go 36-41).                   *)
(***************************************************************************)
DeadlineScoped == deadline = "off" <=> pc # "reading"

(***************************************************************************)
(* Nothing the server says or fails to say leaves the client waiting for   *)
(* ever: doHandshake returns (transport.go 36-41, 66-81).                  *)
(***************************************************************************)
Termination == <>(pc \in Terminal)

-----------------------------------------------------------------------------
(* The inductive invariant: what holds between the steps, in parts.        *)

\* The steps that follow the one at which a check was made.
AfterParseRecords == (Processing \union {"done"}) \ {"parseRecords"}
AfterParseHello   == AfterParseRecords \ {"parseServerHello"}
AfterSecrets      == AfterParseHello \ {"deriveSecrets"}
AfterDecode       == AfterSecrets \ {"decodeFlight"}
AfterChain        == AfterDecode \ {"verifyChain"}
AfterSignature    == AfterChain \ {"certificateVerify"}
AfterFinished     == AfterSignature \ {"serverFinished"}

\* Until the client's Finished is written the server is in its burst, and the
\* handshake reads nothing after it.
BurstInv ==
  /\ pc = "start" => written = 0
  /\ pc \in {"readFlight", "reading"} \union Processing => written = 1
  /\ written = 0 => sent = 0 /\ ~cut
  /\ got <= script.burst
  /\ written <= 1 =>
       /\ sent <= script.burst
       /\ peer = "torn" => sent < script.burst
       /\ cut => got < script.burst

\* How the reader returned, and what that says of the flight it returned.
ExitInv ==
  /\ pc \in {"start", "readFlight", "reading"} => exit = "none"
  /\ pc \in Processing \union {"done", "panicked"} => exit # "none"
  /\ pc \in {"start", "readFlight", "reading"} \/ exit \in {"eof", "timeout"}
       => ~ServerHandshakeFlightComplete(accumulated)
  /\ exit = "complete" =>
       /\ ServerHandshakeFlightComplete(accumulated)
       /\ ~AlertReceived(accumulated)

\* The checks behind the current step hold of the flight.
StageInv ==
  /\ pc \in AfterParseRecords => ParseRecordsOK(accumulated)
  /\ pc \in AfterParseHello   => ParseServerHelloOK(accumulated)
  /\ pc \in AfterSecrets      => SharedSecretOK(accumulated)
  /\ pc \in AfterDecode       => DecodeFlightOK(accumulated)
  /\ pc \in AfterChain        => ChainOK(accumulated)
  /\ pc \in AfterSignature    => SignatureVerifies(accumulated)
  /\ pc \in AfterFinished     => FinishedVerifies(accumulated)

(***************************************************************************)
(* The parts together are inductive: they hold at the start, every step of *)
(* doHandshake and of the network keeps them, and the safety properties    *)
(* above follow (handshake.go 20-162).                                     *)
(***************************************************************************)
InductiveInv ==
  /\ TypeOK
  /\ FlightIsStreamPrefix
  /\ BurstInv
  /\ ExitInv
  /\ StageInv
  /\ NoNilDereference
  /\ DeadlineScoped
  /\ SegmentationDoesNotMatter

-----------------------------------------------------------------------------
(***************************************************************************)
(* ErrAlertReceived "is returned when the peer sends a TLS alert record    *)
(* while we are reading the server handshake flight" (transport.go 19-21,  *)
(* and handshake.go 46): no flight with an alert in it, in the clear or    *)
(* sealed under the handshake key, is returned without an error.           *)
(***************************************************************************)
AlertReportedByReader ==
  pc \in Processing =>
    \A i \in 1 .. Len(accumulated.recs) :
      accumulated.recs[i].inner = "alert" =>
        accumulated.recs[i].key # ServerHandshakeKey

(***************************************************************************)
(* ServerHandshakeFlightComplete "reports whether buf holds a complete TLS *)
(* 1.3 server handshake flight: a ServerHello plus the encrypted records   *)
(* up to and including the server Finished" (client_flow.go 16-18): the    *)
(* reader does not wait on when its first records are such a flight.       *)
(***************************************************************************)
CompleteFlightDetected ==
  pc = "reading" =>
    \A n \in 0 .. got :
      ~ServerHandshakeFlightComplete([recs |-> Prefix(n), rest |-> FALSE])

(***************************************************************************)
(* Verifying the server's Finished confirms "the integrity of the          *)
(* decrypted handshake" (handshake.go 122): on success every message       *)
(* decrypted is covered by it, but for the Finished itself.                *)
(***************************************************************************)
FinishedCoversHandshake ==
  pc = "done" =>
    \E finished \in Parsed(accumulated, "finished") :
      SessionTranscript(accumulated) = Append(finished.covers, "finished")
=============================================================================
