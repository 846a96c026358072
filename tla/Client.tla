------------------------------- MODULE Client -------------------------------
(***************************************************************************)
(* The whole program, run of cmd/main.go: dial, handshake, request,        *)
(* response, print.  It composes Handshake and AppData, which share the    *)
(* connection, the program counter and the error, as the Go functions      *)
(* share the goroutine they run on.                                        *)
(***************************************************************************)
EXTENDS Connection

VARIABLES
  pc,           \* where the program is: a label of Handshake, AppData or run
  err,          \* the error on its way to main
  accumulated,  \* of Handshake: the flight
  exit,         \* of Handshake: how its reader returned
  key,          \* of AppData: the server's application key
  seq,          \* of AppData: the next sequence number
  collected,    \* of AppData: the data collected
  decoded,      \* of AppData: the number of records opened
  output,       \* what has been printed
  status        \* the exit status: none, zero or one

H == INSTANCE Handshake
A == INSTANCE AppData

hsOnly  == <<accumulated, exit>>
appOnly == <<key, seq, collected, decoded>>
runVars == <<output, status>>
vars    == <<connVars, pc, err, hsOnly, appOnly, runVars>>

NoKey == [epoch |-> "plain", transcript |-> <<>>]

Init ==
  /\ ConnInit
  /\ pc = "dial" /\ err = "none"
  /\ accumulated = NoBytes /\ exit = "none"
  /\ key = NoKey /\ seq = 0 /\ collected = <<>> /\ decoded = 0
  /\ output = <<>> /\ status = "none"

-----------------------------------------------------------------------------
\* The dial connects or fails, and doHandshake is called.
Dial ==
  /\ pc = "dial"
  /\ \/ pc' = "start" /\ UNCHANGED err
     \/ pc' = "failed" /\ err' = "local"
  /\ UNCHANGED <<connVars, hsOnly, appOnly, runVars>>

DoHandshake == H!Client /\ UNCHANGED <<appOnly, runVars>>

\* The application keys are those of the handshake key schedule.
HandshakeKeyForData(bytes) == ServerHandshakeKey

\* ServerApplicationKey, derived in step 12 from the transcript of the flight.
ServerApplicationKey(bytes) ==
  [epoch |-> "application", transcript |-> SessionTranscript(bytes)]

\* The request is sealed and written, and the response read under the key.
SendRequest ==
  /\ pc = "done"
  /\ \/ /\ pc' = "readResponse"
        /\ Write
        /\ key' = ServerApplicationKey(accumulated)
        /\ UNCHANGED err
     \/ /\ \E reason \in {"local", "write"} : pc' = "failed" /\ err' = reason
        /\ UNCHANGED <<written, key>>
  /\ UNCHANGED <<script, sent, got, cut, peer, deadline, hsOnly>>
  /\ UNCHANGED <<seq, collected, decoded, runVars>>

ReadResponse == A!Reader /\ UNCHANGED <<hsOnly, runVars>>

\* The response is printed, if there is any.  The write to stdout may fail,
\* with any part of the response written.
PrintResponse ==
  /\ pc = "returned"
  /\ \/ /\ pc' = "exited" /\ status' = "zero"
        /\ output' = collected
        /\ UNCHANGED err
     \/ /\ collected # <<>>
        /\ \E n \in 0 .. Len(collected) : output' = SubSeq(collected, 1, n)
        /\ pc' = "failed" /\ err' = "print"
        /\ UNCHANGED status
  /\ UNCHANGED <<connVars, hsOnly, appOnly>>

\* A main that prints what there is before it looks at the error.
ExitPrinting ==
  /\ pc = "failed"
  /\ pc' = "exited" /\ status' = "one" /\ output' = collected
  /\ UNCHANGED <<connVars, err, hsOnly, appOnly>>

\* main prints the error and exits with status one.
ExitOnError ==
  /\ pc = "failed"
  /\ pc' = "exited" /\ status' = "one"
  /\ UNCHANGED <<connVars, err, hsOnly, appOnly, output>>

Program ==
  \/ Dial
  \/ DoHandshake
  \/ SendRequest
  \/ ReadResponse
  \/ PrintResponse
  \/ ExitOnError

Exited == pc = "exited" /\ UNCHANGED vars

Network ==
  Environment /\ UNCHANGED <<pc, err, hsOnly, appOnly, runVars>>

Next == Program \/ Network \/ Exited

Fairness ==
  /\ WF_vars(Program)
  /\ WF_vars(DeadlineExpires /\ UNCHANGED <<pc, err, hsOnly, appOnly, runVars>>)

Spec == Init /\ [][Next]_vars /\ Fairness

-----------------------------------------------------------------------------
\* Every variable keeps its type.
TypeOK ==
  /\ ConnTypeOK
  /\ pc \in H!Label \union A!AppLabel \union {"dial", "exited"}
  /\ err \in H!Error \union A!AppError \union {"print"}
  /\ accumulated \in Bytes
  /\ exit \in {"none", "complete", "eof", "timeout"}
  /\ key \in Key
  /\ seq \in Nat /\ decoded \in Nat
  /\ collected \in Seq(Data) /\ output \in Seq(Data)
  /\ status \in {"none", "zero", "one"}

\* The server's burst, when all of it has arrived.
WholeBurst == [recs |-> Prefix(script.burst), rest |-> FALSE]

\* The key the server seals its application data under: its own transcript is
\* what its Finished covers, and that Finished.
ServerKeys ==
  {[epoch |-> "application", transcript |-> Append(finished.covers, "finished")] :
     finished \in Parsed(WholeBurst, "finished")}

\* No handshake message of the flight follows its Finished: the client's key
\* schedule would hash it, and the server's does not.
FinishedEndsFlight ==
  LET types == TypesOf(FlightMessages(WholeBurst))
  IN  types[Len(types)] = "finished"

\* The server's records after its burst.
Answer == SubSeq(script.records, script.burst + 1, Len(script.records))

\* A server that keeps to the protocol as this client speaks it: its burst is
\* a good flight that its Finished ends, and all that follows is sealed under
\* its application key.
ConformingServer ==
  /\ H!GoodFlight
  /\ FinishedEndsFlight
  /\ \E k \in ServerKeys : Decodes(Answer, k, 0)

(***************************************************************************)
(* A conforming server is never turned away: the program fails only for    *)
(* its own work, for a read or a write that failed, or because the         *)
(* connection or the time ended before the flight did.  The two readers    *)
(* divide the stream between them at the right byte, the second starts at  *)
(* the right sequence number, and the keys are the server's (main.go       *)
(* 20-54, handshake.go 48-153, transport.go 217-283).                      *)
(***************************************************************************)
ConformingServerServed ==
  ConformingServer =>
    \/ err \in {"none", "local", "print", "write", "eof", "timeout", "reset"}
    \/ exit \in {"eof", "timeout"}

(***************************************************************************)
(* Anything printed is the server's: all the data of the records it got    *)
(* through, from the first on, in order, opened under the key of the       *)
(* handshake it signed, and printed only after that handshake was          *)
(* verified.  So is nothing, when the exit status is zero.  Only a stdout  *)
(* that fails cuts it short (main.go 42-51).                               *)
(***************************************************************************)
OutputIsTheServers ==
  output # <<>> \/ status = "zero" =>
    LET response == SubSeq(script.records, Len(accumulated.recs) + 1, got)
        data     == A!CollectApplicationData(Decoded(A!Extract(response)))
    IN  /\ H!Acceptable(accumulated)
        /\ Decodes(response, ServerApplicationKey(accumulated), 0)
        /\ output = data \/ (err = "print" /\ IsPrefix(output, data))

(***************************************************************************)
(* No byte of the connection is read twice or skipped between the two      *)
(* readers: what the second has opened follows the flight the first took.  *)
(***************************************************************************)
ReadersShareTheStream ==
  pc = "readingResponse" =>
    /\ accumulated.recs = Prefix(Len(accumulated.recs))
    /\ ~accumulated.rest
    /\ collected = A!CollectApplicationData(Decoded(A!Extract(
                     SubSeq(script.records, Len(accumulated.recs) + 1, got))))

(***************************************************************************)
(* The deadline of one reader never reaches into the next: it is set only  *)
(* while one of the two waits for bytes.                                   *)
(***************************************************************************)
DeadlineScoped ==
  deadline = "off" <=> pc \notin {"reading", "readingResponse"}

(***************************************************************************)
(* After its ClientHello the client writes nothing, neither its Finished   *)
(* nor its request, before the whole flight has passed every verification: *)
(* the chain, the signature and the server's Finished, over the very bytes *)
(* the keys of that write are derived from (handshake.go 96-160).          *)
(***************************************************************************)
VerifiedBeforeWriting ==
  [][written > 0 /\ written' # written =>
       exit = "complete" /\ H!Acceptable(accumulated)]_vars

\* The flight has been read, to its end, and it passes every verification.
Heard ==
  /\ exit = "complete"
  /\ ChainOK(accumulated)
  /\ SignatureVerifies(accumulated) /\ FinishedVerifies(accumulated)

\* The server's records from the first behind the flight to record n.
Behind(n) == SubSeq(script.records, Len(accumulated.recs) + 1, n)

\* What the client can have of the answer of a server it has heard: the data
\* of the first records, as many as open under the key of the handshake.
Said ==
  IF Heard
  THEN {A!CollectApplicationData(Decoded(A!Extract(Behind(n)))) :
          n \in {i \in Len(accumulated.recs) .. Len(script.records) :
                  Decodes(Behind(i), ServerApplicationKey(accumulated), 0)}}
  ELSE {}

\* How the session ends: with the exit status, but for a stdout that fails.
Ending == IF err = "print" THEN "broken" ELSE status

\* The session as its user sees it.
Promise == INSTANCE Session WITH said <- Said, status <- Ending

(***************************************************************************)
(* The program keeps the promise of Session, whatever the server and the   *)
(* network do: three records at most, the second and the third only for a  *)
(* verified server; output only after the request, and then a beginning of *)
(* that server's answer, which opens under the key both have; and no       *)
(* output with any error but that of stdout (main.go 14-54).               *)
(***************************************************************************)
ImplementsSession == Promise!Spec

(***************************************************************************)
(* The program ends, whatever the server and the network do: each of its   *)
(* two waits for bytes has a deadline (transport.go 36 and 218).           *)
(***************************************************************************)
ProgramExits == <>(pc = "exited")
=============================================================================
