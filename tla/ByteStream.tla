----------------------------- MODULE ByteStream -----------------------------
(***************************************************************************)
(* What ReadServerApplicationData promises its caller, without records,    *)
(* keys or reads: it takes a stream of data from its start, in order, and  *)
(* in the end either returns what it took or fails.  It does not promise   *)
(* the whole stream: a deadline or the end of the connection may cut it    *)
(* short.                                                                  *)
(***************************************************************************)
EXTENDS Naturals, Sequences

VARIABLES
  stream,     \* the data the server has for the client
  taken,      \* the data taken from the stream so far
  status      \* open, returned or failed

streamVars == <<stream, taken, status>>

Init == taken = <<>> /\ status = "open"

\* The next run of data, which may be empty.
Take ==
  /\ status = "open"
  /\ \E n \in Len(taken) .. Len(stream) : taken' = SubSeq(stream, 1, n)
  /\ UNCHANGED <<stream, status>>

Finish ==
  /\ status = "open"
  /\ status' \in {"returned", "failed"}
  /\ UNCHANGED <<stream, taken>>

Next == Take \/ Finish

\* The call returns.
Spec == Init /\ [][Next]_streamVars /\ WF_streamVars(Finish)
=============================================================================
