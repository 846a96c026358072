----------------------------- MODULE Connection -----------------------------
(***************************************************************************)
(* The connection under the client: Go's net.Conn over TCP, with its read  *)
(* deadline, and the server behind it.                                     *)
(*                                                                         *)
(* The server's records are fixed when the connection starts.  The stream  *)
(* is kept as positions in that script: `sent' records are in the network, *)
(* `got' have been read whole, and `cut' says that the bytes read so far   *)
(* end inside record got + 1.  TCP keeps the order of the bytes and says   *)
(* nothing of the reads that return them, so a read may return any run of  *)
(* whole records and end inside the next.                                  *)
(***************************************************************************)
EXTENDS HandshakeMessages

CONSTANT Scripts  \* what a server may send: see Script

\* `burst' records answer the ClientHello; the rest follow the client's
\* Finished, which is the second record the client writes.
Script ==
  {s \in [records : Seq(Record), burst : Nat] : s.burst <= Len(s.records)}

ASSUME ScriptsAssumption == Scripts \subseteq Script

VARIABLES
  script,    \* the server's records and how many of them come in the burst
  sent,      \* the number of records the server has sent
  got,       \* the number of records the client has read whole
  cut,       \* whether part of record got + 1 has been read as well
  written,   \* the number of records the client has written
  peer,      \* the server's end: open, closed, torn (inside a record), reset
  deadline   \* the read deadline: off, armed, expired

connVars == <<script, sent, got, cut, written, peer, deadline>>

ConnTypeOK ==
  /\ script \in Script
  /\ sent \in 0 .. Len(script.records)
  /\ got \in 0 .. sent
  /\ cut \in BOOLEAN
  /\ written \in Nat
  /\ peer \in {"open", "closed", "torn", "reset"}
  /\ deadline \in {"off", "armed", "expired"}

ConnInit ==
  /\ script \in Scripts
  /\ sent = 0
  /\ got = 0
  /\ cut = FALSE
  /\ written = 0
  /\ peer = "open"
  /\ deadline = "off"

-----------------------------------------------------------------------------
(* What the client calls.                                                  *)

\* The first n records of the script.
Prefix(n) == SubSeq(script.records, 1, n)

\* conn.Read returns bytes: k whole records and perhaps part of the next.  A
\* read that only lengthens a partial record changes nothing the client sees.
ReadReturns(k, partial) ==
  /\ deadline # "expired"
  /\ got + k <= sent
  /\ partial => got + k < sent \/ peer = "torn"
  /\ k > 0 \/ (partial /\ ~cut)
  /\ got' = got + k
  /\ cut' = partial

Chunk(k) == SubSeq(script.records, got + 1, got + k)

\* conn.Read returns io.EOF: the server has closed and all its bytes are read.
ReadAtEOF ==
  /\ deadline # "expired"
  /\ peer \in {"closed", "torn"}
  /\ got = sent
  /\ peer = "torn" => cut

ReadTimesOut == deadline = "expired"

ReadFails == deadline # "expired" /\ peer = "reset"

Write == written' = written + 1

-----------------------------------------------------------------------------
(* What happens around the client.                                         *)

\* The server has a record to send: the rest of its burst, or what follows
\* the client's Finished once that has been written.
MaySend ==
  /\ peer = "open"
  /\ sent < Len(script.records)
  /\ written >= (IF sent < script.burst THEN 1 ELSE 2)

ServerSend ==
  /\ MaySend
  /\ sent' = sent + 1
  /\ UNCHANGED <<script, got, cut, written, peer, deadline>>

\* The server closes, between two records or inside one.  A close before the
\* ClientHello is for the client the same as one right after it.
ServerClose ==
  /\ peer = "open"
  /\ written > 0
  /\ \/ peer' = "closed"
     \/ MaySend /\ peer' = "torn"
  /\ UNCHANGED <<script, sent, got, cut, written, deadline>>

\* After a reset a read may still return bytes that had arrived, or fail:
\* systems differ in what they do with them.
ConnectionReset ==
  /\ peer # "reset"
  /\ written > 0
  /\ peer' = "reset"
  /\ UNCHANGED <<script, sent, got, cut, written, deadline>>

DeadlineExpires ==
  /\ deadline = "armed"
  /\ deadline' = "expired"
  /\ UNCHANGED <<script, sent, got, cut, written, peer>>

Environment ==
  ServerSend \/ ServerClose \/ ConnectionReset \/ DeadlineExpires
=============================================================================
