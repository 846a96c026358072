----------------------------- MODULE MCRecords -----------------------------
(***************************************************************************)
(* The records and flights the small instances are made of.                *)
(***************************************************************************)
EXTENDS HandshakeMessages

\* Records: in the clear, under the handshake key, after the handshake.
PlainKey   == [epoch |-> "plain", transcript |-> <<>>]
ForeignKey == [epoch |-> "foreign", transcript |-> <<>>]

Plain(type, payload) ==
  [type |-> type, key |-> PlainKey, seq |-> 0, inner |-> type,
   payload |-> payload]

Sealed(k, n, inner, payload) ==
  [type |-> "application_data", key |-> k, seq |-> n, inner |-> inner,
   payload |-> payload]

HsRecord(n, pieces) == Sealed(ServerHandshakeKey, n, "handshake", pieces)

Msg(type, fault, covers) == [type |-> type, fault |-> fault, covers |-> covers]
Whole(msg) == [msg |-> msg, last |-> TRUE]
Part(msg)  == [msg |-> msg, last |-> FALSE]

Hello(fault) ==
  Plain("handshake", <<Whole(Msg("server_hello", fault, <<>>))>>)
CCS == Plain("change_cipher_spec", <<>>)

EE    == Msg("encrypted_extensions", "none", <<>>)
CR    == Msg("certificate_request", "none", <<>>)
Cert  == Msg("certificate", "none", <<>>)
CV    == Msg("certificate_verify", "none",
             HelloTranscript \o <<"encrypted_extensions", "certificate">>)
Fin   == Msg("finished", "none", Append(CV.covers, "certificate_verify"))
Ticket == Msg("new_session_ticket", "none", <<>>)

\* A ServerHello and then the given records.
After(records) == <<Hello("none"), CCS>> \o records

\* One burst and nothing after it.
Burst(records) == [records |-> records, burst |-> Len(records)]

W(msgs) == [i \in 1 .. Len(msgs) |-> Whole(msgs[i])]

GoodRecords ==
  <<HsRecord(0, W(<<EE, Cert>>)), HsRecord(1, W(<<CV, Fin>>))>>

\* The application key of the server that sends GoodRecords, and a ticket
\* sealed under it.
AppKey == [epoch |-> "application",
           transcript |-> Append(Fin.covers, "finished")]

TicketRecord(n) == Sealed(AppKey, n, "handshake", W(<<Ticket>>))
=============================================================================
