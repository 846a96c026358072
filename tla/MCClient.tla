------------------------------ MODULE MCClient ------------------------------
(***************************************************************************)
(* Small instances of Client for TLC: whole connections, from the server's *)
(* burst to its last record.                                               *)
(***************************************************************************)
EXTENDS Client, MCRecords

CONSTANTS d1, d2

DataRecord(n, data) == Sealed(AppKey, n, "application_data", data)
CloseNotify(n)      == Sealed(AppKey, n, "alert", <<>>)

Conversation(burst, answer) ==
  [records |-> burst \o answer, burst |-> Len(burst)]

\* Two bursts of a conforming server; its records split and together.
SplitBurst    == After(GoodRecords)
TogetherBurst == <<Hello("none"), HsRecord(0, W(<<EE, Cert, CV, Fin>>))>>

ConformingScripts == {
  Conversation(SplitBurst, <<DataRecord(0, <<d1>>), DataRecord(1, <<d2>>)>>),
  Conversation(TogetherBurst,
             <<TicketRecord(0), DataRecord(1, <<d1>>), TicketRecord(2),
               DataRecord(3, <<d2>>), CloseNotify(4)>>),
  Conversation(TogetherBurst, <<CloseNotify(0)>>)}

\* A ticket in the burst, after it or in the flight itself, a key the client
\* does not have, a repeated record, a record of the handshake epoch after it,
\* and flights that are turned down.
OtherScripts == {
  Conversation(<<Hello("none"), HsRecord(0, W(<<EE, Cert, CV, Fin, Ticket>>))>>,
             <<DataRecord(0, <<d1>>)>>),
  Conversation(TogetherBurst \o <<TicketRecord(0)>>, <<DataRecord(1, <<d1>>)>>),
  Conversation(TogetherBurst,
             <<DataRecord(0, <<d1>>),
               Sealed(ForeignKey, 0, "application_data", <<d2>>)>>),
  Conversation(TogetherBurst, <<DataRecord(0, <<d1>>), DataRecord(0, <<d1>>)>>),
  Conversation(TogetherBurst, <<HsRecord(1, W(<<Ticket>>)), DataRecord(0, <<d1>>)>>),
  Conversation(<<Hello("none"), HsRecord(0, W(<<EE, Cert, Fin>>))>>,
             <<DataRecord(0, <<d1>>)>>),
  Conversation(<<Hello("none"),
               HsRecord(0, W(<<EE, Cert, [CV EXCEPT !.fault = "unverifiable"],
                               Fin>>))>>,
             <<DataRecord(0, <<d1>>)>>),
  Conversation(<<Hello("none"), Sealed(ServerHandshakeKey, 0, "alert", <<>>)>>, <<>>)}

ClientScripts == ConformingScripts \union OtherScripts
=============================================================================
