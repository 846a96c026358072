----------------------------- MODULE MCHandshake -----------------------------
(***************************************************************************)
(* Small instances of Handshake for TLC.  Two sets of scripts: flights     *)
(* chosen one by one, each a way a server's burst can go right or wrong,   *)
(* and flights made of every order of a few messages.                      *)
(***************************************************************************)
EXTENDS Handshake, MCRecords

GoodScripts == {
  Burst(After(GoodRecords)),
  \* no change_cipher_spec, everything in one record
  Burst(<<Hello("none"), HsRecord(0, W(<<EE, Cert, CV, Fin>>))>>),
  \* the Finished in a record of its own, which may not arrive
  Burst(After(<<HsRecord(0, W(<<EE, Cert, CV>>)), HsRecord(1, W(<<Fin>>))>>)),
  \* the certificate split over three records
  Burst(After(<<HsRecord(0, <<Whole(EE), Part(Cert)>>),
                HsRecord(1, <<Part(Cert)>>),
                HsRecord(2, <<Whole(Cert), Whole(CV), Whole(Fin)>>)>>)),
  \* a ticket that waits for the client's Finished
  [records |-> After(GoodRecords) \o <<TicketRecord(0)>>, burst |-> 4],
  \* a certificate request, which the client passes over
  LET cv  == [CV EXCEPT !.covers = HelloTranscript \o
               <<"encrypted_extensions", "certificate_request",
                 "certificate">>]
      fin == [Fin EXCEPT !.covers = Append(cv.covers, "certificate_verify")]
  IN Burst(After(<<HsRecord(0, W(<<EE, CR, Cert, cv, fin>>))>>))}

BadScripts == {
  Burst(<<Plain("alert", <<>>)>>),
  Burst(After(<<HsRecord(0, W(<<EE>>)), Plain("alert", <<>>)>>)),
  Burst(After(GoodRecords
              \o <<Sealed(ServerHandshakeKey, 2, "alert", <<>>)>>)),
  Burst(<<CCS>> \o GoodRecords),
  Burst(<<Hello("unparsable")>> \o GoodRecords),
  Burst(<<Hello("no_share")>> \o GoodRecords),
  Burst(<<Hello("empty")>> \o GoodRecords),
  Burst(After(<<Sealed(ForeignKey, 0, "handshake", W(<<EE, Cert, CV, Fin>>))>>)),
  Burst(After(<<Sealed(ServerHandshakeKey, 0, "invalid", <<>>)>>)),
  Burst(After(<<HsRecord(0, W(<<EE, Cert>>)), HsRecord(0, W(<<CV, Fin>>))>>)),
  Burst(After(<<HsRecord(0, <<Whole(EE), Part(Cert)>>)>>)),
  Burst(After(<<HsRecord(0, W(<<Msg("encrypted_extensions", "empty", <<>>),
                                Cert, CV, Fin>>))>>)),
  Burst(After(<<HsRecord(0, W(<<EE, [Cert EXCEPT !.fault = "unparsable"],
                                CV, Fin>>))>>)),
  Burst(After(<<HsRecord(0, W(<<EE, [Cert EXCEPT !.fault = "unverifiable"],
                                CV, Fin>>))>>)),
  Burst(After(<<HsRecord(0, W(<<EE, Cert, [CV EXCEPT !.fault = "unverifiable"],
                                Fin>>))>>)),
  Burst(After(<<HsRecord(0, W(<<EE, Cert, CV,
                                [Fin EXCEPT !.covers = CV.covers]>>))>>)),
  Burst(After(GoodRecords \o <<HsRecord(2, W(<<Ticket>>))>>)),
  Burst(After(<<HsRecord(0, W(<<EE, Cert, CV, Fin, Ticket>>))>>)),
  Burst(After(<<HsRecord(0, W(<<EE, Cert>>)),
                HsRecord(1, <<Whole(CV), Part(Fin)>>)>>))}

\* A server that gives up after its ServerHello, and one that sends a ticket
\* right behind its Finished.
EncryptedAlertScripts ==
  {Burst(After(<<Sealed(ServerHandshakeKey, 0, "alert", <<>>)>>))}

EarlyTicketScripts == {Burst(After(GoodRecords \o <<TicketRecord(0)>>))}

ChosenScripts == 
  GoodScripts \union BadScripts
    \union EncryptedAlertScripts \union EarlyTicketScripts

(***************************************************************************)
(* Every sequence of at most MaxMessages encrypted messages, the first one *)
(* in a record of its own and the others in a second.  Each signature and  *)
(* each MAC is right for its place in the flight, or the last one is not.  *)
(***************************************************************************)
CONSTANT MaxMessages

Covering(types, i, honest) ==
  IF types[i] \in {"certificate_verify", "finished"} /\ i \in honest
  THEN HelloTranscript \o SubSeq(types, 1, i - 1)
  ELSE <<>>

OrderedFlight(types, honest) ==
  LET msgs == [i \in 1 .. Len(types) |->
                 Msg(types[i], "none", Covering(types, i, honest))]
  IN  Burst(<<Hello("none"), HsRecord(0, W(<<msgs[1]>>)),
              HsRecord(1, W(SubSeq(msgs, 2, Len(msgs))))>>)

OrderedScripts ==
  UNION {{OrderedFlight(types, 1 .. n \ wrong) :
            types \in [1 .. n -> ParsedTypes], wrong \in {{}, {n}}} :
          n \in 1 .. MaxMessages}
=============================================================================
