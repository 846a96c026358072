------------------------------ MODULE MCTraffic ------------------------------
(***************************************************************************)
(* A small instance of Traffic for TLC: texts on both sides of every       *)
(* limit, and texts that end in zeros.                                     *)
(***************************************************************************)
EXTENDS Traffic

AView(peer, hello, flight) ==
  [peer |-> peer, clientHello |-> <<"client_hello">>, serverHello |-> hello,
   flight |-> flight]

Hellos  == {<<"server_hello">>, <<"other_hello">>}
Flights == {<<"finished">>, <<"certificate", "finished">>,
            <<"certificate", "finished", "more">>}

SomeViews ==
  {AView(peer, hello, flight) :
     peer \in {"client", "server"}, hello \in Hellos, flight \in Flights}

T(fill, tail) == [fill |-> fill, tail |-> tail]

SomeRequests ==
  {T(0, <<>>), T(60, <<>>), T(60, <<0, 0>>), T(65518, <<>>), T(65518, <<0>>),
   T(65536, <<>>)}

SomeTexts ==
  {T(0, <<>>), T(0, <<0>>), T(0, <<7, 0>>), T(MaxPayloadLen, <<>>),
   T(MaxPayloadLen, <<0>>)}

SomeAnswers ==
  [type : {ApplicationData}, content : SomeTexts, zeros : {0, 2}]
    \union [type : {0, Handshake}, content : {T(0, <<>>), T(0, <<0>>), T(3, <<>>)},
            zeros : {0, 1}]
=============================================================================
