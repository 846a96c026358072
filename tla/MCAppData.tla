------------------------------ MODULE MCAppData ------------------------------
(***************************************************************************)
(* Small instances of AppData for TLC: every response of at most           *)
(* MaxRecords records of six kinds, sealed in order by the server.         *)
(***************************************************************************)
EXTENDS AppData

CONSTANTS d1, d2, d3, d4, MaxRecords

ResponseData == <<d1, d2, d3, d4>>

\* Data, an empty record of data, a ticket, an alert (close_notify), a record
\* in the clear, and a record under a key the client does not have: what
\* follows a KeyUpdate.
Kinds == {"data", "empty", "ticket", "alert", "clear", "rekeyed"}

PlainKey   == [epoch |-> "plain", transcript |-> <<>>]
ForeignKey == [epoch |-> "foreign", transcript |-> <<>>]

Ticket == [msg  |-> [type |-> "new_session_ticket", fault |-> "none",
                     covers |-> <<>>],
           last |-> TRUE]

\* The server's sequence number counts what it seals under the client's key.
SealedBefore(kinds, i) ==
  Cardinality({j \in 1 .. i - 1 : kinds[j] \notin {"clear", "rekeyed"}})

ResponseRecord(kinds, i) ==
  [type    |-> IF kinds[i] = "clear" THEN "change_cipher_spec"
               ELSE "application_data",
   key     |-> CASE kinds[i] = "clear"   -> PlainKey
                 [] kinds[i] = "rekeyed" -> ForeignKey
                 [] OTHER                -> ServerAppKey,
   seq     |-> IF kinds[i] \in {"clear", "rekeyed"} THEN 0
               ELSE SealedBefore(kinds, i),
   inner   |-> CASE kinds[i] = "clear"  -> "change_cipher_spec"
                 [] kinds[i] = "ticket" -> "handshake"
                 [] kinds[i] = "alert"  -> "alert"
                 [] OTHER               -> "application_data",
   payload |-> CASE kinds[i] \in {"data", "rekeyed"} -> <<ResponseData[i]>>
                 [] kinds[i] = "ticket" -> <<Ticket>>
                 [] OTHER               -> <<>>]

Response(kinds) ==
  [records |-> [i \in 1 .. Len(kinds) |-> ResponseRecord(kinds, i)],
   burst   |-> 0]

Responses ==
  UNION {{Response(kinds) : kinds \in [1 .. n -> Kinds]} :
           n \in 1 .. MaxRecords}
=============================================================================
