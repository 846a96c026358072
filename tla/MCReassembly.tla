---------------------------- MODULE MCReassembly ----------------------------
(***************************************************************************)
(* A small instance of Reassembly for TLC: streams of a few messages with  *)
(* an end that may be missing, in every way to cut them into up to three   *)
(* records, with another record behind the first.                          *)
(***************************************************************************)
EXTENDS Reassembly

CONSTANT MaxMessages

\* The messages: their type and the length of their body.
Shape == [type : {"encrypted_extensions", "finished"}, len : {0, 1, 2}]
Long  == [type |-> "certificate", len |-> 256]

Scripts ==
  UNION {[1 .. n -> Shape] : n \in 0 .. MaxMessages}
    \union {<<Long>>, <<[type |-> "finished", len |-> 1], Long>>}

Encoded(s) ==
  <<TypeCode[s.type], 0, s.len \div 256, s.len % 256>> \o [i \in 1 .. s.len |-> 20]

\* A script with its bytes; message i lies behind the first start[i].
Layout(script) ==
  LET start[i \in 1 .. Len(script) + 1] ==
        IF i = 1 THEN 0
        ELSE start[i - 1] + HandshakeHeaderLen + script[i - 1].len
  IN  [script |-> script,
       start  |-> start,
       bytes  |-> FlattenSeq([i \in 1 .. Len(script) |-> Encoded(script[i])])]

AbstractMessage(s) ==
  [type |-> s.type, fault |-> IF s.len = 0 THEN "empty" ELSE "none",
   covers |-> <<>>]

\* The messages that the bytes from a + 1 to b are of.
Touched(layout, a, b) ==
  SelectSeq([i \in 1 .. Len(layout.script) |-> i],
            LAMBDA i : layout.start[i] < b /\ layout.start[i + 1] > a)

\* The pieces of these bytes, and where their messages begin.
Pieces(layout, a, b) ==
  LET in == Touched(layout, a, b)
  IN  [k \in 1 .. Len(in) |-> [msg  |-> AbstractMessage(layout.script[in[k]]),
                               last |-> layout.start[in[k] + 1] <= b]]

Starts(layout, a, b) ==
  LET in == Touched(layout, a, b)
  IN  [k \in 1 .. Len(in) |-> layout.start[in[k]]]

\* Where the first n bytes are no longer in whole messages.
WholeUntil(layout, n) ==
  Max({layout.start[i] : i \in {j \in 1 .. Len(layout.script) + 1 :
                                  layout.start[j] <= n}})

NoKey == [epoch |-> "handshake", transcript |-> <<>>]

Rec(type, payload) ==
  [type |-> type, key |-> NoKey, seq |-> 0, inner |-> type, payload |-> payload]

\* The records between the cuts 0 <= a <= b <= n, and one of another type
\* whose payload looks like the start of a message.
Cut(layout, a, b, n) ==
  LET Frag(lo, hi) == [type    |-> "handshake",
                       payload |-> SubSeq(layout.bytes, lo + 1, hi)]
      Part(lo, hi) == Rec("handshake", Pieces(layout, lo, hi))
  IN  [fragments |-> <<Frag(0, a),
                       [type |-> "alert", payload |-> <<20, 0>>],
                       Frag(a, b), Frag(b, n)>>,
       records   |-> <<Part(0, a), Rec("alert", <<>>), Part(a, b), Part(b, n)>>,
       start     |-> Starts(layout, 0, a) \o Starts(layout, a, b)
                       \o Starts(layout, b, n) \o <<WholeUntil(layout, n)>>]

\* The places to cut a stream: everywhere, or around the headers and just in
\* front of the end of a long one.
Place(layout, i) ==
  LET n == Len(layout.bytes)
  IN  IF n > 12 /\ i > 9 THEN n - (12 - i) ELSE IF i > n THEN n ELSE i

Triples == {t \in (0 .. 12) \X (0 .. 12) \X (0 .. 12) : t[1] <= t[2] /\ t[2] <= t[3]}

SomeInputs ==
  {Cut(layout, Place(layout, t[1]), Place(layout, t[2]), Place(layout, t[3])) :
     layout \in {Layout(script) : script \in Scripts}, t \in Triples}
=============================================================================
