--------------------------- MODULE MCRecordFraming ---------------------------
(***************************************************************************)
(* A small instance of RecordFraming for TLC: records of a few bytes, and  *)
(* one whose length needs both bytes of its field.                         *)
(***************************************************************************)
EXTENDS RecordFraming, SequencesExt

CONSTANT MaxRecords

Plain(type, payload) ==
  [type |-> type, version |-> <<3, 3>>, payload |-> payload]

\* Empty, one byte, and a payload that looks like a record.
SmallRecords ==
  {Plain(22, <<>>), Plain(20, <<0>>), Plain(23, <<23, 3, 3, 0, 1, 9>>)}

SmallScripts == UNION {[1 .. n -> SmallRecords] : n \in 0 .. MaxRecords}

\* A record whose length is 1, 0 in its two bytes, and an empty one behind it.
LongScript == <<Plain(22, [i \in 1 .. 256 |-> 1]), Plain(22, <<>>)>>

Bytes(script) == FlattenSeq([i \in 1 .. Len(script) |-> Marshal(script[i])])

StreamOf(script) ==
  [records |-> script,
   start   |-> [i \in 1 .. Len(script) + 1 |-> Len(Bytes(SubSeq(script, 1, i - 1)))],
   bytes   |-> Bytes(script)]

SomeStreams == {StreamOf(script) : script \in SmallScripts \union {LongScript}}
=============================================================================
