---------------------------- MODULE RecordStream ----------------------------
(***************************************************************************)
(* What the rest of the client relies on when it reads records: however    *)
(* the bytes come, it gets the server's records in order, whole, each once,*)
(* and knows whether a part of the next one has been read.  This is the    *)
(* view of a read that ReadReturns of Connection takes.                    *)
(***************************************************************************)
EXTENDS Naturals, Sequences

VARIABLES
  script,   \* the records the server sends
  records,  \* those read whole
  partial   \* whether part of the next one has been read as well

Init ==
  /\ records = <<>>
  /\ partial = FALSE

\* A read brings some whole records and perhaps a part of the next one.
Deliver ==
  \E n \in Len(records) .. Len(script) :
    /\ records' = SubSeq(script, 1, n)
    /\ partial' \in BOOLEAN
    /\ partial' => n < Len(script)
    /\ UNCHANGED script

Spec == Init /\ [][Deliver]_<<script, records, partial>>
=============================================================================
