------------------------------- MODULE Session -------------------------------
(***************************************************************************)
(* What the program promises its user, without records, keys or reads: it  *)
(* says hello, and nothing more until it has heard a server that it may    *)
(* trust; it answers that server and asks for a page; and if it exits, it  *)
(* has shown a beginning of what that server says and exits with zero, or  *)
(* has shown nothing and exits with one.  One error is not the session's:  *)
(* when the place where it shows things breaks, a part may have been shown *)
(* and the exit status is one.                                             *)
(***************************************************************************)
EXTENDS SequencesExt

VARIABLES
  written,    \* the number of records the client has written
  said,       \* what may be shown: the beginnings of what a trusted server says
  output,     \* what has been shown
  status      \* how it ended: none, zero, one or broken, which is one as well

sessionVars == <<written, said, output, status>>

Init == written = 0 /\ said = {} /\ output = <<>> /\ status = "none"

Running == status = "none"

SayHello ==
  /\ Running /\ written = 0
  /\ written' = 1
  /\ UNCHANGED <<said, output, status>>

\* A server says one thing, of which the client may get more or less.
OneStream(beginnings) ==
  \A a, b \in beginnings : IsPrefix(a, b) \/ IsPrefix(b, a)

\* A server has shown who it is.  What it says is settled from here on.
Hear ==
  /\ Running /\ written = 1 /\ said = {}
  /\ said' # {} /\ OneStream(said')
  /\ UNCHANGED <<written, output, status>>

\* The client's Finished, and then its request.
Answer ==
  /\ Running /\ said # {}
  /\ written \in {1, 2}
  /\ written' = written + 1
  /\ UNCHANGED <<said, output, status>>

Show ==
  /\ Running /\ written = 3
  /\ status' = "zero"
  /\ output' \in said
  /\ UNCHANGED <<written, said>>

\* The user's end breaks with some of it shown.
ShowSome ==
  /\ Running /\ written = 3
  /\ status' = "broken"
  /\ \E whole \in said : IsPrefix(output', whole)
  /\ UNCHANGED <<written, said>>

GiveUp ==
  /\ Running
  /\ status' = "one"
  /\ UNCHANGED <<written, said, output>>

Next == SayHello \/ Hear \/ Answer \/ Show \/ ShowSome \/ GiveUp

Spec == Init /\ [][Next]_sessionVars
=============================================================================
