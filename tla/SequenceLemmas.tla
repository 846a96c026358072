--------------------------- MODULE SequenceLemmas ---------------------------
(***************************************************************************)
(* The lemmas the other proofs share.                                      *)
(*                                                                         *)
(* The provers cannot instantiate the library's induction theorems, which  *)
(* take a predicate; a set of numbers has a least element, though, and     *)
(* that is first-order.  From it follow induction over a set of numbers,   *)
(* the existence of the functions that are defined by recursion, and what  *)
(* FlattenSeq does to a concatenation.                                     *)
(*                                                                         *)
(* With these it is proved what the loops over records collect, for        *)
(* sequences of any length: the records of some types, their payloads, the *)
(* records opened and the messages of a handshake stream.  Each loop is    *)
(* Collected of a function, and so it is typed and goes over a             *)
(* concatenation: what is collected from two batches is what is collected  *)
(* from the one and then from the other.                                   *)
(***************************************************************************)
EXTENDS Integers, HandshakeMessages, SequencesExt, SequenceTheorems,
        FiniteSetTheorems, FunctionTheorems, WellFoundedInduction, TLAPS

-----------------------------------------------------------------------------
(* Numbers.                                                                *)

\* A set of numbers that is not empty has a least element.
LEMMA LeastNumber ==
  ASSUME NEW T \in SUBSET Nat, T # {}
  PROVE  \E x \in T : \A y \in T : ~(y < x)
<1> DEFINE Less == OpToRel(<, Nat)
<1>1. IsWellFoundedOn(Less, Nat)
  BY NatLessThanWellFounded
<1>2. \A a, b \in Nat : <<a, b>> \in Less <=> a < b
  BY DEF OpToRel
<1> HIDE DEF Less
<1>3. \E x \in T : \A y \in T : ~(<<y, x>> \in Less)
  BY <1>1, WFMin
<1>4. QED
  BY <1>2, <1>3

\* A set of numbers that has a bound and is not empty has a largest element.
LEMMA LargestNumber ==
  ASSUME NEW n \in Nat, NEW S \in SUBSET (1 .. n), S # {}
  PROVE  \E m \in S : \A k \in S : k <= m
<1> DEFINE T == {b \in Nat : \A k \in S : k <= b}
<1>1. n \in T
  OBVIOUS
<1>2. PICK m \in T : \A b \in T : ~(b < m)
  BY <1>1, LeastNumber
<1>3. m \in S
  <2> SUFFICES ASSUME m \notin S PROVE FALSE
    OBVIOUS
  <2>1. \A k \in S : k \in Nat /\ k # 0 /\ k <= m /\ k # m
    BY <1>2
  <2>2. m \in Nat /\ \A k \in S : k <= m - 1
    BY <1>2, <2>1
  <2>3. m - 1 \in Nat
    <3>1. PICK k \in S : k \in Nat /\ k # 0 /\ k <= m - 1
      BY <2>1, <2>2
    <3>2. QED
      BY <2>2, <3>1
  <2>4. m - 1 \in T
    BY <2>2, <2>3
  <2>5. QED
    BY <1>2, <2>2, <2>4
<1>4. QED
  BY <1>2, <1>3

\* A set with zero and with the successor of all its numbers has them all.
LEMMA SetInduction ==
  ASSUME NEW T \in SUBSET Nat, 0 \in T, \A n \in T : n + 1 \in T
  PROVE  T = Nat
<1>1. SUFFICES ASSUME Nat \ T # {} PROVE FALSE
  OBVIOUS
<1>2. PICK x \in Nat \ T : \A y \in Nat \ T : ~(y < x)
  BY <1>1, LeastNumber
<1>3. x - 1 \in Nat /\ x - 1 < x /\ (x - 1) + 1 = x
  BY <1>2
<1>4. x - 1 \in T
  BY <1>2, <1>3
<1>5. QED
  BY <1>2, <1>3, <1>4

\* The same up to a bound.
LEMMA BoundedInduction ==
  ASSUME NEW m \in Nat, NEW T, 0 \in T, \A n \in 0 .. m - 1 : n \in T => n + 1 \in T
  PROVE  \A n \in 0 .. m : n \in T
<1> DEFINE U == {n \in Nat : n <= m => n \in T}
<1>1. 0 \in U
  OBVIOUS
<1>2. \A n \in U : n + 1 \in U
  OBVIOUS
<1> HIDE DEF U
<1>3. U \in SUBSET Nat
  BY DEF U
<1>4. U = Nat
  BY <1>1, <1>2, <1>3, SetInduction
<1>5. QED
  BY <1>4 DEF U
-----------------------------------------------------------------------------
(* FlattenSeq, which is defined by recursion over the positions.           *)

\* f is what FlattenSeq computes of the first n of some sequences.
Flattens(f, seqs, n) ==
  f = [i \in 1 .. n |-> IF i = 1 THEN seqs[i] ELSE f[i - 1] \o seqs[i]]

\* There is such a function for every n.
LEMMA FlattenExists ==
  ASSUME NEW seqs, NEW n \in Nat
  PROVE  \E f : Flattens(f, seqs, n)
<1> DEFINE T == {m \in Nat : \E f : Flattens(f, seqs, m)}
<1>1. 0 \in T
  <2> DEFINE g == [i \in 1 .. 0 |-> seqs[i]]
  <2>1. Flattens(g, seqs, 0)
    BY DEF Flattens
  <2>2. QED
    BY <2>1
<1>2. ASSUME NEW m \in T PROVE m + 1 \in T
  <2>1. PICK f : Flattens(f, seqs, m)
    OBVIOUS
  <2> DEFINE g == [i \in 1 .. m + 1 |->
                     IF i = 1 THEN seqs[i]
                     ELSE IF i = m + 1 THEN f[m] \o seqs[i] ELSE f[i]]
             h == [i \in 1 .. m + 1 |->
                     IF i = 1 THEN seqs[i] ELSE g[i - 1] \o seqs[i]]
  <2>2. ASSUME NEW i \in 1 .. m + 1 PROVE g[i] = h[i]
    <3>1. CASE i = 1
      BY <3>1
    <3>2. CASE i # 1 /\ i = m + 1
      <4>1. m \in 1 .. m /\ m \in 1 .. m + 1 /\ i - 1 = m /\ m # m + 1
        BY <3>2
      <4>2. g[m] = f[m]
        BY <2>1, <4>1 DEF Flattens
      <4>3. QED
        BY <3>2, <4>1, <4>2
    <3>3. CASE i # 1 /\ i # m + 1
      <4>1. i \in 1 .. m /\ i - 1 \in 1 .. m /\ i - 1 \in 1 .. m + 1 /\ i - 1 # m + 1
        BY <3>3
      <4>2. f[i] = f[i - 1] \o seqs[i]
        BY <2>1, <3>3, <4>1 DEF Flattens
      <4>3. g[i - 1] = f[i - 1]
        BY <2>1, <4>1 DEF Flattens
      <4>4. QED
        BY <3>3, <4>1, <4>2, <4>3
    <3>4. QED
      BY <3>1, <3>2, <3>3
  <2>3. g = h
    BY <2>2
  <2>4. Flattens(g, seqs, m + 1)
    BY <2>3, Zenon DEF Flattens
  <2>5. QED
    BY <2>4
<1> HIDE DEF T
<1>3. T = Nat
  <2>1. T \in SUBSET Nat
    BY DEF T
  <2>2. QED
    BY <1>1, <1>2, <2>1, SetInduction
<1>4. QED
  BY <1>3 DEF T

\* The first n of some sequences are sequences of S, and the others have them.
Shared(seqs, more, S, n) == \A i \in 1 .. n : seqs[i] \in Seq(S) /\ more[i] = seqs[i]

\* It is a sequence at every position, and depends on what is before alone.
LEMMA FlattenSteps ==
  ASSUME NEW S, NEW seqs, NEW more, NEW n \in Nat, NEW m \in n .. n + 1,
         NEW f, NEW g, Flattens(f, seqs, n), Flattens(g, more, m),
         Shared(seqs, more, S, n)
  PROVE  Shared(f, g, S, n)
<1> USE DEF Shared
<1> DEFINE T == {i \in 0 .. n : i # 0 => f[i] \in Seq(S) /\ g[i] = f[i]}
<1>1. 0 \in T
  OBVIOUS
<1>2. ASSUME NEW i \in 0 .. n - 1, i \in T PROVE i + 1 \in T
  <2>1. i + 1 \in 1 .. n /\ i + 1 \in 1 .. m /\ (i + 1) - 1 = i
    OBVIOUS
  <2>2. CASE i = 0
    <3>1. f[i + 1] = seqs[i + 1] /\ g[i + 1] = more[i + 1]
      BY <2>1, <2>2 DEF Flattens
    <3>2. QED
      BY <2>1, <3>1
  <2>3. CASE i # 0
    <3>1. i + 1 # 1 /\ f[i] \in Seq(S) /\ g[i] = f[i]
      BY <1>2, <2>3
    <3>2. /\ f[i + 1] = f[(i + 1) - 1] \o seqs[i + 1]
          /\ g[i + 1] = g[(i + 1) - 1] \o more[i + 1]
      <4>1. f[i + 1] = f[(i + 1) - 1] \o seqs[i + 1]
        BY <2>1, <3>1, Zenon DEF Flattens
      <4>2. g[i + 1] = g[(i + 1) - 1] \o more[i + 1]
        BY <2>1, <3>1, Zenon DEF Flattens
      <4>3. QED
        BY <4>1, <4>2
    <3>3. f[i] \o seqs[i + 1] \in Seq(S)
      BY <2>1, <3>1, ConcatProperties
    <3>4. f[i + 1] \in Seq(S) /\ g[i + 1] = f[i + 1]
      BY <2>1, <3>1, <3>2, <3>3
    <3>5. QED
      BY <2>1, <3>4
  <2>4. QED
    BY <2>2, <2>3
<1> HIDE DEF T
<1>3. \A i \in 0 .. n : i \in T
  BY <1>1, <1>2, BoundedInduction
<1>4. QED
  BY <1>3 DEF T

\* FlattenSeq is the last value of such a function.
LEMMA FlattenIsLast ==
  ASSUME NEW R, NEW seqs \in Seq(R), seqs # <<>>
  PROVE  \E f : Flattens(f, seqs, Len(seqs)) /\ FlattenSeq(seqs) = f[Len(seqs)]
<1> DEFINE F == CHOOSE f : Flattens(f, seqs, Len(seqs))
<1>1. Len(seqs) \in Nat /\ Len(seqs) # 0
  BY EmptySeq, LenProperties
<1>2. Flattens(F, seqs, Len(seqs))
  BY <1>1, FlattenExists
<1>3. FlattenSeq(seqs) = F[Len(seqs)]
  BY <1>1 DEF FlattenSeq, Flattens
<1> HIDE DEF F
<1>4. QED
  BY <1>2, <1>3

\* Nothing, flattened.
LEMMA FlattenEmpty == FlattenSeq(<<>>) = <<>>
BY DEF FlattenSeq

\* One more sequence at the end.
LEMMA FlattenAppend ==
  ASSUME NEW S, NEW seqs \in Seq(Seq(S)), NEW last \in Seq(S),
         FlattenSeq(seqs) \in Seq(S)
  PROVE  FlattenSeq(Append(seqs, last)) = FlattenSeq(seqs) \o last
<1> DEFINE n    == Len(seqs)
           more == Append(seqs, last)
<1>1. /\ n \in Nat /\ n + 1 \in Nat
      /\ more \in Seq(Seq(S)) /\ more # <<>> /\ Len(more) = n + 1
      /\ \A i \in 1 .. n : more[i] = seqs[i]
      /\ more[n + 1] = last
  BY AppendProperties, LenProperties
<1> HIDE DEF more
<1>2. PICK g : Flattens(g, more, n + 1) /\ FlattenSeq(more) = g[n + 1]
  BY <1>1, FlattenIsLast
<1>3. CASE seqs = <<>>
  <2>1. n = 0
    BY <1>3
  <2>2. FlattenSeq(more) = last
    BY <1>1, <1>2, <2>1 DEF Flattens
  <2>3. FlattenSeq(seqs) = <<>>
    BY <1>3, FlattenEmpty
  <2>4. QED
    BY <2>2, <2>3, ConcatEmptySeq DEF more
<1>4. CASE seqs # <<>>
  <2>1. n # 0 /\ n \in 1 .. n /\ n + 1 \in 1 .. n + 1 /\ n + 1 # 1 /\ (n + 1) - 1 = n
    BY <1>1, <1>4, EmptySeq
  <2>2. PICK f : Flattens(f, seqs, n) /\ FlattenSeq(seqs) = f[n]
    BY <1>4, FlattenIsLast
  <2>3. Shared(seqs, more, S, n)
    BY <1>1, ElementOfSeq DEF Shared
  <2>4. n + 1 \in n .. n + 1
    BY <1>1
  <2>5. Shared(f, g, S, n)
    BY <1>1, <1>2, <2>2, <2>3, <2>4, FlattenSteps
  <2>6. g[n + 1] = g[n] \o more[n + 1]
    BY <1>2, <2>1 DEF Flattens
  <2>7. QED
    BY <1>1, <1>2, <2>1, <2>2, <2>5, <2>6 DEF more, Shared
<1>5. QED
  BY <1>3, <1>4

\* What is flattened is a sequence of the same elements.
LEMMA FlattenType ==
  ASSUME NEW S, NEW seqs \in Seq(Seq(S))
  PROVE  FlattenSeq(seqs) \in Seq(S)
<1>1. CASE seqs = <<>>
  BY <1>1, FlattenEmpty, EmptySeq
<1>2. CASE seqs # <<>>
  <2> DEFINE n == Len(seqs)
  <2>1. n \in Nat /\ n \in 1 .. n /\ n \in n .. n + 1
    BY <1>2, EmptySeq, LenProperties
  <2>2. PICK f : Flattens(f, seqs, n) /\ FlattenSeq(seqs) = f[n]
    BY <1>2, FlattenIsLast
  <2>3. Shared(seqs, seqs, S, n)
    BY ElementOfSeq DEF Shared
  <2>4. Shared(f, f, S, n)
    BY <2>1, <2>2, <2>3, FlattenSteps
  <2>5. QED
    BY <2>1, <2>2, <2>4 DEF Shared
<1>3. QED
  BY <1>1, <1>2

\* Three sequences may be joined from either side.
Associates(a, b, c) == (a \o b) \o c = a \o (b \o c)

LEMMA JoinsInAnyOrder ==
  ASSUME NEW S, NEW a \in Seq(S), NEW b \in Seq(S), NEW c \in Seq(S)
  PROVE  Associates(a, b, c)
BY ConcatAssociative DEF Associates

\* Flattening goes over a concatenation.
LEMMA FlattenConcat ==
  ASSUME NEW S, NEW seqs \in Seq(Seq(S)), NEW more \in Seq(Seq(S))
  PROVE  FlattenSeq(seqs \o more) = FlattenSeq(seqs) \o FlattenSeq(more)
<1> DEFINE Splits(t) == FlattenSeq(seqs \o t) = FlattenSeq(seqs) \o FlattenSeq(t)
           T == {n \in Nat : \A t \in Seq(Seq(S)) : Len(t) = n => Splits(t)}
<1>1. FlattenSeq(seqs) \in Seq(S)
  BY FlattenType
<1>2. 0 \in T
  <2>1. SUFFICES ASSUME NEW t \in Seq(Seq(S)), Len(t) = 0 PROVE Splits(t)
    OBVIOUS
  <2>2. t = <<>>
    BY <2>1, EmptySeq
  <2>3. QED
    BY <1>1, <2>2, ConcatEmptySeq, FlattenEmpty
<1>3. ASSUME NEW n \in T PROVE n + 1 \in T
  <2>1. SUFFICES ASSUME NEW t \in Seq(Seq(S)), Len(t) = n + 1 PROVE Splits(t)
    OBVIOUS
  <2>2. PICK front \in Seq(Seq(S)), last \in Seq(S) : t = Append(front, last)
    <3>1. t # <<>>
      BY <2>1
    <3>2. QED
      BY <3>1, SequenceEmptyOrAppend, Zenon
  <2>3. Len(front) = n
    BY <2>1, <2>2, AppendProperties, LenProperties
  <2>4. Splits(front)
    BY <1>3, <2>3
  <2>5. /\ seqs \o front \in Seq(Seq(S))
        /\ FlattenSeq(seqs \o front) \in Seq(S) /\ FlattenSeq(front) \in Seq(S)
    BY ConcatProperties, FlattenType
  <2>6. seqs \o t = Append(seqs \o front, last)
    <3>1. seqs \o (front \o <<last>>) = (seqs \o front) \o <<last>>
      <4>1. <<last>> \in Seq(Seq(S))
        OBVIOUS
      <4>2. QED
        BY <4>1, ConcatAssociative
    <3>2. t = front \o <<last>>
      BY <2>2, AppendIsConcat
    <3>3. QED
      BY <2>5, <3>1, <3>2, AppendIsConcat
  <2>7. FlattenSeq(seqs \o t) = FlattenSeq(seqs \o front) \o last
    BY <2>5, <2>6, FlattenAppend
  <2>8. FlattenSeq(t) = FlattenSeq(front) \o last
    BY <2>2, <2>5, FlattenAppend
  <2>9. (FlattenSeq(seqs) \o FlattenSeq(front)) \o last
          = FlattenSeq(seqs) \o (FlattenSeq(front) \o last)
    <3>1. Associates(FlattenSeq(seqs), FlattenSeq(front), last)
      BY <1>1, <2>5, JoinsInAnyOrder, Zenon
    <3>2. QED
      BY <3>1 DEF Associates
  <2>10. QED
    BY <2>4, <2>7, <2>8, <2>9
<1> HIDE DEF T
<1>4. T = Nat
  <2>1. T \in SUBSET Nat
    BY DEF T
  <2>2. QED
    BY <1>2, <1>3, <2>1, SetInduction
<1>5. QED
  <2>1. Len(more) \in T
    BY <1>4, LenProperties
  <2>2. QED
    BY <2>1 DEF T
-----------------------------------------------------------------------------
(* What a loop collects that appends f[x] for every x of a sequence.       *)

Collected(f, seq) == FlattenSeq([i \in 1 .. Len(seq) |-> f[seq[i]]])

Images(f, seq) == [i \in 1 .. Len(seq) |-> f[seq[i]]]

\* A sequence holds the images of another.
Maps(images, f, seq, R) ==
  /\ images \in Seq(R)
  /\ Len(images) = Len(seq)
  /\ \A i \in 1 .. Len(seq) : images[i] = f[seq[i]]

\* The sequences it appends.
LEMMA ImagesType ==
  ASSUME NEW A, NEW R, NEW f \in [A -> R], NEW seq \in Seq(A)
  PROVE  Maps(Images(f, seq), f, seq, R)
<1>1. Len(seq) \in Nat /\ \A i \in 1 .. Len(seq) : f[seq[i]] \in R
  BY ElementOfSeq, LenProperties
<1>2. QED
  BY <1>1 DEF Images, Maps

\* Those of a concatenation.  The equation has a name for the provers to cite.
ImagesJoin(f, s, t) == Images(f, s \o t) = Images(f, s) \o Images(f, t)

LEMMA ImagesConcat ==
  ASSUME NEW A, NEW R, NEW f \in [A -> R], NEW s \in Seq(A), NEW t \in Seq(A)
  PROVE  ImagesJoin(f, s, t)
<1> DEFINE m == Len(s)
           n == Len(t)
           U == Images(f, s)
           V == Images(f, t)
           W == Images(f, s \o t)
<1>1. m \in Nat /\ n \in Nat
  BY LenProperties
<1>2. /\ s \o t \in Seq(A) /\ Len(s \o t) = m + n
      /\ \A i \in 1 .. m + n :
           (s \o t)[i] = IF i <= m THEN s[i] ELSE t[i - m]
  BY ConcatProperties
<1>3. Maps(U, f, s, R) /\ Maps(V, f, t, R) /\ Maps(W, f, s \o t, R)
  BY <1>2, ImagesType, Zenon
<1> HIDE DEF U, V, W
<1>4. /\ U \in Seq(R) /\ Len(U) = m /\ \A i \in 1 .. m : U[i] = f[s[i]]
      /\ V \in Seq(R) /\ Len(V) = n /\ \A i \in 1 .. n : V[i] = f[t[i]]
  BY <1>3 DEF Maps
<1> HIDE DEF m, n
<1>5. W \in Seq(R) /\ Len(W) = m + n /\ \A i \in 1 .. m + n : W[i] = f[(s \o t)[i]]
  BY <1>3, <1>2, Zenon DEF Maps
<1>6. /\ U \o V \in Seq(R) /\ Len(U \o V) = m + n
      /\ \A i \in 1 .. m + n : (U \o V)[i] = IF i <= m THEN U[i] ELSE V[i - m]
  <2>1. /\ U \o V \in Seq(R) /\ Len(U \o V) = Len(U) + Len(V)
        /\ \A i \in 1 .. Len(U) + Len(V) :
             (U \o V)[i] = IF i <= Len(U) THEN U[i] ELSE V[i - Len(U)]
    BY <1>4, ConcatProperties
  <2>2. QED
    BY <1>4, <2>1
<1>7. ASSUME NEW i \in 1 .. m + n PROVE W[i] = (U \o V)[i]
  <2>1. W[i] = f[(s \o t)[i]]
    BY <1>5
  <2>2. CASE i <= m
    <3>1. i \in 1 .. m
      BY <1>1, <2>2
    <3>2. (s \o t)[i] = s[i] /\ (U \o V)[i] = U[i]
      BY <1>2, <1>6, <2>2
    <3>3. U[i] = f[s[i]]
      BY <1>4, <3>1
    <3>4. QED
      BY <2>1, <3>2, <3>3, Zenon
  <2>3. CASE ~(i <= m)
    <3>1. i - m \in 1 .. n
      BY <1>1, <2>3
    <3>2. (s \o t)[i] = t[i - m] /\ (U \o V)[i] = V[i - m]
      BY <1>2, <1>6, <2>3
    <3>3. V[i - m] = f[t[i - m]]
      BY <1>4, <3>1
    <3>4. QED
      BY <2>1, <3>2, <3>3, Zenon
  <2>4. QED
    BY <2>2, <2>3
<1>8. W = U \o V
  <2>1. Len(W) = Len(U \o V) /\ \A i \in 1 .. Len(W) : W[i] = (U \o V)[i]
    BY <1>5, <1>6, <1>7
  <2>2. QED
    BY <1>5, <1>6, <2>1, SeqEqual
<1>9. QED
  BY <1>8 DEF U, V, W, ImagesJoin

\* What a loop collects is a sequence of what it appends.
LEMMA CollectedType ==
  ASSUME NEW A, NEW S, NEW f \in [A -> Seq(S)], NEW seq \in Seq(A)
  PROVE  Collected(f, seq) \in Seq(S)
<1>1. Images(f, seq) \in Seq(Seq(S))
  <2>1. Maps(Images(f, seq), f, seq, Seq(S))
    BY ImagesType, Zenon
  <2>2. QED
    BY <2>1, Zenon DEF Maps
<1>2. FlattenSeq(Images(f, seq)) \in Seq(S)
  BY <1>1, FlattenType
<1>3. QED
  BY <1>2, Zenon DEF Collected, Images

\* Of nothing it collects nothing.
LEMMA CollectedEmpty == ASSUME NEW f PROVE Collected(f, <<>>) = <<>>
BY FlattenEmpty DEF Collected

\* Of one element it collects what it appends for it.
LEMMA CollectedOne ==
  ASSUME NEW A, NEW S, NEW f \in [A -> Seq(S)], NEW x \in A
  PROVE  Collected(f, <<x>>) = f[x]
<1>1. PICK none \in Seq(Seq(S)) : none = <<>>
  BY EmptySeq
<1>2. f[x] \in Seq(S) /\ FlattenSeq(none) = <<>> /\ <<>> \in Seq(S)
  BY <1>1, FlattenEmpty, EmptySeq
<1>3. FlattenSeq(Append(none, f[x])) = <<>> \o f[x]
  BY <1>1, <1>2, FlattenAppend
<1>4. [i \in 1 .. Len(<<x>>) |-> f[<<x>>[i]]] = Append(none, f[x])
  BY <1>1
<1>5. <<>> \o f[x] = f[x]
  BY <1>2, ConcatEmptySeq
<1>6. QED
  BY <1>3, <1>4, <1>5 DEF Collected

CollectedJoins(f, s, t) ==
  Collected(f, s \o t) = Collected(f, s) \o Collected(f, t)

(***************************************************************************)
(* What a loop collects from two sequences joined is what it collects from *)
(* the one and then from the other.                                        *)
(***************************************************************************)
LEMMA CollectedConcat ==
  ASSUME NEW A, NEW S, NEW f \in [A -> Seq(S)], NEW s \in Seq(A), NEW t \in Seq(A)
  PROVE  CollectedJoins(f, s, t)
<1>1. Images(f, s) \in Seq(Seq(S)) /\ Images(f, t) \in Seq(Seq(S))
  <2>1. Maps(Images(f, s), f, s, Seq(S)) /\ Maps(Images(f, t), f, t, Seq(S))
    BY ImagesType, Zenon
  <2>2. QED
    BY <2>1, Zenon DEF Maps
<1>2. FlattenSeq(Images(f, s) \o Images(f, t))
        = FlattenSeq(Images(f, s)) \o FlattenSeq(Images(f, t))
  BY <1>1, FlattenConcat
<1>3. ImagesJoin(f, s, t)
  BY ImagesConcat, Zenon
<1>4. Images(f, s \o t) = Images(f, s) \o Images(f, t)
  BY <1>3 DEF ImagesJoin
<1>5. QED
  BY <1>2, <1>4, Zenon DEF CollectedJoins, Collected, Images

-----------------------------------------------------------------------------
(* The records of some types (utils.go 17-36, transport.go 150-159).       *)

IfOfType(types, A) == [rec \in A |-> IF rec.type \in types THEN <<rec>> ELSE <<>>]

LEMMA OfTypesCollects ==
  ASSUME NEW A, NEW records \in Seq(A), NEW types
  PROVE  OfTypes(records, types) = Collected(IfOfType(types, A), records)
<1>1. [i \in 1 .. Len(records) |->
         IF records[i].type \in types THEN <<records[i]>> ELSE <<>>]
        = [i \in 1 .. Len(records) |-> IfOfType(types, A)[records[i]]]
  BY ElementOfSeq DEF IfOfType
<1>2. OfTypes(records, types)
        = FlattenSeq([i \in 1 .. Len(records) |->
                        IF records[i].type \in types THEN <<records[i]>> ELSE <<>>])
  BY Zenon DEF OfTypes, Collect
<1>3. QED
  BY <1>1, <1>2, Zenon DEF Collected

LEMMA OfTypesType ==
  ASSUME NEW A, NEW records \in Seq(A), NEW types
  PROVE  OfTypes(records, types) \in Seq({rec \in A : rec.type \in types})
<1> DEFINE S == {rec \in A : rec.type \in types}
<1>1. IfOfType(types, A) \in [A -> Seq(S)]
  <2>1. ASSUME NEW rec \in A
        PROVE  (IF rec.type \in types THEN <<rec>> ELSE <<>>) \in Seq(S)
    <3>1. rec.type \in types => rec \in S
      OBVIOUS
    <3> HIDE DEF S
    <3>2. <<>> \in Seq(S) /\ (rec.type \in types => <<rec>> \in Seq(S))
      BY <3>1, EmptySeq
    <3>3. QED
      BY <3>2, Zenon
  <2> HIDE DEF S
  <2>2. QED
    BY <2>1 DEF IfOfType
<1> HIDE DEF S
<1>2. Collected(IfOfType(types, A), records) \in Seq(S)
  BY <1>1, CollectedType
<1>3. QED
  BY <1>2, OfTypesCollects, Zenon DEF S

OfTypesJoin(s, t, types) ==
  OfTypes(s \o t, types) = OfTypes(s, types) \o OfTypes(t, types)

LEMMA OfTypesConcat ==
  ASSUME NEW A, NEW s \in Seq(A), NEW t \in Seq(A), NEW types
  PROVE  OfTypesJoin(s, t, types)
<1> DEFINE f == IfOfType(types, A)
<1>1. f \in [A -> Seq(A)]
  BY DEF IfOfType
<1>2. s \o t \in Seq(A)
  BY ConcatProperties
<1>3. /\ OfTypes(s \o t, types) = Collected(f, s \o t)
      /\ OfTypes(s, types) = Collected(f, s)
      /\ OfTypes(t, types) = Collected(f, t)
  BY <1>2, OfTypesCollects
<1> HIDE DEF f
<1>4. CollectedJoins(f, s, t)
  BY <1>1, CollectedConcat, Zenon
<1>5. QED
  BY <1>3, <1>4, Zenon DEF CollectedJoins, OfTypesJoin
-----------------------------------------------------------------------------
(* The payloads of the records of a type (transport.go 199-215).           *)

IfPayload(type, A) == [rec \in A |-> IF rec.type = type THEN rec.payload ELSE <<>>]

\* The records of a type carry data of a kind.
Carries(A, type, S) == \A rec \in A : rec.type = type => rec.payload \in Seq(S)

LEMMA PayloadsCollects ==
  ASSUME NEW A, NEW records \in Seq(A), NEW type
  PROVE  Payloads(records, type) = Collected(IfPayload(type, A), records)
<1>1. [i \in 1 .. Len(records) |->
         IF records[i].type = type THEN records[i].payload ELSE <<>>]
        = [i \in 1 .. Len(records) |-> IfPayload(type, A)[records[i]]]
  BY ElementOfSeq DEF IfPayload
<1>2. Payloads(records, type)
        = FlattenSeq([i \in 1 .. Len(records) |->
                        IF records[i].type = type THEN records[i].payload ELSE <<>>])
  BY Zenon DEF Payloads, Collect
<1>3. QED
  BY <1>1, <1>2, Zenon DEF Collected

LEMMA IfPayloadType ==
  ASSUME NEW A, NEW S, NEW type, Carries(A, type, S)
  PROVE  IfPayload(type, A) \in [A -> Seq(S)]
<1>1. <<>> \in Seq(S)
  BY EmptySeq
<1>2. QED
  BY <1>1 DEF IfPayload, Carries

LEMMA PayloadsType ==
  ASSUME NEW A, NEW S, NEW records \in Seq(A), NEW type, Carries(A, type, S)
  PROVE  Payloads(records, type) \in Seq(S)
<1>1. Collected(IfPayload(type, A), records) \in Seq(S)
  BY IfPayloadType, CollectedType
<1>2. QED
  BY <1>1, PayloadsCollects, Zenon

PayloadsJoin(s, t, type) ==
  Payloads(s \o t, type) = Payloads(s, type) \o Payloads(t, type)

LEMMA PayloadsConcat ==
  ASSUME NEW A, NEW S, NEW s \in Seq(A), NEW t \in Seq(A), NEW type,
         Carries(A, type, S)
  PROVE  PayloadsJoin(s, t, type)
<1> DEFINE f == IfPayload(type, A)
<1>1. f \in [A -> Seq(S)]
  BY IfPayloadType
<1>2. s \o t \in Seq(A)
  BY ConcatProperties
<1>3. /\ Payloads(s \o t, type) = Collected(f, s \o t)
      /\ Payloads(s, type) = Collected(f, s)
      /\ Payloads(t, type) = Collected(f, t)
  BY <1>2, PayloadsCollects
<1> HIDE DEF f
<1>4. CollectedJoins(f, s, t)
  BY <1>1, CollectedConcat, Zenon
<1>5. QED
  BY <1>3, <1>4, Zenon DEF CollectedJoins, PayloadsJoin
-----------------------------------------------------------------------------
(* The records opened (transport.go 168-199).                              *)

Opened(rec) == [type |-> rec.inner, payload |-> rec.payload]

EachOpened(A) == [rec \in A |-> <<Opened(rec)>>]

OpenedRecords(A) == {Opened(rec) : rec \in A}

LEMMA DecodedCollects ==
  ASSUME NEW A, NEW records \in Seq(A)
  PROVE  Decoded(records) = Collected(EachOpened(A), records)
<1>1. [i \in 1 .. Len(records) |->
         <<[type |-> records[i].inner, payload |-> records[i].payload]>>]
        = [i \in 1 .. Len(records) |-> EachOpened(A)[records[i]]]
  BY ElementOfSeq DEF EachOpened, Opened
<1>2. Decoded(records)
        = FlattenSeq([i \in 1 .. Len(records) |->
            <<[type |-> records[i].inner, payload |-> records[i].payload]>>])
  BY Zenon DEF Decoded, Collect
<1>3. QED
  BY <1>1, <1>2, Zenon DEF Collected

LEMMA EachOpenedType ==
  ASSUME NEW A PROVE EachOpened(A) \in [A -> Seq(OpenedRecords(A))]
<1>1. ASSUME NEW rec \in A PROVE <<Opened(rec)>> \in Seq(OpenedRecords(A))
  BY DEF OpenedRecords
<1>2. QED
  BY <1>1 DEF EachOpened

LEMMA DecodedType ==
  ASSUME NEW A, NEW records \in Seq(A)
  PROVE  Decoded(records) \in Seq(OpenedRecords(A))
<1>1. Collected(EachOpened(A), records) \in Seq(OpenedRecords(A))
  BY EachOpenedType, CollectedType
<1>2. QED
  BY <1>1, DecodedCollects, Zenon

DecodedJoin(s, t) == Decoded(s \o t) = Decoded(s) \o Decoded(t)

LEMMA DecodedConcat ==
  ASSUME NEW A, NEW s \in Seq(A), NEW t \in Seq(A)
  PROVE  DecodedJoin(s, t)
<1> DEFINE f == EachOpened(A)
<1>1. f \in [A -> Seq(OpenedRecords(A))]
  BY EachOpenedType
<1>2. s \o t \in Seq(A)
  BY ConcatProperties
<1>3. /\ Decoded(s \o t) = Collected(f, s \o t)
      /\ Decoded(s) = Collected(f, s)
      /\ Decoded(t) = Collected(f, t)
  BY <1>2, DecodedCollects
<1> HIDE DEF f
<1>4. CollectedJoins(f, s, t)
  BY <1>1, CollectedConcat, Zenon
<1>5. QED
  BY <1>3, <1>4, Zenon DEF CollectedJoins, DecodedJoin
-----------------------------------------------------------------------------
(* The messages of a stream of pieces (utils.go 222-278).                  *)

IfLast == [piece \in Piece |-> IF piece.last THEN <<piece.msg>> ELSE <<>>]

LEMMA MessagesCollects ==
  ASSUME NEW records, HandshakeStream(records) \in Seq(Piece)
  PROVE  Messages(records) = Collected(IfLast, HandshakeStream(records))
<1> DEFINE stream == HandshakeStream(records)
<1>1. [i \in 1 .. Len(stream) |->
         IF stream[i].last THEN <<stream[i].msg>> ELSE <<>>]
        = [i \in 1 .. Len(stream) |-> IfLast[stream[i]]]
  <2> HIDE DEF stream
  <2>1. \A i \in 1 .. Len(stream) : stream[i] \in Piece
    BY ElementOfSeq DEF stream
  <2>2. QED
    BY <2>1 DEF IfLast
<1>2. Messages(records)
        = FlattenSeq([i \in 1 .. Len(stream) |->
                        IF stream[i].last THEN <<stream[i].msg>> ELSE <<>>])
  BY Zenon DEF Messages, Collect
<1>3. QED
  BY <1>1, <1>2, Zenon DEF Collected

\* The messages of records that carry pieces of them.
LEMMA MessagesType ==
  ASSUME NEW A, NEW records \in Seq(A), Carries(A, "handshake", Piece)
  PROVE  Messages(records) \in Seq(Message)
<1>1. HandshakeStream(records) \in Seq(Piece)
  BY PayloadsType, Zenon DEF HandshakeStream
<1>2. IfLast \in [Piece -> Seq(Message)]
  <2>1. ASSUME NEW piece \in Piece
        PROVE  (IF piece.last THEN <<piece.msg>> ELSE <<>>) \in Seq(Message)
    <3>1. piece.msg \in Message
      BY DEF Piece
    <3> HIDE DEF Message
    <3>2. <<>> \in Seq(Message) /\ <<piece.msg>> \in Seq(Message)
      BY <3>1, EmptySeq
    <3>3. QED
      BY <3>2, Zenon
  <2>2. QED
    BY <2>1 DEF IfLast
<1>3. Collected(IfLast, HandshakeStream(records)) \in Seq(Message)
  BY <1>1, <1>2, CollectedType, Zenon
<1>4. QED
  BY <1>1, <1>3, MessagesCollects, Zenon
-----------------------------------------------------------------------------
(* The records of a connection.                                            *)

\* What ParseTLSPlaintextRecords and the decoders return.
ProtectedRecord == {rec \in Record : rec.type \in {"application_data"}}

\* An opened record carries what its inner type says.
LEMMA OpenedCarries ==
  /\ Carries(OpenedRecords(ProtectedRecord), "handshake", Piece)
  /\ Carries(OpenedRecords(ProtectedRecord), "application_data", Data)
<1>1. ASSUME NEW rec \in ProtectedRecord
      PROVE  /\ rec.inner = "handshake" => rec.payload \in Seq(Piece)
             /\ rec.inner = "application_data" => rec.payload \in Seq(Data)
  BY Zenon DEF ProtectedRecord, Record, Content
<1>2. ASSUME NEW opened \in OpenedRecords(ProtectedRecord)
      PROVE  /\ opened.type = "handshake" => opened.payload \in Seq(Piece)
             /\ opened.type = "application_data" => opened.payload \in Seq(Data)
  <2>1. PICK rec \in ProtectedRecord : opened = Opened(rec)
    BY Zenon DEF OpenedRecords
  <2>2. opened.type = rec.inner /\ opened.payload = rec.payload
    BY <2>1, Zenon DEF Opened
  <2>3. QED
    BY <1>1, <2>2, Zenon
<1>3. QED
  BY <1>2, Zenon DEF Carries

\* The protected records of a sequence of records, opened.
OpenedOf(records) == Decoded(OfTypes(records, {"application_data"}))

OpenedOfJoin(s, t) == OpenedOf(s \o t) = OpenedOf(s) \o OpenedOf(t)

LEMMA OpenedOfType ==
  ASSUME NEW records \in Seq(Record)
  PROVE  OpenedOf(records) \in Seq(OpenedRecords(ProtectedRecord))
<1>1. OfTypes(records, {"application_data"}) \in Seq(ProtectedRecord)
  BY OfTypesType, Zenon DEF ProtectedRecord
<1>2. QED
  BY <1>1, DecodedType, Zenon DEF OpenedOf

LEMMA OpenedOfConcat ==
  ASSUME NEW s \in Seq(Record), NEW t \in Seq(Record)
  PROVE  OpenedOfJoin(s, t)
<1> DEFINE p == {"application_data"}
           u == OfTypes(s, p)
           v == OfTypes(t, p)
<1>1. u \in Seq(ProtectedRecord) /\ v \in Seq(ProtectedRecord)
  BY OfTypesType, Zenon DEF ProtectedRecord
<1>2. OfTypes(s \o t, p) = u \o v
  <2>1. OfTypesJoin(s, t, p)
    BY OfTypesConcat, Zenon
  <2>2. QED
    BY <2>1, Zenon DEF OfTypesJoin
<1>3. Decoded(u \o v) = Decoded(u) \o Decoded(v)
  <2>1. DecodedJoin(u, v)
    BY <1>1, DecodedConcat, Zenon
  <2>2. QED
    BY <2>1, Zenon DEF DecodedJoin
<1>4. QED
  BY <1>2, <1>3, Zenon DEF OpenedOfJoin, OpenedOf

\* The handshake messages of records are messages.
LEMMA FlightMessagesType ==
  ASSUME NEW records \in Seq(Record)
  PROVE  Messages(OpenedOf(records)) \in Seq(Message)
BY OpenedOfType, OpenedCarries, MessagesType, Zenon

\* The application data of records, in two parts.
DataOf(records) == Payloads(OpenedOf(records), "application_data")

LEMMA NothingCollected == DataOf(<<>>) = <<>>
<1>1. <<>> \in Seq({})
  BY EmptySeq
<1>2. OfTypes(<<>>, {"application_data"}) = <<>>
  BY <1>1, OfTypesCollects, CollectedEmpty
<1>3. Decoded(<<>>) = <<>>
  BY <1>1, DecodedCollects, CollectedEmpty
<1>4. Payloads(<<>>, "application_data") = <<>>
  BY <1>1, PayloadsCollects, CollectedEmpty
<1>5. QED
  BY <1>2, <1>3, <1>4, Zenon DEF DataOf, OpenedOf

DataOfJoin(s, t) == DataOf(s \o t) = DataOf(s) \o DataOf(t)

LEMMA DataOfType ==
  ASSUME NEW records \in Seq(Record) PROVE DataOf(records) \in Seq(Data)
BY OpenedOfType, OpenedCarries, PayloadsType, Zenon DEF DataOf

LEMMA DataOfConcat ==
  ASSUME NEW s \in Seq(Record), NEW t \in Seq(Record)
  PROVE  DataOfJoin(s, t)
<1> DEFINE u == OpenedOf(s)
           v == OpenedOf(t)
<1>1. u \in Seq(OpenedRecords(ProtectedRecord)) /\ v \in Seq(OpenedRecords(ProtectedRecord))
  BY OpenedOfType, Zenon
<1>2. OpenedOf(s \o t) = u \o v
  <2>1. OpenedOfJoin(s, t)
    BY OpenedOfConcat, Zenon
  <2>2. QED
    BY <2>1, Zenon DEF OpenedOfJoin
<1>3. PayloadsJoin(u, v, "application_data")
  BY <1>1, OpenedCarries, PayloadsConcat, Zenon
<1>4. QED
  BY <1>2, <1>3, Zenon DEF DataOfJoin, DataOf, PayloadsJoin
-----------------------------------------------------------------------------
(* Counting the protected records of a stream.                             *)

IsProtected(rec) == rec.type = "application_data"

\* The positions from a to b that hold a protected record.
Protected(recs, a, b) == {j \in a .. b : IsProtected(recs[j])}

\* A chunk holds the k records of a stream behind position g.
IsChunk(chunk, recs, g, k) == \A j \in 1 .. k : chunk[j] = recs[g + j]

\* A range of positions is finite, and so is the protected part of it.
LEMMA ProtectedFinite ==
  ASSUME NEW recs, NEW a \in Int, NEW b \in Int
  PROVE  /\ IsFiniteSet(Protected(recs, a, b))
         /\ Cardinality(Protected(recs, a, b)) \in Nat
<1>1. IsFiniteSet(a .. b)
  BY FS_Interval
<1>2. Protected(recs, a, b) \in SUBSET (a .. b)
  BY DEF Protected
<1>3. IsFiniteSet(Protected(recs, a, b))
  BY <1>1, <1>2, FS_Subset
<1>4. QED
  BY <1>3, FS_CardinalityType

\* The count before a position, as the cardinality of a range.
LEMMA CountIsCardinality ==
  ASSUME NEW recs, NEW n \in Nat
  PROVE  /\ ProtectedBefore(recs, n + 1) = Cardinality(Protected(recs, 1, n))
         /\ ProtectedBefore(recs, n + 1) \in Nat
<1>1. 1 .. (n + 1) - 1 = 1 .. n
  OBVIOUS
<1>2. ProtectedBefore(recs, n + 1) = Cardinality(Protected(recs, 1, n))
  BY <1>1 DEF ProtectedBefore, Protected, IsProtected
<1>3. QED
  BY <1>2, ProtectedFinite

\* The protected records of a range are counted in two parts.
LEMMA CountInTwoParts ==
  ASSUME NEW recs, NEW g \in Nat, NEW n \in Nat, g <= n
  PROVE  Cardinality(Protected(recs, 1, n)) =
           Cardinality(Protected(recs, 1, g))
             + Cardinality(Protected(recs, g + 1, n))
<1> DEFINE low  == Protected(recs, 1, g)
           high == Protected(recs, g + 1, n)
<1>1. Protected(recs, 1, n) = low \union high
  BY DEF Protected
<1>2. low \intersect high = {}
  BY DEF Protected
<1>3. /\ IsFiniteSet(low) /\ IsFiniteSet(high)
      /\ Cardinality(low) \in Nat /\ Cardinality(high) \in Nat
  BY ProtectedFinite
<1>4. Cardinality(low \union high)
        = Cardinality(low) + Cardinality(high) - Cardinality(low \intersect high)
  BY <1>3, FS_Union
<1>5. Cardinality(low \intersect high) = 0
  BY <1>2, FS_EmptySet
<1>6. Cardinality(low \union high) = Cardinality(low) + Cardinality(high)
  BY <1>3, <1>4, <1>5
<1>7. QED
  BY <1>1, <1>6, Zenon

\* The protected records of a chunk are those of its range of the stream.
LEMMA CountInChunk ==
  ASSUME NEW recs, NEW chunk, NEW g \in Nat, NEW n \in Nat,
         IsChunk(chunk, recs, g, n)
  PROVE  Cardinality(Protected(chunk, 1, n))
           = Cardinality(Protected(recs, g + 1, g + n))
<1> DEFINE here  == Protected(chunk, 1, n)
           there == Protected(recs, g + 1, g + n)
           shift == [j \in here |-> g + j]
<1>1. shift \in [here -> there]
  BY DEF Protected, IsChunk
<1>2. \A i, j \in here : shift[i] = shift[j] => i = j
  BY DEF Protected
<1>3. \A t \in there : \E j \in here : shift[j] = t
  <2>1. SUFFICES ASSUME NEW t \in there
                 PROVE  \E j \in here : shift[j] = t
    OBVIOUS
  <2>2. t - g \in here /\ g + (t - g) = t
    BY DEF Protected, IsChunk
  <2>3. QED
    BY <2>2
<1> HIDE DEF here, there, shift
<1>4. ExistsBijection(here, there)
  <2>1. shift \in Bijection(here, there)
    BY <1>1, <1>2, <1>3, Fun_IsBij
  <2>2. QED
    BY <2>1, Fun_ExistsBij
<1>5. QED
  BY <1>4, ProtectedFinite, FS_Bijection DEF here, there

(***************************************************************************)
(* The place of a record in the stream is that of the chunk it is read in, *)
(* plus its place in the chunk.                                            *)
(***************************************************************************)
LEMMA CountsAdd ==
  ASSUME NEW recs, NEW chunk, NEW g \in Nat, NEW k \in Nat, NEW n \in 0 .. k,
         IsChunk(chunk, recs, g, k)
  PROVE  ProtectedBefore(recs, g + n + 1)
           = ProtectedBefore(recs, g + 1) + ProtectedBefore(chunk, n + 1)
<1>1. n \in Nat /\ g + n \in Nat /\ g <= g + n
  OBVIOUS
<1>2. IsChunk(chunk, recs, g, n)
  BY DEF IsChunk
<1>3. ProtectedBefore(recs, g + n + 1) = Cardinality(Protected(recs, 1, g + n))
  BY <1>1, CountIsCardinality
<1>4. ProtectedBefore(recs, g + 1) = Cardinality(Protected(recs, 1, g))
  BY CountIsCardinality
<1>5. ProtectedBefore(chunk, n + 1) = Cardinality(Protected(chunk, 1, n))
  BY <1>1, CountIsCardinality
<1>6. Cardinality(Protected(recs, 1, g + n))
        = Cardinality(Protected(recs, 1, g))
            + Cardinality(Protected(recs, g + 1, g + n))
  BY <1>1, CountInTwoParts
<1>7. Cardinality(Protected(chunk, 1, n))
        = Cardinality(Protected(recs, g + 1, g + n))
  BY <1>1, <1>2, CountInChunk
<1>8. QED
  BY <1>3, <1>4, <1>5, <1>6, <1>7

-----------------------------------------------------------------------------
(* Opening the records of two batches.                                     *)

\* The records of a concatenation, as its two parts have them.
LEMMA PartsOfConcat ==
  ASSUME NEW s \in Seq(Record), NEW t \in Seq(Record)
  PROVE  /\ Len(s) \in Nat /\ Len(t) \in Nat
         /\ Len(s \o t) = Len(s) + Len(t)
         /\ IsChunk(s, s \o t, 0, Len(s))
         /\ IsChunk(t, s \o t, Len(s), Len(t))
<1>1. Len(s) \in Nat /\ Len(t) \in Nat
  BY LenProperties
<1>2. /\ Len(s \o t) = Len(s) + Len(t)
      /\ \A i \in 1 .. Len(s) + Len(t) :
           (s \o t)[i] = IF i <= Len(s) THEN s[i] ELSE t[i - Len(s)]
  BY ConcatProperties
<1>3. ASSUME NEW j \in 1 .. Len(s) PROVE s[j] = (s \o t)[0 + j]
  BY <1>1, <1>2
<1>4. ASSUME NEW j \in 1 .. Len(t) PROVE t[j] = (s \o t)[Len(s) + j]
  <2>1. /\ Len(s) + j \in 1 .. Len(s) + Len(t)
        /\ ~(Len(s) + j <= Len(s)) /\ Len(s) + j - Len(s) = j
    BY <1>1
  <2>2. QED
    BY <1>2, <2>1
<1>5. QED
  BY <1>1, <1>2, <1>3, <1>4 DEF IsChunk

\* Nothing is protected before the first record.
LEMMA NothingBefore == ASSUME NEW recs PROVE ProtectedBefore(recs, 0 + 1) = 0
<1>1. Protected(recs, 1, 0) = {}
  BY DEF Protected
<1>2. ProtectedBefore(recs, 0 + 1) = Cardinality(Protected(recs, 1, 0))
  BY CountIsCardinality
<1>3. QED
  BY <1>1, <1>2, FS_EmptySet

\* The count in the first part, and the count in the second behind it.
LEMMA CountsJoin ==
  ASSUME NEW s \in Seq(Record), NEW t \in Seq(Record)
  PROVE  /\ \A n \in 0 .. Len(s) :
              ProtectedBefore(s \o t, n + 1) = ProtectedBefore(s, n + 1)
         /\ \A n \in 0 .. Len(t) :
              ProtectedBefore(s \o t, Len(s) + n + 1)
                = ProtectedBefore(s, Len(s) + 1) + ProtectedBefore(t, n + 1)
<1>1. /\ Len(s) \in Nat /\ Len(t) \in Nat
      /\ IsChunk(s, s \o t, 0, Len(s))
      /\ IsChunk(t, s \o t, Len(s), Len(t))
  BY PartsOfConcat
<1>2. ASSUME NEW n \in 0 .. Len(s)
      PROVE  ProtectedBefore(s \o t, n + 1) = ProtectedBefore(s, n + 1)
  <2>1. PICK zero \in Nat : zero = 0
    OBVIOUS
  <2>2. ProtectedBefore(s \o t, zero + n + 1)
          = ProtectedBefore(s \o t, zero + 1) + ProtectedBefore(s, n + 1)
    <3>1. IsChunk(s, s \o t, zero, Len(s))
      BY <1>1, <2>1, Zenon
    <3>2. QED
      BY <1>1, <3>1, CountsAdd
  <2>3. ProtectedBefore(s, n + 1) \in Nat
    <3>1. n \in Nat
      BY <1>1
    <3>2. QED
      BY <3>1, CountIsCardinality
  <2>4. ProtectedBefore(s \o t, zero + 1) = 0 /\ zero + n + 1 = n + 1
    BY <1>1, <2>1, NothingBefore
  <2>5. QED
    BY <2>2, <2>3, <2>4
<1>3. ASSUME NEW n \in 0 .. Len(t)
      PROVE  ProtectedBefore(s \o t, Len(s) + n + 1)
               = ProtectedBefore(s, Len(s) + 1) + ProtectedBefore(t, n + 1)
  <2>1. ProtectedBefore(s \o t, Len(s) + n + 1)
          = ProtectedBefore(s \o t, Len(s) + 1) + ProtectedBefore(t, n + 1)
    BY <1>1, CountsAdd
  <2>2. Len(s) \in 0 .. Len(s)
    BY <1>1
  <2>3. ProtectedBefore(s \o t, Len(s) + 1) = ProtectedBefore(s, Len(s) + 1)
    BY <1>2, <2>2
  <2>4. QED
    BY <2>1, <2>3
<1>4. QED
  BY <1>2, <1>3

(***************************************************************************)
(* Two batches open under a key when the first does and the second does    *)
(* from the sequence number the first leaves.                              *)
(***************************************************************************)
DecodesJoin(s, t, key, seq) ==
  Decodes(s \o t, key, seq) <=>
    /\ Decodes(s, key, seq)
    /\ Decodes(t, key, seq + ProtectedBefore(s, Len(s) + 1))

LEMMA DecodesConcat ==
  ASSUME NEW s \in Seq(Record), NEW t \in Seq(Record), NEW key, NEW seq \in Nat
  PROVE  DecodesJoin(s, t, key, seq)
<1> DEFINE st == s \o t
           m == Len(s)
           n == Len(t)
           before == ProtectedBefore(s, m + 1)
<1>1. /\ m \in Nat /\ n \in Nat /\ Len(st) = m + n
      /\ \A j \in 1 .. m : s[j] = st[0 + j]
      /\ \A j \in 1 .. n : t[j] = st[m + j]
  BY PartsOfConcat DEF IsChunk
<1>2. before \in Nat
  BY <1>1, CountIsCardinality
<1>3. ASSUME NEW i \in 1 .. m
      PROVE  st[i] = s[i] /\ ProtectedBefore(st, i) = ProtectedBefore(s, i)
  <2>1. i - 1 \in 0 .. m /\ (i - 1) + 1 = i /\ 0 + i = i
    BY <1>1
  <2>2. ProtectedBefore(st, (i - 1) + 1) = ProtectedBefore(s, (i - 1) + 1)
    BY <2>1, CountsJoin
  <2>3. QED
    BY <1>1, <2>1, <2>2
<1>4. ASSUME NEW i \in 1 .. n
      PROVE  /\ st[m + i] = t[i]
             /\ seq + ProtectedBefore(st, m + i)
                  = seq + before + ProtectedBefore(t, i)
  <2>1. /\ i - 1 \in 0 .. n /\ i - 1 \in Nat
        /\ (i - 1) + 1 = i /\ m + (i - 1) + 1 = m + i
    BY <1>1
  <2>2. ProtectedBefore(st, m + (i - 1) + 1)
          = before + ProtectedBefore(t, (i - 1) + 1)
    BY <2>1, CountsJoin
  <2>3. ProtectedBefore(t, (i - 1) + 1) \in Nat
    BY <2>1, CountIsCardinality
  <2>4. QED
    BY <1>1, <1>2, <2>1, <2>2, <2>3
<1> DEFINE Good(recs, i, first) ==
             recs[i].type = "application_data" =>
               Opens(recs[i], key, first + ProtectedBefore(recs, i))
<1>5. /\ \A i \in 1 .. m : Good(st, i, seq) <=> Good(s, i, seq)
      /\ \A i \in 1 .. n : Good(st, m + i, seq) <=> Good(t, i, seq + before)
  BY <1>3, <1>4, Zenon
<1>6. /\ Decodes(st, key, seq) <=> \A i \in 1 .. m + n : Good(st, i, seq)
      /\ Decodes(s, key, seq) <=> \A i \in 1 .. m : Good(s, i, seq)
      /\ Decodes(t, key, seq + before) <=> \A i \in 1 .. n : Good(t, i, seq + before)
  BY <1>1, Zenon DEF Decodes
<1> HIDE DEF Good, st, m, n, before
<1>7. (\A i \in 1 .. m + n : Good(st, i, seq)) <=>
        (\A i \in 1 .. m : Good(st, i, seq)) /\ (\A i \in 1 .. n : Good(st, m + i, seq))
  <2>1. ASSUME \A i \in 1 .. m : Good(st, i, seq),
               \A i \in 1 .. n : Good(st, m + i, seq),
               NEW i \in 1 .. m + n
        PROVE  Good(st, i, seq)
    <3>1. i \in 1 .. m \/ (i - m \in 1 .. n /\ m + (i - m) = i)
      BY <1>1
    <3>2. QED
      BY <2>1, <3>1, Zenon
  <2>2. \A i \in 1 .. m : i \in 1 .. m + n
    BY <1>1
  <2>3. \A i \in 1 .. n : m + i \in 1 .. m + n
    BY <1>1
  <2>4. QED
    BY <2>1, <2>2, <2>3, Zenon
<1>8. Decodes(st, key, seq) <=>
        Decodes(s, key, seq) /\ Decodes(t, key, seq + before)
  BY <1>5, <1>6, <1>7, Zenon
<1>9. QED
  BY <1>8, Zenon DEF DecodesJoin, st, m, before

-----------------------------------------------------------------------------
(* The parts of a stream.                                                  *)

\* A part of a stream and the next are one part.
LEMMA PartsJoin ==
  ASSUME NEW recs \in Seq(Record), NEW g \in 0 .. Len(recs),
         NEW n \in g .. Len(recs)
  PROVE  /\ SubSeq(recs, 1, g) \in Seq(Record)
         /\ SubSeq(recs, g + 1, n) \in Seq(Record)
         /\ SubSeq(recs, 1, n) = SubSeq(recs, 1, g) \o SubSeq(recs, g + 1, n)
<1>1. Len(recs) \in Nat
  BY LenProperties
<1>2. /\ \A i \in 1 .. g : recs[i] \in Record
      /\ \A i \in g + 1 .. n : recs[i] \in Record
  BY <1>1, ElementOfSeq
<1>3. SubSeq(recs, 1, g) \in Seq(Record) /\ SubSeq(recs, g + 1, n) \in Seq(Record)
  <2>1. 1 \in Int /\ g \in Int /\ g + 1 \in Int /\ n \in Int
    BY <1>1
  <2>2. QED
    BY <1>2, <2>1, SubSeqProperties
<1>4. 1 \in 1 .. Len(recs) + 1 /\ g \in 1 - 1 .. Len(recs)
  BY <1>1
<1>5. QED
  BY <1>3, <1>4, ConcatAdjacentSubSeq

\* The same of the parts behind a place in the stream.
LEMMA MiddlePartsJoin ==
  ASSUME NEW recs \in Seq(Record), NEW a \in 0 .. Len(recs),
         NEW g \in a .. Len(recs), NEW n \in g .. Len(recs)
  PROVE  /\ SubSeq(recs, a + 1, g) \in Seq(Record)
         /\ Len(SubSeq(recs, a + 1, g)) = g - a
         /\ SubSeq(recs, g + 1, n) \in Seq(Record)
         /\ SubSeq(recs, a + 1, n) = SubSeq(recs, a + 1, g) \o SubSeq(recs, g + 1, n)
<1>1. Len(recs) \in Nat
  BY LenProperties
<1>2. /\ \A i \in a + 1 .. g : recs[i] \in Record
      /\ \A i \in g + 1 .. n : recs[i] \in Record
  BY <1>1, ElementOfSeq
<1>3. a + 1 \in Int /\ g \in Int /\ g + 1 \in Int /\ n \in Int
  BY <1>1
<1>4. SubSeq(recs, a + 1, g) \in Seq(Record) /\ SubSeq(recs, g + 1, n) \in Seq(Record)
  BY <1>2, <1>3, SubSeqProperties
<1>5. Len(SubSeq(recs, a + 1, g)) = g - a
  <2>1. Len(SubSeq(recs, a + 1, g)) = IF a + 1 <= g THEN g - (a + 1) + 1 ELSE 0
    BY <1>2, <1>3, SubSeqProperties
  <2>2. QED
    BY <1>1, <2>1
<1>6. a + 1 \in 1 .. Len(recs) + 1 /\ g \in (a + 1) - 1 .. Len(recs)
  BY <1>1
<1>7. QED
  BY <1>4, <1>5, <1>6, ConcatAdjacentSubSeq

\* The data of a part of a stream, in two parts.
LEMMA DataInTwoParts ==
  ASSUME NEW recs \in Seq(Record), NEW g \in 0 .. Len(recs),
         NEW n \in g .. Len(recs)
  PROVE  /\ DataOf(SubSeq(recs, 1, g)) \in Seq(Data)
         /\ DataOf(SubSeq(recs, g + 1, n)) \in Seq(Data)
         /\ DataOf(SubSeq(recs, 1, n))
              = DataOf(SubSeq(recs, 1, g)) \o DataOf(SubSeq(recs, g + 1, n))
<1> DEFINE low  == SubSeq(recs, 1, g)
           high == SubSeq(recs, g + 1, n)
<1>1. /\ low \in Seq(Record) /\ high \in Seq(Record)
      /\ SubSeq(recs, 1, n) = low \o high
  BY PartsJoin
<1> HIDE DEF low, high
<1>2. DataOf(low) \in Seq(Data) /\ DataOf(high) \in Seq(Data)
  BY <1>1, DataOfType, Zenon
<1>3. DataOfJoin(low, high)
  BY <1>1, DataOfConcat, Zenon
<1>4. QED
  BY <1>1, <1>2, <1>3, Zenon DEF DataOfJoin, low, high

\* The first of two sequences is the front of both joined.
LEMMA FrontOfConcat ==
  ASSUME NEW S, NEW a \in Seq(S), NEW b \in Seq(S)
  PROVE  /\ Len(a) <= Len(a \o b)
         /\ SubSeq(a \o b, 1, Len(a)) = a
<1>1. /\ a \o b \in Seq(S) /\ Len(a \o b) = Len(a) + Len(b)
      /\ Len(a) \in Nat /\ Len(b) \in Nat
  BY ConcatProperties, LenProperties
<1>2. CASE Len(a) = 0
  BY <1>1, <1>2, EmptySeq, SubSeqEmpty
<1>3. CASE Len(a) # 0
  <2>1. 1 \in 1 .. Len(a) /\ Len(a) \in 1 .. Len(a)
    BY <1>1, <1>3
  <2>2. SubSeq(a \o b, 1, Len(a)) = SubSeq(a, 1, Len(a))
    BY <2>1, SubSeqOfConcat1
  <2>3. QED
    BY <1>1, <2>2, SubSeqFull
<1>4. QED
  BY <1>2, <1>3

\* The data of a prefix starts the data of the whole.
LEMMA PrefixOfData ==
  ASSUME NEW recs \in Seq(Record), NEW n \in 0 .. Len(recs)
  PROVE  /\ DataOf(recs) \in Seq(Data)
         /\ DataOf(SubSeq(recs, 1, n)) \in Seq(Data)
         /\ Len(DataOf(SubSeq(recs, 1, n))) <= Len(DataOf(recs))
         /\ SubSeq(DataOf(recs), 1, Len(DataOf(SubSeq(recs, 1, n))))
              = DataOf(SubSeq(recs, 1, n))
<1> DEFINE a == DataOf(SubSeq(recs, 1, n))
           b == DataOf(SubSeq(recs, n + 1, Len(recs)))
<1>1. Len(recs) \in Nat /\ SubSeq(recs, 1, Len(recs)) = recs
  BY LenProperties, SubSeqFull
<1>2. a \in Seq(Data) /\ b \in Seq(Data) /\ DataOf(recs) = a \o b
  <2>1. Len(recs) \in n .. Len(recs)
    BY <1>1
  <2>2. /\ a \in Seq(Data) /\ b \in Seq(Data)
        /\ DataOf(SubSeq(recs, 1, Len(recs))) = a \o b
    BY <2>1, DataInTwoParts
  <2>3. QED
    BY <1>1, <2>2, Zenon
<1> HIDE DEF a, b
<1>3. Len(a) <= Len(a \o b) /\ SubSeq(a \o b, 1, Len(a)) = a
  BY <1>2, FrontOfConcat
<1>4. QED
  BY <1>2, <1>3 DEF a
=============================================================================
